\* Softcode uses rpc() in process_commands() only, where select() has not yet
\* reported anything.
SPECIFICATION FairSpec
CONSTANTS
  Player = {p1}
  God = God
  Nobody = Nobody
  CallPhases = {"commands"}
  StartMayFail = FALSE
  MaxDepth = 5
  MaxCallbacks = 2
  MaxCalls = 2
  MaxStarts = 2
  MaxInvokes = 2
  MaxPosts = 2
  MaxCrashes = 1
PROPERTIES
  SolicitationAcknowledged
  CallbackRuns
CHECK_DEADLOCK FALSE
