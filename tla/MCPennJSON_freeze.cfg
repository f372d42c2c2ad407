\* Softcode calls rpc() from do_top() as well, between select() and the read.
SPECIFICATION FairSpec
CONSTANTS
  Player = {p1}
  God = God
  Nobody = Nobody
  CallPhases = {"commands", "queue"}
  StartMayFail = FALSE
  MaxDepth = 5
  MaxCallbacks = 2
  MaxCalls = 2
  MaxStarts = 1
  MaxInvokes = 2
  MaxPosts = 2
  MaxCrashes = 0
PROPERTY
  SolicitationAcknowledged
CHECK_DEADLOCK FALSE
