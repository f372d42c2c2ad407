\* Every transaction ends, wherever softcode starts it and whatever fails.
SPECIFICATION FairSpec
CONSTANTS
  Player = {p1}
  God = God
  Nobody = Nobody
  CallPhases = {"commands", "queue"}
  StartMayFail = TRUE
  MaxDepth = 4
  MaxCallbacks = 1
  MaxCalls = 3
  MaxStarts = 2
  MaxInvokes = 2
  MaxPosts = 2
  MaxCrashes = 1
PROPERTIES
  RpcReturns
CHECK_DEADLOCK FALSE
