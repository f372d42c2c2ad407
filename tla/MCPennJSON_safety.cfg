\* Everything may go wrong: softcode calls rpc() in every phase, Ruby dies,
\* servers are stopped, relaunched within a transaction, or fail to start.
SPECIFICATION Spec
CONSTANTS
  Player = {p1, p2}
  God = God
  Nobody = Nobody
  CallPhases = {"commands", "queue"}
  StartMayFail = TRUE
  MaxDepth = 5
  MaxCallbacks = 2
  MaxCalls = 4
  MaxStarts = 3
  MaxInvokes = 3
  MaxPosts = 2
  MaxCrashes = 1
SYMMETRY PlayerSymmetry
INVARIANTS
  TypeOK
  TurnTaking
  OneNotification
  NestingAgrees
  ContextRestored
  ContextShown
  TopLevelBalanced
  RecursionBounded
  StrayOnlyAfterRestart
  NoLostWakeup
CHECK_DEADLOCK FALSE
