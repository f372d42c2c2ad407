\* A launch that fails while an older transaction is still on the stack.
SPECIFICATION Spec
CONSTANTS
  Player = {p1, p2}
  God = God
  Nobody = Nobody
  CallPhases = {"commands", "queue"}
  StartMayFail = TRUE
  MaxDepth = 5
  MaxCallbacks = 1
  MaxCalls = 4
  MaxStarts = 3
  MaxInvokes = 3
  MaxPosts = 2
  MaxCrashes = 1
INVARIANT
  EncoderLive
CHECK_DEADLOCK FALSE
