CONSTANTS
  Objects <- MCObjects
  BufferSize = 7
  Pools = {p1, p2, p3}
  Buffers = {b1, b2, b3}
  NULL = NULL
  MaxDue = 2
  MaxDepth = 3
SYMMETRY Alike
SPECIFICATION Spec
INVARIANTS ObjectsCut BuffersHeld
