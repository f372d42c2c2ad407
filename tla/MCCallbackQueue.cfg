\* A queue of 3 blocks, so that head and tail run around the end.
SPECIFICATION Spec
CONSTANTS
  Item = {b1, b2, b3}
  Nil = Nil
  MaxSizeHint = 3
  Max = 4
INVARIANTS
  TypeOK
  SlotsAccounted
PROPERTY
  ImplementsFifo
CHECK_DEADLOCK TRUE
