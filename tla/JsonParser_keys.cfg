\* The empty key occurs as well.
SPECIFICATION Spec
CONSTANTS
  Key = {"result", "method", "other", "empty"}
  MayRunOut = FALSE
  MaxNesting = 4
  MaxMembers = 3
INVARIANT
  ConformingAccepted
CHECK_DEADLOCK FALSE
