\* Every message of up to 3 members, after any other message.
SPECIFICATION Spec
CONSTANTS
  Key = {"result", "method", "params", "context", "error", "code", "message", "other"}
  MayRunOut = TRUE
  MaxNesting = 4
  MaxMembers = 3
INVARIANTS
  TypeOK
  NestingTracked
  ConformingAccepted
  AcceptedConforms
  BodyStored
  LocalErrorAnswered
CHECK_DEADLOCK FALSE
