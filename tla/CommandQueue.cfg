\* One player, one thing: two pids, two commands each, waits of a second.
SPECIFICATION Spec
CONSTANTS
  Player = Player
  Things = {t1}
  EventHandler = t1
  Nothing = Nothing
  MaxPid = 2
  Quota = 2
  MaxWait = 1
  MaxDrift = 1
INVARIANTS
  TypeOK
  EntriesAccounted
  WaitersCounted
  QuotaSound
  WaitSorted
PROPERTY
  InSemaphoreOrder
  EntriesMoveOn
CHECK_DEADLOCK TRUE
