\* Ten small worlds, and commands two deep.
SPECIFICATION Spec
CONSTANTS
  p = p
  r = r
  w = w
  a = a
  j1 = j1
  j2 = j2
  j3 = j3
  s1 = s1
  s2 = s2
  race = race
  People = {p, r, w, race}
  Wizards = {w}
  Amounts = {1}
  Unknown = Unknown
  Worlds <- MCWorlds
  MaxDepth = 2
  MaxCash = 2
  MaxDebt = 1
  AccountIds = {a}
  MaxAccounts = 0
  Jobs = {j1, j2, j3}
  Urgent = {j1}
  Ships = {s1, s2}
  Nobody = Nobody
  Size = 1
  Price = 1
  Capacity = 1
  Skill = 2
  MaxListed = 2
  MaxDeficit = 1
  RaceObj = race
  Odds = {0, 1, 2}
SYMMETRY Alike
INVARIANTS
  TypeOK
  NoOverdraft
  MoneyConserved
  JobPaidOnce
  HoldAccounted
CHECK_DEADLOCK TRUE
