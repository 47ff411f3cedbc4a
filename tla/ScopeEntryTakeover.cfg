SPECIFICATION EntrySpec
CONSTANTS
  Procs = {p1, p2, p3}
  Contender = p1
  None = None
  MaxDeaths = 1
  Users = {u1}
  Scopes = {a}
  MaxDead = 0
INVARIANTS TakeoverIsExclusive
CHECK_DEADLOCK FALSE
