SPECIFICATION EntrySpec
CONSTANTS
  Procs = {p1, p2, p3}
  Contender = p1
  None = None
  MaxDeaths = 1
  Users = {u1, u2}
  Scopes = {a, b}
  MaxDead = 1
INVARIANTS ExclusiveUntilMishap DirectoryIsSound
PROPERTIES ImplementsMutex LockIsAvailable
CHECK_DEADLOCK FALSE
