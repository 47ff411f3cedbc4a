SPECIFICATION Spec
CONSTANTS
  u1 = u1
  s1 = s1
  s2 = s2
  b1 = b1
  b2 = b2
  None = None
  Daemon = Daemon
  Users = {u1}
  Schedules = {s1, s2}
  BackupIds = {b1, b2}
  Kind <- MCKind
  Interval = 1
  MaxTime = 2
  MaxOps = 3
  MaxFaults = 1
CHECK_DEADLOCK FALSE
INVARIANTS SchedulesAreKept ArchivesAreKept
PROPERTIES DueFires
