SPECIFICATION Spec
CONSTANTS
  c1 = c1
  c2 = c2
  None = None
  Conns = {c1, c2}
  Lists <- MCLists
  BackupLists <- MCBackupLists
  Purposes = {"diff", "restore", "backup_restore"}
  MaxDbs = 1
  MaxItems = 2
  MaxPending = 2
  MaxKeys = 3
CHECK_DEADLOCK FALSE
INVARIANTS ScreensAreConsistent
PROPERTIES ProgressEnds
