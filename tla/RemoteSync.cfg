SPECIFICATION Spec
CONSTANTS
  o1 = o1
  A = A
  B = B
  Machines = {A, B}
  Founders = {A}
  MaxSnap = 2
  Objects = {o1}
  Content <- MCContent
  Reconciles = TRUE
  None = None
  Identity = Identity
  Ignore = Ignore
  Conflict = Conflict
  MaxCommits = 4
  MaxGCs = 1
  MaxTasks = 1
CHECK_DEADLOCK FALSE
INVARIANTS PublishedIsSafe LocalIsSafe
