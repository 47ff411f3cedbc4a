SPECIFICATION Spec
CONSTANTS
  desktop = desktop
  cli = cli
  d1 = d1
  c1 = c1
  n1 = n1
  p1 = p1
  p2 = p2
  NoValue = NoValue
  NoConn = NoConn
  Procs = {desktop, cli}
  Desktop = {desktop}
  Tasks = {d1, c1}
  ProcOf <- MCProcOf
  Names = {n1}
  Kinds = {"conn"}
  Values = {p1, p2}
  Profiles <- MCProfiles
  LegacyConns <- MCLegacy
  MaxOps = 3
  MaxFaults = 1
CHECK_DEADLOCK FALSE
INVARIANTS EditsSurvive SecretsAreAccounted
