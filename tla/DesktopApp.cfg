SPECIFICATION AppSpec
CONSTANTS
  Jobs = {j1}
  Kinds <- Everything
  MaxConns = 2
  MaxDbs = 2
  MaxLines = 2
  Calls = {c1, c2, c3}
  Requests = {r1}
  NoCall = NoCall
  MaxServers = 2
  Sessions = {s1, s2}
  Dials = {d1, d2}
  Callers = {g1, g2}
  Profiles = {a}
  None = None
  MaxSessions = 2
  MaxEdits = 1
CHECK_DEADLOCK FALSE
INVARIANTS JobsEndCleanly RefsCountHolders ClosedRightly NothingLeaks OneLiveSession ListenerIsSound TunnelsAreClosed
PROPERTIES JobsEnd ClosedInTheEnd ServicesAnswer
