SPECIFICATION Spec
CONSTANTS
  Procs = {p1, p2}
  None = None
  Backend = "fs"
  Hashes = {h1}
  NumColls = 1
  MaxSnaps = 2
  KeepLasts = {0, 1}
  MaxDeaths = 0
SYMMETRY Symmetry
INVARIANT CreatedIsComplete
