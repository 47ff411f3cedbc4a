SPECIFICATION Spec
CONSTANTS
  Procs = {p1, p2}
  None = None
  Backend = "bolt"
  Hashes = {h1, h2}
  NumColls = 1
  MaxSnaps = 2
  KeepLasts = {0, 1}
  MaxDeaths = 1
SYMMETRY Symmetry
INVARIANTS TaggedIsKept GCLeavesNoGarbage ListedIsComplete CreatedIsComplete
PROPERTIES NoLostUpdate ImplementsHistory
