SPECIFICATION Spec
CONSTANTS
  Colls = {c1, c2}
  Keys = {k1, k2}
  Vals = {v1, v2}
  All = All
SYMMETRY Symmetry
INVARIANTS KeptIsRestoredExactly NonDestructive FailedUntouched PriorStateKept RolledBackCollections
