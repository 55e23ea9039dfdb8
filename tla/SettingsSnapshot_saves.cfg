SPECIFICATION Spec
CONSTANTS
  w1 = w1
  w2 = w2
  a = a
  b = b
  Workers <- TwoWorkers
  Values <- TwoValues
  MaxRuns = 2
  Crashes = TRUE
SYMMETRY Sym
INVARIANTS
  SnapshotTypeOK
  SavedIsUsed
PROPERTIES
  EndpointsStay
