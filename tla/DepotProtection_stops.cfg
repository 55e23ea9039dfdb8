SPECIFICATION Spec
CONSTANTS
  Trees = {t1, t2}
  NoEntry = NoEntry
  Faults <- AllFailures
SYMMETRY TreeSymmetry
INVARIANTS
  ProtectionTypeOK
  TargetSparesProtectedTrees
  ProtectedWritesAreReported
  ProductTreesAreOpen
PROPERTIES
  ProtectionEndsByWord
CHECK_DEADLOCK TRUE
