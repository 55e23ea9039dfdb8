SPECIFICATION Spec
CONSTANTS
  Trees = {t1, t2}
  NoEntry = NoEntry
  Faults <- ConsoleStopsOnly
SYMMETRY TreeSymmetry
PROPERTIES
  UploadsAreProtected
CHECK_DEADLOCK TRUE
