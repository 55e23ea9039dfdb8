SPECIFICATION CatalogSpec
CONSTANTS
  r1 = r1
  r2 = r2
  w1 = w1
  Runs <- TwoRuns
  Workers <- NoWorkers
  Scheduler = Scheduler
  NoStatus = NoStatus
  NoRun = NoRun
  Faults <- CatalogFaults
  DirectRuns = TRUE
  MaxQueue = 1
  MaxClock = 1
SYMMETRY Sym
INVARIANTS
  CatalogTypeOK
  LiveAttemptIsNotInterrupted
  LiveWorkspaceIsKept
PROPERTIES
  NonEmptyCatalogSurvives
