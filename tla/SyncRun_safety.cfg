SPECIFICATION Spec
CONSTANTS
  r1 = r1
  r2 = r2
  w1 = w1
  Runs <- TwoRuns
  Workers <- OneWorker
  Scheduler = Scheduler
  NoStatus = NoStatus
  NoRun = NoRun
  Faults <- AllFaults
  DirectRuns = TRUE
  MaxQueue = 1
  MaxClock = 1
SYMMETRY Sym
INVARIANTS
  TypeOK
  SingleWriter
PROPERTIES
  ReadersWriter
  HandedOffRunIsAdmitted
