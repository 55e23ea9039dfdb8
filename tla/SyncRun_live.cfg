SPECIFICATION FairSpec
CONSTANTS
  r1 = r1
  r2 = r2
  w1 = w1
  Runs <- TwoRuns
  Workers <- OneWorker
  Scheduler = Scheduler
  NoStatus = NoStatus
  NoRun = NoRun
  Faults <- LivenessFaults
  DirectRuns = FALSE
  MaxQueue = 1
  MaxClock = 0
PROPERTIES
  RunsEnd
  LocksAreReleased
  RequestsAreTaken
  ArmedConverges
