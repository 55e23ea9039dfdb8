SPECIFICATION FairCatalogSpec
CONSTANTS
  r1 = r1
  r2 = r2
  w1 = w1
  Runs <- TwoRuns
  Workers <- OneWorker
  Scheduler = Scheduler
  NoStatus = NoStatus
  NoRun = NoRun
  Faults <- StopFaults
  DirectRuns = FALSE
  MaxQueue = 1
  MaxClock = 0
INVARIANTS
  RunningMeansRun
  DownloadIsAnnounced
  BusFollowsFile
PROPERTIES
  OpenAttemptResolves
