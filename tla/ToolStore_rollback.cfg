SPECIFICATION Spec
CONSTANTS
  t1 = t1
  t2 = t2
  t3 = t3
  t4 = t4
  w1 = w1
  w2 = w2
  Releases <- FourReleases
  Workers <- TwoWorkers
  NoRelease = NoRelease
  NoWorker = NoWorker
  Faults <- RollbackFaults
PROPERTIES
  PromotionRemovesPrevious
