SPECIFICATION FairSpec
CONSTANTS
  i1 = i1
  w1 = w1
  w2 = w2
  Ids <- OneId
  NoId = NoId
  NoRelease = NoRelease
  NoAdoption = NoAdoption
  Workers <- TwoWorkers
  MaxStarts = 1
  Faults <- AllFailures
INVARIANTS
  RegistrationTypeOK
  OnceAStart
PROPERTIES
  RegistrationSurvivesInstall
  NeedIsMet
CHECK_DEADLOCK TRUE
