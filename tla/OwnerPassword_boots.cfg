SPECIFICATION Spec
CONSTANTS
  MaxRelease = 2
  Secrets = {s1, s2}
  Passwords = {p1, p2}
  NoPassword = NoPassword
  Threads = {w1, w2}
  NoThread = NoThread
  WorkerOf <- OneWorker
  MaxCopies = 1
  Faults <- AllFailures
SYMMETRY OwnerSymmetry
INVARIANTS
  ServedVolumeIsReady
  SecretsAgree
  OwnerTypeOK
  OnePassword
PROPERTIES
  ChangesAreSafe
  ClaimedOnce
CHECK_DEADLOCK TRUE
