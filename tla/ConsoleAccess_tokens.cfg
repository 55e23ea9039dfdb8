SPECIFICATION Spec
CONSTANTS
  People = {p1}
  Accounts = {a1, a2}
  Tokens = {t1, t2}
  Threads = {w1, w2}
  Nobody = Nobody
  Faults <- AllFailures
SYMMETRY AccessSymmetry
INVARIANTS
  AccessTypeOK
  LiveTokensFollowAnswers
PROPERTIES
  AccountAnswersHold
CHECK_DEADLOCK TRUE
