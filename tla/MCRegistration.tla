--------------------------- MODULE MCRegistration ---------------------------
(* Registration with one ID beside none, two workers and every failure. *)
EXTENDS Registration

CONSTANTS i1, w1, w2

OneId == {i1}
TwoWorkers == {w1, w2}
AllFailures == Failures
=============================================================================
