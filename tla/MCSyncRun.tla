----------------------------- MODULE MCSyncRun -----------------------------
(* Instances of SyncRun for TLC. *)
EXTENDS SyncRun, TLC

CONSTANTS r1, r2, w1

TwoRuns == {r1, r2}
OneWorker == {w1}
AllFaults == Failures
\* Only for runs without liveness properties.
Sym == Permutations(TwoRuns)
LivenessFaults == {"kill", "crash", "redis"}
=============================================================================
