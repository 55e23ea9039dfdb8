---------------------------- MODULE MCToolStore ----------------------------
(* Instances of ToolStore for TLC. *)
EXTENDS ToolStore

CONSTANTS t1, t2, t3, t4, w1, w2

FourReleases == {t1, t2, t3, t4}
TwoWorkers == {w1, w2}
RunFaults == {"sync", "replace", "install"}
RollbackFaults == {"rollback"}
=============================================================================
