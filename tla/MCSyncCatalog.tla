--------------------------- MODULE MCSyncCatalog ---------------------------
(* Instances of SyncCatalog for TLC. *)
EXTENDS SyncCatalog, TLC

CONSTANTS r1, r2, w1

TwoRuns == {r1, r2}
Sym == Permutations(TwoRuns)
OneWorker == {w1}
NoWorkers == {}
StopFaults == {"crash", "redis"}
CatalogFaults == {"crash", "kill", "catalog", "count"}
=============================================================================
