-------------------------- MODULE MCOwnerPassword --------------------------
(* Two releases, two passwords and two threads, with every failure.        *)
EXTENDS OwnerPassword, TLC

\* Both in one process, which share its cache; one that is not shared would only
\* know less.
OneWorker == [w \in Threads |-> "worker"]

AllFailures == VolumeFailures
OwnerSymmetry == Permutations(Threads) \cup Permutations(Passwords) \cup Permutations(Secrets)
=============================================================================
