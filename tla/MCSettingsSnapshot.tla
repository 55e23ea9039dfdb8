------------------------- MODULE MCSettingsSnapshot -------------------------
(* Instances of SettingsSnapshot for TLC. *)
EXTENDS SettingsSnapshot, TLC

CONSTANTS w1, w2, a, b

TwoWorkers == {w1, w2}
TwoValues == {a, b}
Sym == Permutations(TwoWorkers) \cup Permutations(TwoValues)
=============================================================================
