------------------------ MODULE MCDepotProtection ------------------------
(* DepotProtection on two trees, with every failure.                       *)
EXTENDS DepotProtection, TLC

TreeSymmetry == Permutations(Trees)
AllFailures == Failures
ConsoleStopsOnly == {"console"}
==========================================================================
