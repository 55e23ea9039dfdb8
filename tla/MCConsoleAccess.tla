--------------------------- MODULE MCConsoleAccess ---------------------------
(* ConsoleAccess with one person, two accounts, two tokens and two threads. *)
EXTENDS ConsoleAccess, TLC

AllFailures == Failures
AccessSymmetry == Permutations(Threads) \cup Permutations(Tokens) \cup Permutations(Accounts)
=============================================================================
