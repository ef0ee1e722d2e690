--------------------------- MODULE MCDarajaClient ---------------------------
(* Values of DarajaClient's constants for TLC. *)
EXTENDS DarajaClient, TLC

CONSTANTS w1, w2

ThreadSymmetry == Permutations(Threads)
=============================================================================
