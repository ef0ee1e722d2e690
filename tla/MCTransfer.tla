----------------------------- MODULE MCTransfer -----------------------------
(* Values of Transfer's constants for TLC. *)
EXTENDS Transfer, TLC

CONSTANTS w1, w2, w3, c1, c2, c3

(* Accounts an administrator opened with one or two units. *)
MCOpening == [u \in Wallets |-> IF u = 1 THEN 2 ELSE 1]

ThreadSymmetry == Permutations(Threads) \cup Permutations(Codes)
=============================================================================
