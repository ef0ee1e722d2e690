----------------------------- MODULE MCAccounts -----------------------------
(* Values of Accounts' constants for TLC. *)
EXTENDS Accounts, TLC

CONSTANTS u1, u2, w1, w2, i1, i2, e1, E1, f1

(* An address, and the same address with a capital letter. *)
MCLower == [e \in Emails |-> e1]

AccountSymmetry == Permutations(Users) \cup Permutations(Threads)
                     \cup Permutations(Records)
=============================================================================
