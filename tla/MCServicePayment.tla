-------------------------- MODULE MCServicePayment --------------------------
(* Values of ServicePayment's constants for TLC. *)
EXTENDS ServicePayment, TLC

CONSTANTS u1, u2, w1, w2, w3, p1, p2, p3, k1, k2

(* Each wallet can pay once for an amount of 2. *)
MCOpening == [u \in Users |-> 3]

RequestSymmetry == Permutations(Threads) \cup Permutations(Payments)
                     \cup Permutations(Users) \cup Permutations(Keys)
=============================================================================
