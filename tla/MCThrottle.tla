----------------------------- MODULE MCThrottle -----------------------------
(* Values of Throttle's constants for TLC. *)
EXTENDS Throttle, TLC

CONSTANTS w1, w2, w3

CallerSymmetry == Permutations(Callers)
=============================================================================
