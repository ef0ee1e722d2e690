----------------------------- MODULE MCSweeper ------------------------------
(* Values of Sweeper's constants for TLC. *)
EXTENDS Sweeper

CONSTANTS p1, p2
=============================================================================
