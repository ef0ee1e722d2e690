------------------------------ MODULE MCDeposit ------------------------------
(* Values of Deposit's constants for TLC. *)
EXTENDS Deposit, TLC

CONSTANTS d1, d2, u1, h1, h2, r1, r2

(* Every deposit is for the one wallet; the first is for 1, the next for 2.  *)
MCOwner  == [d \in Deposits |-> u1]
MCAmount == [d \in Deposits |-> IF d = d1 THEN 1 ELSE 2]

(* All callback threads belong to one process. *)
OneProcess == [h \in Handlers |-> 1]

=============================================================================
