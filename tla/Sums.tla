-------------------------------- MODULE Sums --------------------------------
(***************************************************************************)
(* Sums over finite sets, for what wallets hold and what records are worth. *)
(***************************************************************************)
EXTENDS FiniteSetsExt

(* The sum of f[x] for the x of S. *)
SumOf(f, S) == MapThenSumSet(LAMBDA x : f[x], S)

(* The sum of the amounts of the records of R. *)
Worth(R) == SumOf([r \in R |-> r.amount], R)
=============================================================================
