--------------------------- MODULE DepositContract ---------------------------
(***************************************************************************)
(* What an M-Pesa deposit promises, without saying how: every deposit is   *)
(* open until it is settled once, it is credited only when the customer    *)
(* has paid and failed only when the customer has cancelled, and a credit  *)
(* moves exactly the requested amount into exactly one wallet, together    *)
(* with the outcome.                                                       *)
(***************************************************************************)
EXTENDS Naturals

CONSTANTS Deposits, \* deposit requests
          Wallets,  \* customer wallets
          Owner,    \* the wallet a deposit is for
          Amount    \* the amount requested, in cents

VARIABLES payment,  \* what the customer did at M-Pesa
          outcome,  \* what the deposit row says, as its owner sees it
          money     \* what each wallet holds

contractVars == <<payment, outcome, money>>

Outcomes == {"open", "credited", "failed", "held", "rejected"}

Init == /\ payment = [d \in Deposits |-> "none"]
        /\ outcome = [d \in Deposits |-> "open"]
        /\ money \in [Wallets -> Nat]

(* The customer's side: M-Pesa prompts, then the customer pays or does not. *)
Prompt(d) == /\ payment[d] = "none"
             /\ payment' = [payment EXCEPT ![d] = "undecided"]
             /\ UNCHANGED <<outcome, money>>

Decide(d) == /\ payment[d] = "undecided"
             /\ \E p \in {"paid", "cancelled"} :
                   payment' = [payment EXCEPT ![d] = p]
             /\ UNCHANGED <<outcome, money>>

(* The application's side. *)
Settle(d, o) == /\ outcome[d] = "open"
                /\ outcome' = [outcome EXCEPT ![d] = o]
                /\ UNCHANGED payment

Credit(d) == /\ payment[d] = "paid"
             /\ Settle(d, "credited")
             /\ money' = [money EXCEPT ![Owner[d]] = @ + Amount[d]]

Fail(d) == /\ payment[d] = "cancelled"
           /\ Settle(d, "failed")
           /\ UNCHANGED money

Hold(d) == Settle(d, "held") /\ UNCHANGED money

Reject(d) == Settle(d, "rejected") /\ UNCHANGED money

Next == \E d \in Deposits :
           Prompt(d) \/ Decide(d) \/ Credit(d) \/ Fail(d) \/ Hold(d) \/ Reject(d)

Spec == Init /\ [][Next]_contractVars

=============================================================================
