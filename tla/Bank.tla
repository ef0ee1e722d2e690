-------------------------------- MODULE Bank --------------------------------
(***************************************************************************)
(* What moving money promises, without saying how: a movement takes one    *)
(* amount out of one wallet and puts the same amount into another in a     *)
(* single step, never below zero, and leaves one record under a code that  *)
(* no other movement has.  A movement without a payer is a deposit or a    *)
(* refund, one without a payee is a payment that leaves the system.        *)
(***************************************************************************)
EXTENDS Naturals

CONSTANTS Wallets, Opening, Codes, Amounts, None

VARIABLES money, \* what each wallet holds
          moved  \* the movements that happened

bankVars == <<money, moved>>

Init == money = Opening /\ moved = {}

Taken(c) == \E m \in moved : m.code = c

Paid(u, m)     == IF u = m.from THEN m.amount ELSE 0
Received(u, m) == IF u = m.to THEN m.amount ELSE 0

Move(m) ==
  /\ m.from # m.to
  /\ ~Taken(m.code)
  /\ \A u \in Wallets : Paid(u, m) <= money[u]
  /\ money' = [u \in Wallets |-> (money[u] - Paid(u, m)) + Received(u, m)]
  /\ moved' = moved \cup {m}

Movements == [code : Codes, from : Wallets \cup {None},
              to : Wallets \cup {None}, amount : Amounts]

Next == \E m \in Movements : Move(m)

Spec == Init /\ [][Next]_bankVars
=============================================================================
