-------------------------------- MODULE Bills --------------------------------
(***************************************************************************)
(* What paying bills promises, without saying how: a bill is charged to    *)
(* its user's wallet once, in the same step in which it appears, under a   *)
(* reference and a key that no other bill has, and never for more than the *)
(* wallet holds.  A bill that the provider refuses is recorded and costs   *)
(* nothing.  A bill never disappears and never changes, except that a      *)
(* pending one may become completed, which moves no money.                 *)
(***************************************************************************)
EXTENDS Naturals

CONSTANTS Users, Opening, Payments, Keys, Amounts, None

VARIABLES money, \* what each wallet holds
          bills  \* the bills there are

billsVars == <<money, bills>>

Charged == {"Pending", "Completed"}

Possible == [id : Payments, user : Users, key : Keys \cup {None},
             amount : Amounts, status : Charged \cup {"Refunded"}]

Init == money = Opening /\ bills = {}

(* Neither the reference nor the key of b was used before. *)
IsNew(b) == \A c \in bills : c.id # b.id /\ (c.key = b.key => b.key = None)

Add(b) ==
  /\ IsNew(b)
  /\ b.amount <= money[b.user]
  /\ bills' = bills \cup {b}

Charge(b) ==
  /\ b.status \in Charged
  /\ Add(b)
  /\ money' = [money EXCEPT ![b.user] = @ - b.amount]

Decline(b) ==
  /\ b.status = "Refunded"
  /\ Add(b)
  /\ UNCHANGED money

Complete(b) ==
  /\ b.status = "Pending"
  /\ bills' = (bills \ {b}) \cup {[b EXCEPT !.status = "Completed"]}
  /\ UNCHANGED money

Next == \/ \E b \in Possible : Charge(b) \/ Decline(b)
        \/ \E b \in bills : Complete(b)

Spec == Init /\ [][Next]_billsVars
=============================================================================
