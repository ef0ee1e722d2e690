------------------------------ MODULE Registry ------------------------------
(***************************************************************************)
(* What the accounts promise to whoever audits the money, without saying   *)
(* how: an account is opened once, is closed for ever and only while no    *)
(* record names it, and a record names open accounts and is never removed  *)
(* (UserService.has_financial_history: 'These records form the audit trail *)
(* and must never be destroyed').                                          *)
(***************************************************************************)
CONSTANTS Users, Records, Kinds

VARIABLES open,   \* accounts that exist
          closed, \* accounts that existed
          book    \* records of money moved or asked for

registryVars == <<open, closed, book>>

Init == open = {} /\ closed = {} /\ book = {}

Open(u) == /\ u \notin open \cup closed
           /\ open' = open \cup {u}
           /\ UNCHANGED <<closed, book>>

Record(r) == /\ \A b \in book : b.id # r.id
             /\ r.parties \subseteq open
             /\ book' = book \cup {r}
             /\ UNCHANGED <<open, closed>>

Close(u) == /\ u \in open
            /\ \A b \in book : u \notin b.parties
            /\ open' = open \ {u}
            /\ closed' = closed \cup {u}
            /\ UNCHANGED book

Entries == [id : Records, kind : Kinds, parties : (SUBSET Users) \ {{}}]

Next == \/ \E u \in Users : Open(u) \/ Close(u)
        \/ \E r \in Entries : Record(r)

Spec == Init /\ [][Next]_registryVars
=============================================================================
