------------------------ MODULE ServicePaymentProofs ------------------------
(***************************************************************************)
(* Proofs about ServicePayment, for any users, threads, references, keys   *)
(* and amounts: every state is well typed, a key has one payment, a        *)
(* payment being reconciled is paid, an answer is the asker's own, what a  *)
(* wallet has lost is what its payments cost, every step is a step of      *)
(* Bills, and requests cannot wait for each other in a ring.               *)
(***************************************************************************)
EXTENDS ServicePayment, SumTheorems

USE OpeningAssumption, AmountsAssumption, AccountsAssumption, NoneAssumption

(* What the end of a request changes and leaves alone. *)
LEMMA EndFacts ==
  ASSUME TypeOK, NEW w \in Threads, NEW a \in Payments \cup {"error"}, End(w, a)
  PROVE  /\ locked' \in [Users -> Threads \cup {None}]
         /\ pc' \in [Threads -> {"idle", "find", "lock", "insert", "settle",
                                 "read", "relock", "finalize"}]
         /\ req' \in [Threads -> Requests]
         /\ mine' \in [Threads -> Payments \cup {None}]
         /\ seen' \in [Threads -> Nat]
         /\ session' \in [Threads -> Statuses \cup {None}]
         /\ answer' \in [Threads -> Payments \cup {None, "error"}]
         /\ pc'[w] = "idle"
         /\ \A x \in Threads \ {w} :
               pc'[x] = pc[x] /\ req'[x] = req[x] /\ mine'[x] = mine[x]
         /\ answer'[w] = a
         /\ \A x \in Threads \ {w} : answer'[x] = answer[x]
<1>1. NoRequest \in Requests
  BY DEF NoRequest, Requests
<1>2. /\ locked' \in [Users -> Threads \cup {None}]
      /\ pc' \in [Threads -> {"idle", "find", "lock", "insert", "settle",
                              "read", "relock", "finalize"}]
  BY DEF TypeOK, End, Goto
<1>3. /\ req' \in [Threads -> Requests]
      /\ mine' \in [Threads -> Payments \cup {None}]
      /\ seen' \in [Threads -> Nat]
  BY <1>1 DEF TypeOK, End
<1>4. /\ session' \in [Threads -> Statuses \cup {None}]
      /\ answer' \in [Threads -> Payments \cup {None, "error"}]
  BY DEF TypeOK, End
<1>5. /\ pc'[w] = "idle"
      /\ \A x \in Threads \ {w} :
            pc'[x] = pc[x] /\ req'[x] = req[x] /\ mine'[x] = mine[x]
  BY DEF TypeOK, End, Goto
<1>6. /\ answer'[w] = a
      /\ \A x \in Threads \ {w} : answer'[x] = answer[x]
  BY DEF TypeOK, End
<1> QED
  BY <1>2, <1>3, <1>4, <1>5, <1>6

(* The invariant without TypeOK, as one name for the steps below. *)
Safe == RequestsMakeSense /\ ReferencesDiffer /\ OnePaymentPerKey

(* A request that ends without writing a table keeps the invariant. *)
LEMMA GiveUpSafe ==
  ASSUME TypeOK, Safe, NEW w \in Threads, NEW a \in Payments \cup {"error"},
         End(w, a), UNCHANGED tables
  PROVE  TypeOK' /\ Safe'
<1>1. rows' = rows /\ balance' = balance
  BY DEF tables
<1>2. TypeOK'
  BY <1>1, EndFacts DEF TypeOK
<1>3. /\ pc'[w] = "idle"
      /\ \A x \in Threads \ {w} :
            pc'[x] = pc[x] /\ req'[x] = req[x] /\ mine'[x] = mine[x]
  BY EndFacts
<1>4. RequestsMakeSense'
  BY <1>1, <1>3 DEF Safe, RequestsMakeSense
<1>5. ReferencesDiffer'
  BY <1>1 DEF Safe, ReferencesDiffer
<1>6. OnePaymentPerKey'
  BY <1>1, <1>3 DEF Safe, OnePaymentPerKey, KeyIsStored, KeyIsClaimed, Claims
<1> QED
  BY <1>2, <1>4, <1>5, <1>6 DEF Safe

(* A thread that moves on without settling, for the same request, keeps it.  *)
LEMMA MoveOnSafe ==
  ASSUME TypeOK, Safe, NEW w \in Threads,
         pc' \in [Threads -> {"idle", "find", "lock", "insert", "settle",
                              "read", "relock", "finalize"}],
         \A x \in Threads \ {w} : pc'[x] = pc[x],
         \/ pc[w] \in {"find", "lock"} /\ pc'[w] \in {"lock", "insert"}
         \/ pc[w] \in {"read", "relock"} /\ pc'[w] \in {"relock", "finalize"},
         UNCHANGED <<rows, req, mine>>
  PROVE  Safe'
<1>1. RequestsMakeSense'
  BY DEF Safe, RequestsMakeSense
<1>2. ReferencesDiffer'
  BY DEF Safe, ReferencesDiffer
<1>3. \A x \in Threads : pc'[x] = "settle" <=> pc[x] = "settle"
  OBVIOUS
<1>4. OnePaymentPerKey'
  BY <1>3 DEF Safe, OnePaymentPerKey, KeyIsStored, KeyIsClaimed, Claims
<1> QED
  BY <1>1, <1>2, <1>4 DEF Safe
-----------------------------------------------------------------------------
(* The flush of a fresh reference and a free key. *)
LEMMA InsertSafe ==
  ASSUME TypeOK, Safe, NEW w \in Threads, NEW p \in Payments, Insert(w, p)
  PROVE  TypeOK' /\ Safe'
<1>1. /\ pc[w] = "insert"
      /\ rows' = rows /\ req' = req
      /\ pc' = [pc EXCEPT ![w] = "settle"]
      /\ mine' = [mine EXCEPT ![w] = p]
      /\ ~KeyIsStored(req[w].key) /\ ~KeyIsClaimed(w, req[w].key)
  BY DEF Insert, Goto, tables
<1>2. TypeOK'
  BY DEF Insert, Goto, tables, TypeOK
<1>3. /\ pc'[w] = "settle" /\ mine'[w] = p
      /\ \A x \in Threads \ {w} : pc'[x] = pc[x] /\ mine'[x] = mine[x]
  BY <1>1 DEF TypeOK
<1>4. /\ \A r \in rows : r.id # p
      /\ \A x \in Threads : pc[x] = "settle" => mine[x] # p
  BY DEF Insert, IsFresh
<1>5. RequestsMakeSense'
  BY <1>1, <1>3, <1>4 DEF Safe, RequestsMakeSense
<1>6. ReferencesDiffer'
  BY <1>1 DEF Safe, ReferencesDiffer
<1>7. ASSUME NEW x \in Threads, pc'[x] = "settle"
      PROVE  ~KeyIsStored(req[x].key) /\ ~KeyIsClaimed(x, req[x].key)'
  <2>1. CASE x = w
    BY <1>1, <1>3, <2>1 DEF KeyIsClaimed, Claims
  <2>2. CASE x # w
    <3>1. pc[x] = "settle"
      BY <1>3, <1>7, <2>2
    <3>2. ~KeyIsStored(req[x].key) /\ ~KeyIsClaimed(x, req[x].key)
      BY <3>1 DEF Safe, OnePaymentPerKey
    <3>3. req[x].key # None => req[w].key # req[x].key
      BY <1>1, <2>2, <3>1 DEF KeyIsClaimed, Claims
    <3> QED
      BY <1>1, <1>3, <3>2, <3>3 DEF KeyIsClaimed, Claims
  <2> QED
    BY <2>1, <2>2
<1>8. OnePaymentPerKey'
  BY <1>1, <1>7 DEF Safe, OnePaymentPerKey, KeyIsStored
<1> QED
  BY <1>2, <1>5, <1>6, <1>8 DEF Safe
-----------------------------------------------------------------------------
(* The commit of a payment: its row is new under its reference and its key.  *)
LEMMA SettleSafe ==
  ASSUME TypeOK, Safe, NEW w \in Threads, Settle(w)
  PROVE  TypeOK' /\ Safe'
<1> DEFINE r == req[w]
           n == [id |-> mine[w], user |-> r.user, key |-> r.key,
                 account |-> r.account, amount |-> r.amount,
                 status |-> OutcomeOf(r.account)]
<1>1. /\ pc[w] = "settle" /\ seen[w] >= r.amount
      /\ rows' = rows \cup {n}
      /\ balance' = [balance EXCEPT ![r.user] = LeftOf(seen[w], r)]
      /\ End(w, mine[w])
  BY DEF Settle, Affords
<1>2. /\ r.user \in Users /\ r.account \in Accounts /\ r.amount \in Amounts
      /\ mine[w] \in Payments
      /\ r.key \in Keys \cup {None}
      /\ seen[w] \in Nat
  BY <1>1 DEF Safe, RequestsMakeSense, TypeOK, Requests
<1>3. n \in Rows
  <2>1. OutcomeOf(r.account) \in Statuses
    BY <1>2 DEF OutcomeOf, Statuses
  <2> QED
    BY <1>2, <2>1 DEF Rows
<1>4. LeftOf(seen[w], r) \in Nat
  <2>1. seen[w] - r.amount \in Nat
    <3>1. r.amount \in Nat
      BY <1>2
    <3> HIDE DEF r
    <3> QED
      BY <1>1, <1>2, <3>1
  <2> HIDE DEF r
  <2> QED
    BY <1>2, <2>1 DEF LeftOf
<1>5. TypeOK'
  <2>1. rows' \in SUBSET Rows /\ balance' \in [Users -> Nat]
    BY <1>1, <1>2, <1>3, <1>4 DEF TypeOK
  <2> QED
    BY <1>1, <1>2, <2>1, EndFacts DEF TypeOK
<1>6. /\ pc'[w] = "idle"
      /\ \A x \in Threads \ {w} :
            pc'[x] = pc[x] /\ req'[x] = req[x] /\ mine'[x] = mine[x]
  BY <1>1, <1>2, EndFacts
<1>7. n.id = mine[w] /\ n.key = r.key
  OBVIOUS
<1>8. /\ \A t \in rows : t.id # mine[w]
      /\ \A x \in Threads \ {w} : pc[x] = "settle" => mine[x] # mine[w]
      /\ ~KeyIsStored(r.key) /\ ~KeyIsClaimed(w, r.key)
  BY <1>1 DEF Safe, RequestsMakeSense, OnePaymentPerKey
<1> HIDE DEF n, r
<1>9. RequestsMakeSense'
  BY <1>1, <1>6, <1>7, <1>8 DEF Safe, RequestsMakeSense
<1>10. ReferencesDiffer'
  BY <1>1, <1>7, <1>8 DEF Safe, ReferencesDiffer
<1>11. OnePaymentPerKey'
  <2>1. \A s, t \in rows' : s.key # None /\ s.key = t.key => s = t
    BY <1>1, <1>7, <1>8 DEF Safe, OnePaymentPerKey, KeyIsStored
  <2>2. ASSUME NEW x \in Threads, pc'[x] = "settle"
        PROVE  ~KeyIsStored(req[x].key)' /\ ~KeyIsClaimed(x, req[x].key)'
    <3>1. x # w /\ pc[x] = "settle" /\ req'[x] = req[x]
      BY <1>6, <2>2
    <3>2. ~KeyIsStored(req[x].key) /\ ~KeyIsClaimed(x, req[x].key)
      BY <3>1 DEF Safe, OnePaymentPerKey
    <3>3. req[x].key # None => req[x].key # r.key
      BY <1>8, <3>1 DEF KeyIsClaimed, Claims
    <3>4. ~KeyIsStored(req[x].key)'
      BY <1>1, <1>7, <3>1, <3>2, <3>3 DEF KeyIsStored
    <3>5. ~KeyIsClaimed(x, req[x].key)'
      BY <1>6, <3>1, <3>2 DEF KeyIsClaimed, Claims
    <3> QED
      BY <3>4, <3>5
  <2> QED
    BY <2>1, <2>2 DEF OnePaymentPerKey
<1> QED
  BY <1>5, <1>9, <1>10, <1>11 DEF Safe

(* A reconciled payment keeps its reference, its owner and its key. *)
LEMMA FinalizeSafe ==
  ASSUME TypeOK, Safe, NEW w \in Threads, Finalize(w)
  PROVE  TypeOK' /\ Safe'
<1>1. PICK r \in rows : /\ r.id = mine[w]
                        /\ rows' = (rows \ {r}) \cup {[r EXCEPT !.status = "Completed"]}
                        /\ End(w, r.id)
                        /\ balance' = balance
  BY DEF Finalize
<1> DEFINE n == [r EXCEPT !.status = "Completed"]
<1>2. /\ r \in Rows /\ n \in Rows
      /\ n.id = r.id /\ n.user = r.user /\ n.key = r.key
  BY <1>1 DEF TypeOK, Rows, Statuses
<1>3. rows' = (rows \ {r}) \cup {n}
  BY <1>1
<1> HIDE DEF n
<1>4. r.id \in Payments
  BY <1>2 DEF Rows
<1>5. TypeOK'
  <2>1. rows' \in SUBSET Rows /\ balance' \in [Users -> Nat]
    BY <1>1, <1>2, <1>3 DEF TypeOK
  <2> QED
    BY <1>1, <1>4, <2>1, EndFacts DEF TypeOK
<1>6. /\ pc'[w] = "idle"
      /\ \A x \in Threads \ {w} :
            pc'[x] = pc[x] /\ req'[x] = req[x] /\ mine'[x] = mine[x]
  BY <1>1, <1>4, EndFacts
<1>7. /\ \A t \in rows' : \E s \in rows : t.id = s.id /\ t.user = s.user /\ t.key = s.key
      /\ \A s \in rows : \E t \in rows' : t.id = s.id /\ t.user = s.user /\ t.key = s.key
  BY <1>1, <1>2, <1>3
<1>8. RequestsMakeSense'
  BY <1>6, <1>7 DEF Safe, RequestsMakeSense
<1>9. ReferencesDiffer'
  BY <1>1, <1>2, <1>3 DEF Safe, ReferencesDiffer
<1>10. OnePaymentPerKey'
  <2>1. \A s, t \in rows' : s.key # None /\ s.key = t.key => s = t
    BY <1>1, <1>2, <1>3 DEF Safe, OnePaymentPerKey
  <2>2. ASSUME NEW x \in Threads, pc'[x] = "settle"
        PROVE  ~KeyIsStored(req[x].key)' /\ ~KeyIsClaimed(x, req[x].key)'
    <3>1. x # w /\ pc[x] = "settle" /\ req'[x] = req[x]
      BY <1>6, <2>2
    <3>2. ~KeyIsStored(req[x].key) /\ ~KeyIsClaimed(x, req[x].key)
      BY <3>1 DEF Safe, OnePaymentPerKey
    <3>3. ~KeyIsStored(req[x].key)'
      BY <1>7, <3>1, <3>2 DEF KeyIsStored
    <3>4. ~KeyIsClaimed(x, req[x].key)'
      BY <1>6, <3>1, <3>2 DEF KeyIsClaimed, Claims
    <3> QED
      BY <3>3, <3>4
  <2> QED
    BY <2>1, <2>2 DEF OnePaymentPerKey
<1> QED
  BY <1>5, <1>8, <1>9, <1>10 DEF Safe
-----------------------------------------------------------------------------
LEMMA InitHolds == Init => IInv
<1> SUFFICES ASSUME Init PROVE IInv
  OBVIOUS
<1>1. NoRequest \in Requests
  BY DEF NoRequest, Requests
<1>2. TypeOK
  BY <1>1 DEF Init, TypeOK
<1>3. RequestsMakeSense /\ ReferencesDiffer /\ OnePaymentPerKey
  BY DEF Init, RequestsMakeSense, ReferencesDiffer, OnePaymentPerKey
<1> QED
  BY <1>2, <1>3 DEF IInv

(* Every step keeps the invariant. *)
LEMMA Invariance == IInv /\ [Next]_vars => IInv'
<1> SUFFICES ASSUME TypeOK, Safe, [Next]_vars PROVE TypeOK' /\ Safe'
  BY DEF IInv, Safe
<1>1. ASSUME NEW w \in Threads, NEW u \in Users, NEW k \in Keys \cup {None},
             NEW s \in Accounts, NEW a \in Amounts, Pay(w, u, k, s, a)
      PROVE  TypeOK' /\ Safe'
  <2> DEFINE q == [user |-> u, key |-> k, account |-> s, amount |-> a]
  <2>1. /\ pc[w] = "idle" /\ rows' = rows /\ mine' = mine
        /\ req' = [req EXCEPT ![w] = q] /\ pc' = [pc EXCEPT ![w] = "find"]
    BY <1>1 DEF Pay, Goto, tables
  <2>2. q \in Requests /\ q.user = u /\ q.account = s /\ q.amount = a
    BY DEF Requests
  <2> HIDE DEF q
  <2>3. TypeOK'
    BY <1>1, <2>1, <2>2 DEF Pay, tables, TypeOK
  <2>4. /\ pc'[w] = "find" /\ req'[w] = q
        /\ \A x \in Threads \ {w} : pc'[x] = pc[x] /\ req'[x] = req[x]
    BY <2>1 DEF TypeOK
  <2>5. RequestsMakeSense'
    BY <2>1, <2>2, <2>4 DEF Safe, RequestsMakeSense
  <2>6. ReferencesDiffer' /\ OnePaymentPerKey'
    BY <2>1, <2>4 DEF Safe, ReferencesDiffer, OnePaymentPerKey, KeyIsStored, KeyIsClaimed, Claims
  <2> QED
    BY <2>3, <2>5, <2>6 DEF Safe
<1>2. ASSUME NEW w \in Threads, NEW r \in rows, Reconcile(w, r)
      PROVE  TypeOK' /\ Safe'
  <2> DEFINE q == [user |-> r.user, key |-> r.key, account |-> r.account,
                   amount |-> r.amount]
  <2>1. /\ pc[w] = "idle" /\ rows' = rows
        /\ req' = [req EXCEPT ![w] = q] /\ pc' = [pc EXCEPT ![w] = "read"]
        /\ mine' = [mine EXCEPT ![w] = r.id]
    BY <1>2 DEF Reconcile, Goto, tables
  <2>2. /\ r \in Rows /\ r.user \in Users /\ r.account \in Accounts
        /\ r.amount \in Amounts /\ r.id \in Payments
    BY DEF TypeOK, Rows
  <2>3. /\ q \in Requests /\ q.user = r.user /\ q.key = r.key
        /\ q.account = r.account /\ q.amount = r.amount
    BY <2>2 DEF Requests, Rows
  <2> HIDE DEF q
  <2>4. TypeOK'
    BY <1>2, <2>1, <2>2, <2>3 DEF Reconcile, tables, TypeOK
  <2>5. /\ pc'[w] = "read" /\ req'[w] = q /\ mine'[w] = r.id
        /\ \A x \in Threads \ {w} :
              pc'[x] = pc[x] /\ req'[x] = req[x] /\ mine'[x] = mine[x]
    BY <2>1 DEF TypeOK
  <2>6. RequestsMakeSense'
    BY <2>1, <2>2, <2>3, <2>5 DEF Safe, RequestsMakeSense
  <2>7. ReferencesDiffer' /\ OnePaymentPerKey'
    BY <2>1, <2>5 DEF Safe, ReferencesDiffer, OnePaymentPerKey, KeyIsStored, KeyIsClaimed, Claims
  <2> QED
    BY <2>4, <2>6, <2>7 DEF Safe
<1>3. ASSUME NEW w \in Threads, FindRepeat(w) PROVE TypeOK' /\ Safe'
  <2>1. CASE OwnPayment(req[w].user, req[w].key) = {}
    <3>1. /\ pc[w] = "find" /\ pc' = [pc EXCEPT ![w] = "lock"]
          /\ UNCHANGED <<rows, balance, locked, req, mine, seen, session, answer>>
      BY <1>3, <2>1 DEF FindRepeat, Goto, tables
    <3>2. TypeOK'
      BY <3>1 DEF TypeOK
    <3> QED
      BY <3>1, <3>2, MoveOnSafe DEF TypeOK
  <2>2. CASE OwnPayment(req[w].user, req[w].key) # {}
    <3>1. PICK r \in OwnPayment(req[w].user, req[w].key) : End(w, r.id)
      BY <1>3, <2>2 DEF FindRepeat
    <3>2. r.id \in Payments /\ UNCHANGED tables
      BY <1>3 DEF FindRepeat, OwnPayment, TypeOK, Rows
    <3> QED
      BY <3>1, <3>2, GiveUpSafe
  <2> QED
    BY <2>1, <2>2
<1>4. ASSUME NEW w \in Threads, LockForPayment(w) PROVE TypeOK' /\ Safe'
  <2>1. /\ pc[w] = "lock" /\ pc' = [pc EXCEPT ![w] = "insert"]
        /\ locked' = [locked EXCEPT ![req[w].user] = w]
        /\ seen' = [seen EXCEPT ![w] = balance[req[w].user]]
        /\ UNCHANGED <<rows, balance, req, mine, session, answer>>
    BY <1>4 DEF LockForPayment, Lock, Goto, tables
  <2>2. req[w].user \in Users
    BY <2>1 DEF Safe, RequestsMakeSense
  <2>3. TypeOK'
    BY <2>1, <2>2 DEF TypeOK
  <2> QED
    BY <2>1, <2>3, MoveOnSafe DEF TypeOK
<1>5. ASSUME NEW w \in Threads, LockForReconcile(w) PROVE TypeOK' /\ Safe'
  <2>1. /\ pc[w] = "relock" /\ pc' = [pc EXCEPT ![w] = "finalize"]
        /\ locked' = [locked EXCEPT ![req[w].user] = w]
        /\ seen' = [seen EXCEPT ![w] = balance[req[w].user]]
        /\ UNCHANGED <<rows, balance, req, mine, session, answer>>
    BY <1>5 DEF LockForReconcile, Lock, Goto, tables
  <2>2. req[w].user \in Users
    BY <2>1 DEF Safe, RequestsMakeSense
  <2>3. TypeOK'
    BY <2>1, <2>2 DEF TypeOK
  <2> QED
    BY <2>1, <2>3, MoveOnSafe DEF TypeOK
<1>6. ASSUME NEW w \in Threads, NEW p \in Payments, Insert(w, p) PROVE TypeOK' /\ Safe'
  BY <1>6, InsertSafe
<1>7. ASSUME NEW w \in Threads, DuplicateKey(w) \/ ReferenceCollides(w) \/ Refuse(w) \/ Abort(w)
      PROVE  TypeOK' /\ Safe'
  BY <1>7, GiveUpSafe DEF DuplicateKey, ReferenceCollides, Refuse, Abort
<1>8. ASSUME NEW w \in Threads, Settle(w) PROVE TypeOK' /\ Safe'
  BY <1>8, SettleSafe
<1>9. ASSUME NEW w \in Threads, ReadPayment(w) PROVE TypeOK' /\ Safe'
  <2>1. PICK r \in rows :
          /\ pc[w] = "read" /\ r.id = mine[w]
          /\ IF r.status \in Terminal
               THEN End(w, r.id)
               ELSE /\ session' = [session EXCEPT ![w] = r.status]
                    /\ Goto(w, "relock")
                    /\ UNCHANGED <<locked, req, mine, seen, answer>>
          /\ UNCHANGED tables
    BY <1>9 DEF ReadPayment
  <2>2. r.id \in Payments /\ r.status \in Statuses
    BY <2>1 DEF TypeOK, Rows
  <2>3. CASE r.status \in Terminal
    BY <2>1, <2>2, <2>3, GiveUpSafe
  <2>4. CASE r.status \notin Terminal
    <3>1. /\ pc' = [pc EXCEPT ![w] = "relock"]
          /\ session' = [session EXCEPT ![w] = r.status]
          /\ UNCHANGED <<rows, balance, locked, req, mine, seen, answer>>
      BY <2>1, <2>4 DEF Goto, tables
    <3>2. TypeOK'
      BY <2>2, <3>1 DEF TypeOK
    <3> QED
      BY <2>1, <3>1, <3>2, MoveOnSafe DEF TypeOK
  <2> QED
    BY <2>3, <2>4
<1>10. ASSUME NEW w \in Threads, Finalize(w) PROVE TypeOK' /\ Safe'
  BY <1>10, FinalizeSafe
<1>11. CASE UNCHANGED vars
  <2>1. UNCHANGED <<rows, balance, locked, pc, req, mine, seen, session, answer>>
    BY <1>11 DEF vars, tables
  <2>2. TypeOK'
    BY <2>1 DEF TypeOK
  <2>3. RequestsMakeSense' /\ ReferencesDiffer'
    BY <2>1 DEF Safe, RequestsMakeSense, ReferencesDiffer
  <2>4. OnePaymentPerKey'
    BY <2>1 DEF Safe, OnePaymentPerKey, KeyIsStored, KeyIsClaimed, Claims
  <2> QED
    BY <2>2, <2>3, <2>4 DEF Safe
<1> QED
  BY <1>1, <1>2, <1>3, <1>4, <1>5, <1>6, <1>7, <1>8, <1>9, <1>10, <1>11
     DEF Next, Request, Work

LEMMA Inductive == Spec => []IInv
<1>1. Init => IInv
  BY InitHolds
<1>2. IInv /\ [Next]_vars => IInv'
  BY Invariance
<1> QED
  BY <1>1, <1>2, PTL DEF Spec
-----------------------------------------------------------------------------
(* Every reachable state is well typed; no payment overdraws a wallet        *)
(* (WalletService.debit).                                                    *)
THEOREM TypeCorrect == Spec => []TypeOK
<1>1. IInv => TypeOK
  BY DEF IInv
<1> QED
  BY <1>1, Inductive, PTL

(* However many threads repeat a request, one key has one payment            *)
(* (ServicePayment.idempotency_key).                                         *)
THEOREM KeyPaidOnce == Spec => []OnePaymentPerKey
<1>1. IInv => OnePaymentPerKey
  BY DEF IInv
<1> QED
  BY <1>1, Inductive, PTL

(* A request is never answered with a payment of another user or another key *)
(* (ServicePaymentService.initiate_payment and reconcile_payment).           *)
THEOREM AnswersAreOwn == Spec => AnswerIsOwn
<1> DEFINE Own == \A w \in Threads : answer'[w] # answer[w] =>
                    \A r \in rows' : r.id = answer'[w] =>
                      r.user = req[w].user /\ r.key = req[w].key
<1>1. IInv /\ [Next]_vars => [Own]_vars
  <2> SUFFICES ASSUME TypeOK, Safe, Next PROVE Own
    BY DEF IInv, Safe
  <2>1. ASSUME NEW w \in Threads, End(w, "error"), UNCHANGED tables PROVE Own
    <3>1. answer'[w] = "error" /\ \A x \in Threads \ {w} : answer'[x] = answer[x]
      BY <2>1, EndFacts
    <3>2. \A r \in rows' : r.id \in Payments
      BY <2>1 DEF tables, TypeOK, Rows
    <3> QED
      BY <3>1, <3>2, ErrorAssumption
  <2>2. ASSUME NEW w \in Threads, NEW p \in Payments, End(w, p),
               \A r \in rows' : r.id = p => r.user = req[w].user /\ r.key = req[w].key
        PROVE  Own
    <3>1. answer'[w] = p /\ \A x \in Threads \ {w} : answer'[x] = answer[x]
      BY <2>2, EndFacts
    <3> QED
      BY <2>2, <3>1
  <2>3. ASSUME answer' = answer PROVE Own
    BY <2>3
  <2> HIDE DEF Own
  <2>4. ASSUME NEW w \in Threads, FindRepeat(w) PROVE Own
    <3>1. CASE OwnPayment(req[w].user, req[w].key) = {}
      BY <2>3, <2>4, <3>1 DEF FindRepeat
    <3>2. CASE OwnPayment(req[w].user, req[w].key) # {}
      <4>1. PICK s \in OwnPayment(req[w].user, req[w].key) : End(w, s.id)
        BY <2>4, <3>2 DEF FindRepeat
      <4>2. /\ s \in rows /\ s.user = req[w].user /\ s.key = req[w].key
            /\ s.id \in Payments /\ rows' = rows
        BY <2>4 DEF FindRepeat, OwnPayment, TypeOK, Rows, tables
      <4>3. \A r \in rows' : r.id = s.id => r = s
        BY <4>2 DEF Safe, ReferencesDiffer
      <4> QED
        BY <2>2, <4>1, <4>2, <4>3
    <3> QED
      BY <3>1, <3>2
  <2>5. ASSUME NEW w \in Threads, Settle(w) PROVE Own
    <3> DEFINE n == [id |-> mine[w], user |-> req[w].user, key |-> req[w].key,
                     account |-> req[w].account, amount |-> req[w].amount,
                     status |-> OutcomeOf(req[w].account)]
    <3>1. pc[w] = "settle" /\ rows' = rows \cup {n} /\ End(w, mine[w])
      BY <2>5 DEF Settle
    <3>2. mine[w] \in Payments /\ \A r \in rows : r.id # mine[w]
      BY <3>1 DEF Safe, RequestsMakeSense
    <3>3. n.user = req[w].user /\ n.key = req[w].key
      OBVIOUS
    <3> HIDE DEF n
    <3> QED
      BY <2>2, <3>1, <3>2, <3>3
  <2>6. ASSUME NEW w \in Threads, ReadPayment(w) PROVE Own
    <3>1. PICK s \in rows :
            /\ pc[w] = "read" /\ s.id = mine[w]
            /\ End(w, s.id) \/ answer' = answer
            /\ rows' = rows
      BY <2>6 DEF ReadPayment, tables
    <3>2. s.user = req[w].user /\ s.key = req[w].key /\ s.id \in Payments
      BY <3>1 DEF Safe, RequestsMakeSense, ReferencesDiffer, TypeOK, Rows
    <3>3. \A r \in rows' : r.id = s.id => r = s
      BY <3>1 DEF Safe, ReferencesDiffer
    <3> QED
      BY <2>2, <2>3, <3>1, <3>2, <3>3
  <2>7. ASSUME NEW w \in Threads, Finalize(w) PROVE Own
    <3>1. PICK s \in rows :
            /\ pc[w] = "finalize" /\ s.id = mine[w]
            /\ rows' = (rows \ {s}) \cup {[s EXCEPT !.status = "Completed"]}
            /\ End(w, s.id)
      BY <2>7 DEF Finalize
    <3> DEFINE n == [s EXCEPT !.status = "Completed"]
    <3>2. /\ s.user = req[w].user /\ s.key = req[w].key /\ s.id \in Payments
          /\ s \in Rows
      BY <3>1 DEF Safe, RequestsMakeSense, ReferencesDiffer, TypeOK, Rows
    <3>3. n.user = s.user /\ n.key = s.key
      BY <3>2 DEF Rows
    <3>4. \A r \in rows' : r.id = s.id => r = n
      BY <3>1 DEF Safe, ReferencesDiffer
    <3> HIDE DEF n
    <3> QED
      BY <2>2, <3>1, <3>2, <3>3, <3>4
  <2>8. ASSUME NEW w \in Threads,
               DuplicateKey(w) \/ ReferenceCollides(w) \/ Refuse(w) \/ Abort(w)
        PROVE  Own
    BY <2>1, <2>8 DEF DuplicateKey, ReferenceCollides, Refuse, Abort
  <2>9. ASSUME NEW w \in Threads,
               \/ Request(w) \/ LockForPayment(w) \/ LockForReconcile(w)
               \/ \E p \in Payments : Insert(w, p)
        PROVE  Own
    BY <2>3, <2>9 DEF Request, Pay, Reconcile, LockForPayment, LockForReconcile, Insert
  <2> QED
    BY <2>4, <2>5, <2>6, <2>7, <2>8, <2>9 DEF Next, Work
<1> QED
  BY <1>1, Inductive, PTL DEF Spec, AnswerIsOwn
-----------------------------------------------------------------------------
(* What a reconciliation finds. *)

(* A thread that goes on, or gives up, without touching a payment keeps it.  *)
LEMMA SameRowsSameStatus ==
  ASSUME ReconciledIsPaid, rows' = rows,
         \A x \in Threads : pc'[x] \in {"relock", "finalize"} =>
            /\ mine'[x] = mine[x]
            /\ \/ pc[x] \in {"relock", "finalize"}
               \/ \A r \in rows : r.id = mine[x] => r.status = "Pending"
  PROVE  ReconciledIsPaid'
BY DEF ReconciledIsPaid

(* Nobody refunds a payment that a thread has found Pending: a new payment   *)
(* has a new reference, and to settle one is to complete it.                 *)
LEMMA ReconciledStep ==
  ASSUME IInv, ReconciledIsPaid, [Next]_vars
  PROVE  ReconciledIsPaid'
<1> USE DEF IInv
<1>1. CASE UNCHANGED vars
  BY <1>1, SameRowsSameStatus DEF vars, tables
<1>2. ASSUME NEW w \in Threads, NEW a \in Payments \cup {"error"}, End(w, a), UNCHANGED tables
      PROVE  ReconciledIsPaid'
  BY <1>2, EndFacts, SameRowsSameStatus DEF tables
<1>3. ASSUME NEW w \in Threads, Request(w) PROVE ReconciledIsPaid'
  <2>1. /\ rows' = rows
        /\ \E l \in {"find", "read"} : pc' = [pc EXCEPT ![w] = l]
        /\ \A x \in Threads \ {w} : mine'[x] = mine[x]
    BY <1>3 DEF Request, Pay, Reconcile, Goto, tables, TypeOK
  <2> QED
    BY <2>1, SameRowsSameStatus DEF TypeOK
<1>4. ASSUME NEW w \in Threads, LockForPayment(w) \/ LockForReconcile(w)
      PROVE  ReconciledIsPaid'
  <2>1. /\ rows' = rows /\ mine' = mine
        /\ \/ pc' = [pc EXCEPT ![w] = "insert"]
           \/ pc[w] = "relock" /\ pc' = [pc EXCEPT ![w] = "finalize"]
    BY <1>4 DEF LockForPayment, LockForReconcile, Goto, tables
  <2> QED
    BY <2>1, SameRowsSameStatus DEF TypeOK
<1>5. ASSUME NEW w \in Threads, NEW p \in Payments, Insert(w, p) PROVE ReconciledIsPaid'
  <2>1. /\ rows' = rows /\ mine' = [mine EXCEPT ![w] = p]
        /\ pc' = [pc EXCEPT ![w] = "settle"]
    BY <1>5 DEF Insert, Goto, tables
  <2> QED
    BY <2>1, SameRowsSameStatus DEF TypeOK
<1>6. ASSUME NEW w \in Threads,
             DuplicateKey(w) \/ ReferenceCollides(w) \/ Refuse(w) \/ Abort(w)
      PROVE  ReconciledIsPaid'
  BY <1>2, <1>6 DEF DuplicateKey, ReferenceCollides, Refuse, Abort
<1>7. ASSUME NEW w \in Threads, FindRepeat(w) PROVE ReconciledIsPaid'
  <2>1. CASE OwnPayment(req[w].user, req[w].key) = {}
    <3>1. rows' = rows /\ mine' = mine /\ pc' = [pc EXCEPT ![w] = "lock"]
      BY <1>7, <2>1 DEF FindRepeat, Goto, tables
    <3> QED
      BY <3>1, SameRowsSameStatus DEF TypeOK
  <2>2. CASE OwnPayment(req[w].user, req[w].key) # {}
    <3>1. PICK r \in OwnPayment(req[w].user, req[w].key) : End(w, r.id)
      BY <1>7, <2>2 DEF FindRepeat
    <3>2. r.id \in Payments
      BY DEF OwnPayment, TypeOK, Rows
    <3> QED
      BY <1>2, <1>7, <3>1, <3>2 DEF FindRepeat
  <2> QED
    BY <2>1, <2>2
<1>8. ASSUME NEW w \in Threads, ReadPayment(w) PROVE ReconciledIsPaid'
  <2>1. PICK s \in rows :
          /\ pc[w] = "read" /\ s.id = mine[w]
          /\ \/ End(w, s.id)
             \/ /\ s.status \notin Terminal
                /\ Goto(w, "relock") /\ mine' = mine
          /\ UNCHANGED tables
    BY <1>8 DEF ReadPayment
  <2>2. s.id \in Payments /\ s.status \in Statuses
    BY DEF TypeOK, Rows
  <2>3. CASE End(w, s.id)
    BY <1>2, <2>1, <2>2, <2>3
  <2>4. CASE s.status \notin Terminal /\ Goto(w, "relock") /\ mine' = mine
    <3>1. \A r \in rows : r.id = mine[w] => r.status = "Pending"
      BY <2>1, <2>2, <2>4 DEF ReferencesDiffer, Statuses, Terminal
    <3>2. \A x \in Threads \ {w} : pc'[x] = pc[x]
      BY <2>4 DEF Goto, TypeOK
    <3> QED
      BY <2>1, <2>4, <3>1, <3>2, SameRowsSameStatus DEF tables
  <2> QED
    BY <2>1, <2>3, <2>4
<1>9. ASSUME NEW w \in Threads, Settle(w) PROVE ReconciledIsPaid'
  <2> DEFINE n == [id |-> mine[w], user |-> req[w].user, key |-> req[w].key,
                   account |-> req[w].account, amount |-> req[w].amount,
                   status |-> OutcomeOf(req[w].account)]
  <2>1. pc[w] = "settle" /\ rows' = rows \cup {n} /\ End(w, mine[w])
    BY <1>9 DEF Settle
  <2>2. /\ mine[w] \in Payments /\ n.id = mine[w]
        /\ \A r \in rows : r.id # mine[w]
    BY <2>1 DEF RequestsMakeSense
  <2> HIDE DEF n
  <2>3. pc'[w] = "idle" /\ \A x \in Threads \ {w} : pc'[x] = pc[x] /\ mine'[x] = mine[x]
    BY <2>1, <2>2, EndFacts
  <2> SUFFICES ASSUME NEW x \in Threads, NEW r \in rows',
                      pc'[x] \in {"relock", "finalize"}, r.id = mine'[x]
               PROVE  r.status \in {"Pending", "Completed"}
    BY DEF ReconciledIsPaid
  <2>4. x # w /\ pc[x] \in {"relock", "finalize"} /\ r.id = mine[x]
    BY <2>3
  <2>5. \E t \in rows : t.id = mine[x]
    BY <2>4 DEF RequestsMakeSense
  <2>6. r \in rows
    BY <2>1, <2>2, <2>4, <2>5
  <2> QED
    BY <2>4, <2>6 DEF ReconciledIsPaid
<1>10. ASSUME NEW w \in Threads, Finalize(w) PROVE ReconciledIsPaid'
  <2>1. PICK s \in rows :
          /\ s.id = mine[w] /\ pc[w] = "finalize"
          /\ rows' = (rows \ {s}) \cup {[s EXCEPT !.status = "Completed"]}
          /\ End(w, s.id)
    BY <1>10 DEF Finalize
  <2> DEFINE n == [s EXCEPT !.status = "Completed"]
  <2>2. s \in Rows /\ s.id \in Payments
    BY DEF TypeOK, Rows
  <2>3. n.status = "Completed"
    BY <2>2 DEF Rows
  <2> HIDE DEF n
  <2>4. pc'[w] = "idle" /\ \A x \in Threads \ {w} : pc'[x] = pc[x] /\ mine'[x] = mine[x]
    BY <2>1, <2>2, EndFacts
  <2>5. \A r \in rows' : r \in rows \/ r = n
    BY <2>1 DEF n
  <2> QED
    BY <2>3, <2>4, <2>5 DEF ReconciledIsPaid
<1> QED
  BY <1>1, <1>3, <1>4, <1>5, <1>6, <1>7, <1>8, <1>9, <1>10 DEF Next, Work

(* A payment under reconciliation is Pending or Completed, for any number of *)
(* requests (ServicePaymentService.reconcile_payment).                       *)
THEOREM ReconcilingPaysOnce == Spec => []ReconciledIsPaid
<1>1. Init => ReconciledIsPaid
  BY DEF Init, ReconciledIsPaid
<1> QED
  BY <1>1, ReconciledStep, Inductive, PTL DEF Spec
-----------------------------------------------------------------------------
(* What a wallet has paid for. *)

(* The end of a request frees the wallet of its own thread only.             *)
LEMMA EndFrees ==
  ASSUME TypeOK, NEW w \in Threads, NEW a \in Payments \cup {"error"}, End(w, a)
  PROVE  /\ pc'[w] = "idle"
         /\ \A x \in Threads \ {w} :
               /\ pc'[x] = pc[x] /\ req'[x] = req[x] /\ seen'[x] = seen[x]
               /\ \A u \in Users : locked[u] = x => locked'[u] = x
<1>1. \A x \in Threads \ {w} : seen'[x] = seen[x]
  BY DEF End, TypeOK
<1>2. \A x \in Threads \ {w}, u \in Users : locked[u] = x => locked'[u] = x
  BY DEF End
<1> QED
  BY <1>1, <1>2, EndFacts

(* A thread that goes on without locking or paying leaves every wallet held. *)
LEMMA WalletsStayHeld ==
  ASSUME TypeOK, RequestsMakeSense, WalletsHeld, balance' = balance,
         \A x \in Threads : pc'[x] \in Holding =>
            /\ pc[x] \in Holding /\ req'[x] = req[x] /\ seen'[x] = seen[x]
            /\ \A u \in Users : locked[u] = x => locked'[u] = x
  PROVE  WalletsHeld'
<1> SUFFICES ASSUME NEW x \in Threads, pc'[x] \in Holding
             PROVE  locked'[req'[x].user] = x /\ seen'[x] = balance'[req'[x].user]
  BY DEF WalletsHeld, Holding
<1>1. pc[x] \in Holding /\ req'[x] = req[x] /\ seen'[x] = seen[x]
  OBVIOUS
<1>2. req[x].user \in Users /\ locked[req[x].user] = x /\ seen[x] = balance[req[x].user]
  BY <1>1 DEF WalletsHeld, Holding, RequestsMakeSense
<1> QED
  BY <1>1, <1>2

(* A wallet is locked by whom it is granted to, and by nobody else.          *)
LEMMA LockHolds ==
  ASSUME TypeOK, RequestsMakeSense, WalletsHeld, NEW w \in Threads, pc[w] # "idle",
         Lock(w, req[w].user), NEW l, pc' = [pc EXCEPT ![w] = l],
         UNCHANGED <<balance, req>>
  PROVE  WalletsHeld'
<1> SUFFICES ASSUME NEW x \in Threads, pc'[x] \in Holding
             PROVE  locked'[req[x].user] = x /\ seen'[x] = balance[req[x].user]
  BY DEF WalletsHeld, Holding
<1>1. /\ req[w].user \in Users /\ locked[req[w].user] = None
      /\ locked' = [locked EXCEPT ![req[w].user] = w]
      /\ seen' = [seen EXCEPT ![w] = balance[req[w].user]]
  BY DEF Lock, WalletIsFree, RequestsMakeSense
<1>2. CASE x = w
  BY <1>1, <1>2 DEF TypeOK
<1>3. CASE x # w
  <2>1. pc[x] \in Holding
    BY <1>3 DEF TypeOK
  <2>2. req[x].user \in Users /\ locked[req[x].user] = x /\ seen[x] = balance[req[x].user]
    BY <2>1 DEF WalletsHeld, Holding, RequestsMakeSense
  <2>3. req[x].user # req[w].user
    BY <1>1, <2>2
  <2> QED
    BY <1>1, <1>3, <2>2, <2>3 DEF TypeOK
<1> QED
  BY <1>2, <1>3

(* Who pays is alone with the wallet it pays from.                           *)
LEMMA SettleHolds ==
  ASSUME TypeOK, RequestsMakeSense, WalletsHeld, NEW w \in Threads, Settle(w)
  PROVE  WalletsHeld'
<1>1. /\ pc[w] = "settle" /\ mine[w] \in Payments /\ End(w, mine[w])
      /\ \E b : balance' = [balance EXCEPT ![req[w].user] = b]
  BY DEF Settle, RequestsMakeSense
<1>2. locked[req[w].user] = w
  BY <1>1 DEF WalletsHeld, Holding
<1> SUFFICES ASSUME NEW x \in Threads, pc'[x] \in Holding
             PROVE  locked'[req'[x].user] = x /\ seen'[x] = balance'[req'[x].user]
  BY DEF WalletsHeld, Holding
<1>3. x # w
  BY <1>1, EndFrees DEF Holding
<1>4. /\ pc[x] \in Holding /\ req'[x] = req[x] /\ seen'[x] = seen[x]
      /\ \A u \in Users : locked[u] = x => locked'[u] = x
  BY <1>1, <1>3, EndFrees
<1>5. req[x].user \in Users /\ locked[req[x].user] = x /\ seen[x] = balance[req[x].user]
  BY <1>4 DEF WalletsHeld, Holding, RequestsMakeSense
<1>6. balance'[req[x].user] = balance[req[x].user]
  BY <1>1, <1>2, <1>3, <1>5 DEF TypeOK
<1> QED
  BY <1>4, <1>5, <1>6

(* No step takes a wallet, or the balance read from it, from its holder.     *)
LEMMA WalletsHeldStep ==
  ASSUME IInv, WalletsHeld, [Next]_vars
  PROVE  WalletsHeld'
<1> USE DEF IInv
<1>1. CASE UNCHANGED vars
  BY <1>1, WalletsStayHeld DEF vars, tables
<1>2. ASSUME NEW w \in Threads, NEW a \in Payments \cup {"error"}, End(w, a), UNCHANGED balance
      PROVE  WalletsHeld'
  BY <1>2, EndFrees, WalletsStayHeld DEF Holding
<1>3. ASSUME NEW w \in Threads, Request(w) PROVE WalletsHeld'
  <2>1. /\ UNCHANGED <<balance, locked, seen>>
        /\ \E l \in {"find", "read"} : pc' = [pc EXCEPT ![w] = l]
        /\ \A x \in Threads \ {w} : req'[x] = req[x]
    BY <1>3 DEF Request, Pay, Reconcile, Goto, tables, TypeOK
  <2> QED
    BY <2>1, WalletsStayHeld DEF TypeOK, Holding
<1>4. ASSUME NEW w \in Threads, LockForPayment(w) \/ LockForReconcile(w)
      PROVE  WalletsHeld'
  <2>1. /\ UNCHANGED <<balance, req>> /\ pc[w] # "idle" /\ Lock(w, req[w].user)
        /\ \/ pc' = [pc EXCEPT ![w] = "insert"]
           \/ pc' = [pc EXCEPT ![w] = "finalize"]
    BY <1>4 DEF LockForPayment, LockForReconcile, Goto, tables
  <2> QED
    BY <2>1, LockHolds
<1>5. ASSUME NEW w \in Threads, NEW p \in Payments, Insert(w, p) PROVE WalletsHeld'
  <2>1. /\ UNCHANGED <<balance, locked, req, seen>>
        /\ pc[w] = "insert" /\ pc' = [pc EXCEPT ![w] = "settle"]
    BY <1>5 DEF Insert, Goto, tables
  <2> QED
    BY <2>1, WalletsStayHeld DEF TypeOK, Holding
<1>6. ASSUME NEW w \in Threads,
             DuplicateKey(w) \/ ReferenceCollides(w) \/ Refuse(w) \/ Abort(w)
      PROVE  WalletsHeld'
  BY <1>2, <1>6 DEF DuplicateKey, ReferenceCollides, Refuse, Abort, tables
<1>7. ASSUME NEW w \in Threads, FindRepeat(w) \/ ReadPayment(w) PROVE WalletsHeld'
  <2>1. /\ balance' = balance
        /\ \/ \E r \in rows : End(w, r.id)
           \/ /\ \E l \in {"lock", "relock"} : pc' = [pc EXCEPT ![w] = l]
              /\ UNCHANGED <<locked, req, seen>>
    BY <1>7 DEF FindRepeat, ReadPayment, OwnPayment, Goto, tables
  <2>2. \A r \in rows : r.id \in Payments
    BY DEF TypeOK, Rows
  <2>3. CASE \E l \in {"lock", "relock"} :
               pc' = [pc EXCEPT ![w] = l] /\ UNCHANGED <<locked, req, seen>>
    BY <2>1, <2>3, WalletsStayHeld DEF TypeOK, Holding
  <2> QED
    BY <1>2, <2>1, <2>2, <2>3
<1>8. ASSUME NEW w \in Threads, Settle(w) PROVE WalletsHeld'
  BY <1>8, SettleHolds
<1>9. ASSUME NEW w \in Threads, Finalize(w) PROVE WalletsHeld'
  <2>1. PICK r \in rows : End(w, r.id)
    BY <1>9 DEF Finalize
  <2>2. r.id \in Payments /\ balance' = balance
    BY <1>9 DEF Finalize, TypeOK, Rows
  <2> QED
    BY <1>2, <2>1, <2>2
<1> QED
  BY <1>1, <1>3, <1>4, <1>5, <1>6, <1>7, <1>8, <1>9 DEF Next, Work

(* SpendingIsExplained with what it needs to be inductive.                   *)
Explained == WalletsHeld /\ ReconciledIsPaid /\ IsFiniteSet(rows) /\ SpendingIsExplained

(* What was paid is worth an integer.                                        *)
LEMMA PaidFacts ==
  ASSUME TypeOK, IsFiniteSet(rows), NEW u \in Users
  PROVE  /\ IsFiniteSet(Paid(u)) /\ Paid(u) \subseteq rows
         /\ \A r \in rows : r.amount \in Int
         /\ Worth(Paid(u)) \in Int
<1>1. Paid(u) \subseteq rows
  BY DEF Paid
<1>2. IsFiniteSet(Paid(u))
  BY <1>1, FS_Subset
<1>3. \A r \in rows : r.amount \in Int
  <2>1. \A r \in rows : r.amount \in Amounts
    BY DEF TypeOK, Rows
  <2>2. \A a \in Amounts : a \in Int
    OBVIOUS
  <2> QED
    BY <2>1, <2>2
<1>4. \A r \in Paid(u) : r.amount \in Int
  BY <1>1, <1>3
<1> QED
  BY <1>1, <1>2, <1>3, <1>4, WorthIsInteger

(* A payment is taken from the balance that was read under the lock, unless  *)
(* the provider refuses it: then it is refunded before anybody sees it.      *)
LEMMA SettleExplains ==
  ASSUME IInv, Explained, NEW w \in Threads, Settle(w)
  PROVE  IsFiniteSet(rows)' /\ SpendingIsExplained'
<1> DEFINE q == req[w]
           n == [id |-> mine[w], user |-> q.user, key |-> q.key,
                 account |-> q.account, amount |-> q.amount,
                 status |-> OutcomeOf(q.account)]
<1>1. /\ pc[w] = "settle" /\ rows' = rows \cup {n}
      /\ balance' = [balance EXCEPT ![q.user] = LeftOf(seen[w], q)]
  BY DEF Settle
<1>2. /\ q.user \in Users /\ q.account \in Accounts /\ q.amount \in Int
      /\ \A r \in rows : r.id # mine[w]
  <2>1. /\ q.user \in Users /\ q.account \in Accounts /\ q.amount \in Amounts
        /\ \A r \in rows : r.id # mine[w]
    BY <1>1 DEF IInv, RequestsMakeSense
  <2>2. \A a \in Amounts : a \in Int
    OBVIOUS
  <2> QED
    BY <2>1, <2>2
<1>3. seen[w] = balance[q.user]
  BY <1>1 DEF Explained, WalletsHeld, Holding
<1>4. /\ n.user = q.user /\ n.amount = q.amount /\ n \notin rows
      /\ n.status = OutcomeOf(q.account)
  BY <1>2
<1>5. IsFiniteSet(rows) /\ TypeOK
  BY DEF Explained, IInv
<1> HIDE DEF q, n
<1>6. IsFiniteSet(rows')
  BY <1>1, <1>5, FS_AddElement
<1> SUFFICES ASSUME NEW u \in Users PROVE balance'[u] + Worth(Paid(u)') = Opening[u]
  BY <1>6 DEF SpendingIsExplained
<1>7. balance[u] + Worth(Paid(u)) = Opening[u]
  BY DEF Explained, SpendingIsExplained
<1>8. /\ balance[u] \in Int /\ Opening[u] \in Int
      /\ balance'[u] = IF u = q.user THEN LeftOf(balance[u], q) ELSE balance[u]
  BY <1>1, <1>2, <1>3 DEF IInv, TypeOK
<1>9. CASE u = q.user /\ q.account # "FAILED"
  <2>1. Paid(u)' = Paid(u) \cup {n} /\ n \notin Paid(u)
    BY <1>1, <1>2, <1>4, <1>9 DEF Paid, OutcomeOf
  <2>2. \A r \in Paid(u) \cup {n} : r.amount \in Int
    BY <1>2, <1>4, <1>5, PaidFacts
  <2>3. Worth(Paid(u) \cup {n}) = Worth(Paid(u)) + n.amount
    BY <1>5, <2>1, <2>2, PaidFacts, WorthWith
  <2>4. balance'[u] = balance[u] - q.amount
    BY <1>8, <1>9 DEF LeftOf
  <2>5. Worth(Paid(u)) \in Int
    BY <1>5, PaidFacts
  <2> QED
    BY <1>2, <1>4, <1>7, <1>8, <2>1, <2>3, <2>4, <2>5
<1>10. CASE ~(u = q.user /\ q.account # "FAILED")
  <2>1. Paid(u)' = Paid(u)
    BY <1>1, <1>2, <1>4, <1>10 DEF Paid, OutcomeOf
  <2>2. balance'[u] = balance[u]
    BY <1>8, <1>10 DEF LeftOf
  <2> QED
    BY <1>7, <2>1, <2>2
<1> QED
  BY <1>9, <1>10

(* A payment that becomes Completed was paid for before.                     *)
LEMMA FinalizeExplains ==
  ASSUME IInv, Explained, NEW w \in Threads, Finalize(w)
  PROVE  IsFiniteSet(rows)' /\ SpendingIsExplained'
<1>1. PICK r \in rows : /\ pc[w] = "finalize" /\ r.id = mine[w]
                        /\ rows' = (rows \ {r}) \cup {[r EXCEPT !.status = "Completed"]}
                        /\ balance' = balance
  BY DEF Finalize
<1> DEFINE n == [r EXCEPT !.status = "Completed"]
<1>2. r \in Rows /\ r.status \in {"Pending", "Completed"}
  BY <1>1 DEF IInv, TypeOK, Explained, ReconciledIsPaid
<1>3. /\ n.id = r.id /\ n.user = r.user /\ n.amount = r.amount /\ n.status = "Completed"
      /\ r.status = "Completed" => n = r
  BY <1>2 DEF Rows
<1>4. n \in rows => n = r
  BY <1>1, <1>3 DEF IInv, ReferencesDiffer
<1>5. IsFiniteSet(rows) /\ TypeOK
  BY DEF Explained, IInv
<1> HIDE DEF n
<1>6. rows' = (rows \ {r}) \cup {n}
  BY <1>1 DEF n
<1>7. IsFiniteSet(rows')
  BY <1>5, <1>6, FS_Subset, FS_AddElement
<1> SUFFICES ASSUME NEW u \in Users PROVE balance[u] + Worth(Paid(u)') = Opening[u]
  BY <1>1, <1>7 DEF SpendingIsExplained
<1>8. balance[u] + Worth(Paid(u)) = Opening[u]
  BY DEF Explained, SpendingIsExplained
<1>9. CASE n = r \/ r.user # u
  <2>1. Paid(u)' = Paid(u)
    BY <1>1, <1>2, <1>3, <1>6, <1>9 DEF Paid
  <2> QED
    BY <1>8, <2>1
<1>10. CASE n # r /\ r.user = u
  <2>1. /\ Paid(u)' = (Paid(u) \ {r}) \cup {n}
        /\ r \in Paid(u) /\ n \notin Paid(u)
    BY <1>1, <1>2, <1>3, <1>4, <1>6, <1>10 DEF Paid
  <2>2. IsFiniteSet(Paid(u)) /\ \A t \in Paid(u) : t.amount \in Int
    BY <1>5, PaidFacts
  <2>3. Worth((Paid(u) \ {r}) \cup {n}) = Worth(Paid(u))
    BY <1>3, <2>1, <2>2, WorthSwapped
  <2> QED
    BY <1>8, <2>1, <2>3
<1> QED
  BY <1>9, <1>10

(* However payments, refunds and reconciliations of a user interleave, the   *)
(* wallet has been charged once for each payment that was not refunded       *)
(* (ServicePaymentService.initiate_payment under get_locked_wallet).         *)
THEOREM SpendingExplained == Spec => []SpendingIsExplained
<1>1. Init => Explained
  <2> SUFFICES ASSUME Init PROVE Explained
    OBVIOUS
  <2>1. WalletsHeld /\ ReconciledIsPaid /\ IsFiniteSet(rows)
    BY FS_EmptySet DEF Init, WalletsHeld, Holding, ReconciledIsPaid
  <2>2. \A u \in Users : Paid(u) = {} /\ balance[u] = Opening[u] /\ Opening[u] \in Int
    BY DEF Init, Paid
  <2>3. SpendingIsExplained
    BY <2>2, WorthEmpty DEF SpendingIsExplained
  <2> QED
    BY <2>1, <2>3 DEF Explained
<1>2. IInv /\ Explained /\ [Next]_vars => Explained'
  <2> SUFFICES ASSUME IInv, Explained, [Next]_vars PROVE Explained'
    OBVIOUS
  <2>1. WalletsHeld' /\ ReconciledIsPaid'
    BY WalletsHeldStep, ReconciledStep DEF Explained
  <2>2. IsFiniteSet(rows)' /\ SpendingIsExplained'
    <3>1. ASSUME UNCHANGED tables PROVE IsFiniteSet(rows)' /\ SpendingIsExplained'
      BY <3>1 DEF tables, Explained, SpendingIsExplained, Paid
    <3>2. UNCHANGED tables \/ \E w \in Threads : Settle(w) \/ Finalize(w)
      BY DEF Next, Request, Work, Pay, Reconcile, FindRepeat, Insert, DuplicateKey, Refuse,
         ReadPayment, Abort, ReferenceCollides, LockForPayment, LockForReconcile, vars
    <3> QED
      BY <3>1, <3>2, SettleExplains, FinalizeExplains
  <2> QED
    BY <2>1, <2>2 DEF Explained
<1>3. Explained => SpendingIsExplained
  BY DEF Explained
<1> QED
  BY <1>1, <1>2, <1>3, Inductive, PTL DEF Spec
-----------------------------------------------------------------------------
(* The bills that the rows stand for. *)

LEMMA WalletsStayLocked == Spec => []WalletsHeld
<1>1. Init => WalletsHeld
  BY DEF Init, WalletsHeld, Holding
<1> QED
  BY <1>1, WalletsHeldStep, Inductive, PTL DEF Spec

(* A row and its bill agree in what a bill has; different rows have          *)
(* different bills.                                                          *)
LEMMA BillFacts ==
  ASSUME ReferencesDiffer, NEW r \in rows
  PROVE  /\ BillOf(r).id = r.id /\ BillOf(r).user = r.user /\ BillOf(r).key = r.key
         /\ BillOf(r).amount = r.amount /\ BillOf(r).status = r.status
         /\ \A t \in rows : BillOf(t) = BillOf(r) => t = r
<1>1. \A t : BillOf(t).id = t.id
  BY DEF BillOf
<1> QED
  BY <1>1 DEF BillOf, ReferencesDiffer

(* The commit of a payment charges or declines one new bill.                 *)
LEMMA SettleBills ==
  ASSUME IInv, WalletsHeld, NEW w \in Threads, Settle(w)
  PROVE  BillsOf!Next
<1> DEFINE q == req[w]
           n == [id |-> mine[w], user |-> q.user, key |-> q.key,
                 account |-> q.account, amount |-> q.amount,
                 status |-> OutcomeOf(q.account)]
           b == BillOf(n)
           bills == {BillOf(r) : r \in rows}
<1>1. /\ pc[w] = "settle" /\ q.amount <= seen[w]
      /\ rows' = rows \cup {n}
      /\ balance' = [balance EXCEPT ![q.user] = LeftOf(seen[w], q)]
  BY DEF Settle, Affords
<1>2. /\ q.user \in Users /\ q.account \in Accounts /\ q.amount \in Amounts
      /\ mine[w] \in Payments /\ \A r \in rows : r.id # mine[w]
      /\ ~KeyIsStored(q.key)
  BY <1>1 DEF IInv, RequestsMakeSense, OnePaymentPerKey
<1>3. q.key \in Keys \cup {None} /\ seen[w] = balance[q.user]
  BY <1>1 DEF IInv, TypeOK, Requests, WalletsHeld, Holding
<1>4. /\ b.id = mine[w] /\ b.user = q.user /\ b.key = q.key /\ b.amount = q.amount
      /\ b.status = OutcomeOf(q.account)
  BY DEF BillOf
<1>5. b \in BillsOf!Possible
  <2>1. OutcomeOf(q.account) \in {"Pending", "Completed", "Refunded"}
    BY <1>2 DEF OutcomeOf
  <2>2. b = [id |-> mine[w], user |-> q.user, key |-> q.key, amount |-> q.amount,
             status |-> OutcomeOf(q.account)]
    BY DEF BillOf
  <2> HIDE DEF b, q
  <2> QED
    BY <1>2, <1>3, <2>1, <2>2 DEF BillsOf!Possible, BillsOf!Charged
<1>6. bills' = bills \cup {b}
  BY <1>1
<1>7. BillsOf!IsNew(b)
  <2>1. \A r \in rows : BillOf(r).id = r.id /\ BillOf(r).key = r.key
    BY DEF BillOf
  <2> HIDE DEF b, q
  <2> QED
    BY <1>2, <1>4, <2>1 DEF BillsOf!IsNew, KeyIsStored
<1>8. BillsOf!Add(b)
  BY <1>1, <1>3, <1>4, <1>6, <1>7 DEF BillsOf!Add
<1> HIDE DEF n, b, bills, q
<1>9. CASE q.account = "FAILED"
  <2>1. balance' = balance
    BY <1>1, <1>2, <1>3, <1>9 DEF LeftOf, IInv, TypeOK
  <2>2. b.status = "Refunded"
    BY <1>4, <1>9 DEF OutcomeOf
  <2> QED
    BY <1>5, <1>8, <2>1, <2>2 DEF BillsOf!Next, BillsOf!Decline
<1>10. CASE q.account # "FAILED"
  <2>1. balance' = [balance EXCEPT ![b.user] = @ - b.amount]
    BY <1>1, <1>3, <1>4, <1>10 DEF LeftOf
  <2>2. b.status \in BillsOf!Charged
    BY <1>2, <1>4, <1>10 DEF OutcomeOf, BillsOf!Charged
  <2> QED
    BY <1>5, <1>8, <2>1, <2>2 DEF BillsOf!Next, BillsOf!Charge
<1> QED
  BY <1>9, <1>10

(* A reconciliation completes one pending bill, or finds it completed.       *)
LEMMA FinalizeBills ==
  ASSUME IInv, ReconciledIsPaid, NEW w \in Threads, Finalize(w)
  PROVE  BillsOf!Next \/ UNCHANGED BillsOf!billsVars
<1>1. PICK r \in rows : /\ pc[w] = "finalize" /\ r.id = mine[w]
                        /\ rows' = (rows \ {r}) \cup {[r EXCEPT !.status = "Completed"]}
                        /\ balance' = balance
  BY DEF Finalize
<1> DEFINE n == [r EXCEPT !.status = "Completed"]
           bills == {BillOf(t) : t \in rows}
<1>2. r \in Rows /\ r.status \in {"Pending", "Completed"} /\ ReferencesDiffer
  BY <1>1 DEF IInv, TypeOK, ReconciledIsPaid
<1>3. CASE r.status = "Completed"
  <2>1. n = r
    BY <1>2, <1>3 DEF Rows
  <2>2. rows' = rows
    BY <1>1, <2>1
  <2> QED
    BY <1>1, <2>2 DEF BillsOf!billsVars
<1>4. CASE r.status = "Pending"
  <2>1. /\ BillOf(r).status = "Pending" /\ BillOf(r) \in bills
        /\ BillOf(n) = [BillOf(r) EXCEPT !.status = "Completed"]
    BY <1>2, <1>4 DEF BillOf, Rows
  <2>2. \A t \in rows : BillOf(t) = BillOf(r) => t = r
    BY <1>1, <1>2, BillFacts
  <2>3. bills' = (bills \ {BillOf(r)}) \cup {BillOf(n)}
    <3>1. rows' = (rows \ {r}) \cup {n}
      BY <1>1
    <3> HIDE DEF n
    <3> QED
      BY <1>1, <2>2, <3>1
  <2>4. BillsOf!Complete(BillOf(r))
    BY <1>1, <2>1, <2>3 DEF BillsOf!Complete
  <2> QED
    BY <2>1, <2>4 DEF BillsOf!Next
<1> QED
  BY <1>2, <1>3, <1>4

(* Every step of ServicePayment is a step of Bills or one nobody can see, so *)
(* that a bill is charged once and with its record, whatever is repeated,    *)
(* refused, aborted or reconciled (initiate_payment, reconcile_payment).     *)
THEOREM ServicePaymentImplementsBills == Spec => ImplementsBills
<1>1. Init => BillsOf!Init
  BY DEF Init, BillsOf!Init
<1>2. IInv /\ WalletsHeld /\ ReconciledIsPaid /\ [Next]_vars
        => [BillsOf!Next]_BillsOf!billsVars
  <2> SUFFICES ASSUME IInv, WalletsHeld, ReconciledIsPaid, [Next]_vars
               PROVE  BillsOf!Next \/ UNCHANGED BillsOf!billsVars
    OBVIOUS
  <2>1. CASE UNCHANGED tables
    BY <2>1 DEF tables, BillsOf!billsVars
  <2>2. UNCHANGED tables \/ \E w \in Threads : Settle(w) \/ Finalize(w)
    BY DEF Next, Request, Work, Pay, Reconcile, FindRepeat, Insert, DuplicateKey, Refuse,
       ReadPayment, Abort, ReferenceCollides, LockForPayment, LockForReconcile, vars
  <2> QED
    BY <2>1, <2>2, SettleBills, FinalizeBills
<1> QED
  BY <1>1, <1>2, Inductive, WalletsStayLocked, ReconcilingPaysOnce, PTL
  DEF Spec, ImplementsBills, BillsOf!Spec
-----------------------------------------------------------------------------
(* Who waits for whom. *)

(* A wallet is freed with the request it was locked for.                     *)
LEMMA WalletsOwnedStep ==
  ASSUME IInv, WalletsOwned, [Next]_vars
  PROVE  WalletsOwned'
<1> USE DEF IInv
<1>1. ASSUME UNCHANGED locked,
             \A x \in Threads : pc[x] \in Holding => pc'[x] \in Holding /\ req'[x] = req[x]
      PROVE  WalletsOwned'
  BY <1>1 DEF WalletsOwned
<1>2. ASSUME NEW w \in Threads, NEW a \in Payments \cup {"error"}, End(w, a)
      PROVE  WalletsOwned'
  <2>1. \A u \in Users : locked'[u] # w
    BY <1>2 DEF End, TypeOK
  <2>2. \A u \in Users, x \in Threads : locked'[u] = x => locked[u] = x
    BY <1>2 DEF End, TypeOK
  <2>3. \A x \in Threads \ {w} : pc'[x] = pc[x] /\ req'[x] = req[x]
    BY <1>2, EndFacts
  <2> QED
    BY <2>1, <2>2, <2>3 DEF WalletsOwned
<1>3. ASSUME NEW w \in Threads, Lock(w, req[w].user), NEW l \in Holding,
             pc' = [pc EXCEPT ![w] = l], pc[w] \in {"lock", "relock"}, UNCHANGED req
      PROVE  WalletsOwned'
  <2>1. req[w].user \in Users
    BY <1>3 DEF RequestsMakeSense
  <2>2. /\ locked'[req[w].user] = w
        /\ \A u \in Users : u # req[w].user => locked'[u] = locked[u]
    BY <1>3, <2>1 DEF Lock, TypeOK
  <2>3. pc'[w] \in Holding /\ \A x \in Threads \ {w} : pc'[x] = pc[x]
    BY <1>3 DEF TypeOK
  <2>4. \A u \in Users : locked[u] # w
    BY <1>3 DEF WalletsOwned, Holding
  <2> QED
    BY <1>3, <2>2, <2>3, <2>4 DEF WalletsOwned
<1>4. CASE UNCHANGED vars
  BY <1>4 DEF vars, tables, WalletsOwned
<1>5. ASSUME NEW w \in Threads, Request(w) PROVE WalletsOwned'
  <2>1. /\ UNCHANGED locked /\ pc[w] = "idle"
        /\ \A x \in Threads \ {w} : pc'[x] = pc[x] /\ req'[x] = req[x]
    BY <1>5 DEF Request, Pay, Reconcile, Goto, TypeOK
  <2> QED
    BY <1>1, <2>1 DEF Holding
<1>6. ASSUME NEW w \in Threads, LockForPayment(w) \/ LockForReconcile(w)
      PROVE  WalletsOwned'
  <2>1. CASE LockForPayment(w)
    BY <1>3, <2>1 DEF LockForPayment, Goto, Holding
  <2>2. CASE LockForReconcile(w)
    BY <1>3, <2>2 DEF LockForReconcile, Goto, Holding
  <2> QED
    BY <1>6, <2>1, <2>2
<1>7. ASSUME NEW w \in Threads, NEW p \in Payments, Insert(w, p) PROVE WalletsOwned'
  <2>1. /\ UNCHANGED <<locked, req>> /\ pc'[w] = "settle"
        /\ \A x \in Threads \ {w} : pc'[x] = pc[x]
    BY <1>7 DEF Insert, Goto, TypeOK
  <2> QED
    BY <1>1, <2>1 DEF Holding
<1>8. ASSUME NEW w \in Threads,
             DuplicateKey(w) \/ ReferenceCollides(w) \/ Refuse(w) \/ Abort(w)
      PROVE  WalletsOwned'
  BY <1>2, <1>8 DEF DuplicateKey, ReferenceCollides, Refuse, Abort
<1>9. ASSUME NEW w \in Threads, FindRepeat(w) \/ ReadPayment(w) PROVE WalletsOwned'
  <2>1. \/ \E r \in rows : End(w, r.id)
        \/ /\ UNCHANGED <<locked, req>> /\ pc[w] \in {"find", "read"}
           /\ \A x \in Threads \ {w} : pc'[x] = pc[x]
    BY <1>9 DEF FindRepeat, ReadPayment, OwnPayment, Goto, TypeOK
  <2>2. \A r \in rows : r.id \in Payments
    BY DEF TypeOK, Rows
  <2>3. CASE /\ UNCHANGED <<locked, req>> /\ pc[w] \in {"find", "read"}
             /\ \A x \in Threads \ {w} : pc'[x] = pc[x]
    BY <1>1, <2>3 DEF Holding
  <2> QED
    BY <1>2, <2>1, <2>2, <2>3
<1>10. ASSUME NEW w \in Threads, Settle(w) PROVE WalletsOwned'
  BY <1>2, <1>10 DEF Settle, RequestsMakeSense
<1>11. ASSUME NEW w \in Threads, Finalize(w) PROVE WalletsOwned'
  <2>1. PICK r \in rows : End(w, r.id)
    BY <1>11 DEF Finalize
  <2>2. r.id \in Payments
    BY DEF TypeOK, Rows
  <2> QED
    BY <1>2, <2>1, <2>2
<1> QED
  BY <1>4, <1>5, <1>6, <1>7, <1>8, <1>9, <1>10, <1>11 DEF Next, Work

(* A wallet is waited for before the key, and nothing is waited for after    *)
(* it: requests can never wait for each other in a ring                      *)
(* (ServicePaymentService: get_locked_wallet before the first flush).        *)
THEOREM NoRingOfRequests == Spec => []WaitsEnd
<1>1. Init => WalletsOwned
  BY DEF Init, WalletsOwned
<1>2. IInv /\ WalletsOwned => WaitsEnd
  <2> SUFFICES ASSUME TypeOK, RequestsMakeSense, WalletsOwned
               PROVE  WaitsEnd
    BY DEF IInv
  <2>1. \A w, x \in Threads : WaitsFor(w, x) =>
           \/ pc[w] \in {"lock", "relock"} /\ pc[x] \in Holding
           \/ pc[w] = "insert" /\ pc[x] = "settle"
    BY DEF WaitsFor, Claims, WalletsOwned, RequestsMakeSense
  <2> QED
    BY <2>1 DEF WaitsEnd, Holding
<1> QED
  BY <1>1, <1>2, WalletsOwnedStep, Inductive, PTL DEF Spec
=============================================================================
