--------------------------- MODULE TransferProofs ---------------------------
(***************************************************************************)
(* Proofs about Transfer, for any wallets, opening balances, threads, codes *)
(* and amounts: every reachable state is well typed, the ledgers chain and  *)
(* book both sides of a transaction, no ring of waiting threads can close,  *)
(* and Transfer implements Bank.                                            *)
(***************************************************************************)
EXTENDS Transfer, SumTheorems

USE WalletsAssumption, OpeningAssumption, AmountsAssumption,
    MaxBalanceAssumption, NoneAssumption

(* The invariant without TypeOK, as one name for the steps below. *)
Safe == LocksHeld /\ SeenIsCurrent /\ JobsMakeSense /\ LedgerChains
-----------------------------------------------------------------------------
(* What the end of a request leaves alone. *)
LEMMA EndFacts ==
  ASSUME TypeOK, NEW w \in Threads, End(w)
  PROVE  /\ pc' \in [Threads -> {"idle", "check", "locking", "move"}]
         /\ job' \in [Threads -> Jobs]
         /\ seen' \in [Threads -> [Wallets -> Nat]]
         /\ locked' \in [Wallets -> Threads \cup {None}]
         /\ pc'[w] = "idle"
         /\ \A u \in Wallets : locked'[u] # w
         /\ \A x \in Threads \ {w} : /\ pc'[x] = pc[x]
                                     /\ job'[x] = job[x]
                                     /\ seen'[x] = seen[x]
                                     /\ \A u \in Wallets : locked'[u] = x <=> locked[u] = x
<1>1. NoJob \in Jobs
  BY DEF NoJob, Jobs, Parties
<1>2. None # w
  OBVIOUS
<1> QED
  BY <1>1, <1>2 DEF TypeOK, End, Goto

(* The end of a request keeps the invariant when the rows of the other       *)
(* threads keep their balances and the ledgers chain afterwards.             *)
LEMMA EndSafe ==
  ASSUME TypeOK, Safe, NEW w \in Threads, End(w),
         LedgerChains',
         \A x \in Threads \ {w}, u \in Wallets :
            locked[u] = x => balance'[u] = balance[u]
  PROVE  Safe'
<1>1. \A x \in Threads \ {w} :
         /\ pc'[x] = pc[x] /\ job'[x] = job[x] /\ seen'[x] = seen[x]
         /\ \A u \in Wallets : locked'[u] = x <=> locked[u] = x
  BY EndFacts
<1>2. pc'[w] = "idle" /\ \A u \in Wallets : locked'[u] # w
  BY EndFacts
<1>3. ASSUME NEW x \in Threads \ {w}
      PROVE  Missing(x)' = Missing(x) /\ Touched(x)' = Touched(x)
  <2>1. job[x].from \in Parties /\ job[x].to \in Parties
    BY DEF TypeOK, Jobs
  <2>2. ASSUME NEW u PROVE u \in Missing(x)' <=> u \in Missing(x)
    <3>1. job'[x] = job[x] /\ \A v \in Wallets : locked'[v] = x <=> locked[v] = x
      BY <1>1
    <3>2. CASE u \in {job[x].from, job[x].to} \ {None}
      <4>1. u \in Wallets
        BY <2>1, <3>2 DEF Parties
      <4> QED
        BY <3>1, <3>2, <4>1 DEF Missing
    <3>3. CASE u \notin {job[x].from, job[x].to} \ {None}
      BY <3>1, <3>3 DEF Missing
    <3> QED
      BY <3>2, <3>3
  <2>3. Touched(x)' = Touched(x)
    BY <1>1 DEF Touched
  <2> QED
    BY <2>2, <2>3 DEF Missing
<1>4. LocksHeld'
  BY <1>1, <1>2, <1>3 DEF LocksHeld, Safe
<1>5. SeenIsCurrent'
  BY <1>1, <1>2 DEF SeenIsCurrent, Safe
<1>6. JobsMakeSense'
  BY <1>1, <1>2 DEF JobsMakeSense, Safe
<1> QED
  BY <1>4, <1>5, <1>6 DEF Safe
-----------------------------------------------------------------------------
(* The movement a thread that holds all its rows is about to commit. *)
LEMMA EntryFacts ==
  ASSUME TypeOK, Safe, NEW w \in Threads, NEW c \in Codes, Commit(w, c)
  PROVE  /\ Row(w, c) \in Rows
         /\ \A u \in Touched(w) :
               /\ locked[u] = w
               /\ Entry(w, u, c) \in Entries
               /\ Entry(w, u, c).before = balance[u]
               /\ Entry(w, u, c).after =
                    (balance[u] - PaidBy(u, job[w])) + ReceivedBy(u, job[w])
         /\ \A u \in Wallets : PaidBy(u, job[w]) <= balance[u] \/ u \notin Touched(w)
<1>1. /\ job[w] \in Jobs
      /\ job[w].from # job[w].to
      /\ job[w].amount \in Amounts
  BY DEF TypeOK, Safe, JobsMakeSense, Commit
<1>2. Row(w, c) \in Rows
  BY <1>1 DEF Row, Rows, Jobs
<1>3. ASSUME NEW u \in Touched(w)
      PROVE  /\ locked[u] = w
             /\ seen[w][u] = balance[u]
             /\ balance[u] \in Nat
             /\ PaidBy(u, job[w]) <= balance[u]
             /\ PaidBy(u, job[w]) \in Nat /\ ReceivedBy(u, job[w]) \in Nat
  <2>1. u \in Wallets
    BY <1>3 DEF Touched
  <2>2. locked[u] = w
    BY <1>3, <2>1 DEF Touched, Commit, Safe, LocksHeld, Missing
  <2>3. seen[w][u] = balance[u] /\ balance[u] \in Nat
    BY <2>1, <2>2 DEF Safe, SeenIsCurrent, TypeOK
  <2>4. PaidBy(u, job[w]) <= seen[w][u]
    BY <2>1 DEF Commit, Affordable
  <2>5. PaidBy(u, job[w]) \in Nat /\ ReceivedBy(u, job[w]) \in Nat
    BY <1>1 DEF PaidBy, ReceivedBy
  <2> QED
    BY <2>2, <2>3, <2>4, <2>5
<1>4. \A u \in Touched(w) :
        /\ Entry(w, u, c) \in Entries
        /\ Entry(w, u, c).before = balance[u]
        /\ Entry(w, u, c).after =
             (balance[u] - PaidBy(u, job[w])) + ReceivedBy(u, job[w])
  <2>1. TAKE u \in Touched(w)
  <2>2. /\ seen[w][u] = balance[u]
        /\ balance[u] \in Nat
        /\ (balance[u] - PaidBy(u, job[w])) + ReceivedBy(u, job[w]) \in Nat
    BY <1>3
  <2> QED
    BY <1>1, <2>2 DEF Entry, Entries
<1> QED
  BY <1>2, <1>3, <1>4

(* A commit is well typed. *)
LEMMA CommitType ==
  ASSUME TypeOK, Safe, NEW w \in Threads, NEW c \in Codes, Commit(w, c)
  PROVE  TypeOK'
<1>1. \A u \in Touched(w) : Entry(w, u, c) \in Entries
  BY EntryFacts
<1>2. balance' \in [Wallets -> Nat]
  BY <1>1 DEF Commit, TypeOK, Entries
<1>3. ledger' \in [Wallets -> Seq(Entries)]
  <2>1. ASSUME NEW l \in Seq(Entries), NEW e \in Entries
        PROVE  Append(l, e) \in Seq(Entries)
    OBVIOUS
  <2>2. \A u \in Touched(w) : ledger[u] \in Seq(Entries)
    BY DEF TypeOK, Touched
  <2>3. \A u \in Touched(w) : Append(ledger[u], Entry(w, u, c)) \in Seq(Entries)
    BY <1>1, <2>1, <2>2
  <2> QED
    BY <2>3 DEF Commit, TypeOK
<1>4. transactions' \in SUBSET Rows
  BY EntryFacts DEF Commit, TypeOK
<1>5. End(w) /\ UNCHANGED active
  BY DEF Commit
<1> QED
  BY <1>2, <1>3, <1>4, <1>5, EndFacts DEF TypeOK

(* A commit extends the chain of each ledger it touches. *)
LEMMA CommitChains ==
  ASSUME TypeOK, Safe, NEW w \in Threads, NEW c \in Codes, Commit(w, c)
  PROVE  LedgerChains'
<1> SUFFICES ASSUME NEW u \in Wallets
             PROVE  /\ ledger'[u] = <<>> => balance'[u] = Opening[u]
                    /\ ledger'[u] # <<>> =>
                         /\ ledger'[u][1].before = Opening[u]
                         /\ balance'[u] = ledger'[u][Len(ledger'[u])].after
                    /\ \A i \in 1 .. Len(ledger'[u]) - 1 :
                         ledger'[u][i + 1].before = ledger'[u][i].after
  BY DEF LedgerChains
<1> DEFINE l == ledger[u]
           e == Entry(w, u, c)
<1>1. /\ l \in Seq(Entries)
      /\ l = <<>> => balance[u] = Opening[u]
      /\ l # <<>> => l[1].before = Opening[u] /\ balance[u] = l[Len(l)].after
      /\ \A i \in 1 .. Len(l) - 1 : l[i + 1].before = l[i].after
  BY DEF TypeOK, Safe, LedgerChains
<1>2. CASE u \notin Touched(w)
  <2>1. ledger'[u] = l /\ balance'[u] = balance[u]
    BY <1>2 DEF Commit, TypeOK
  <2> QED
    BY <1>1, <2>1
<1>3. CASE u \in Touched(w)
  <2>1. ledger'[u] = Append(l, e) /\ balance'[u] = e.after
    BY <1>3 DEF Commit, TypeOK
  <2>2. e \in Entries /\ e.before = balance[u]
    BY <1>3, EntryFacts
  <2> HIDE DEF e, l
  <2>3. /\ Len(Append(l, e)) = Len(l) + 1
        /\ Append(l, e)[Len(l) + 1] = e
        /\ \A i \in 1 .. Len(l) : Append(l, e)[i] = l[i]
        /\ Append(l, e) # <<>>
        /\ Len(l) \in Nat
        /\ l = <<>> <=> Len(l) = 0
    <3>1. l \in Seq(Entries) /\ e \in Entries
      BY <1>1, <2>2
    <3>2. Len(l) \in Nat /\ (l = <<>> <=> Len(l) = 0)
      BY <3>1
    <3>3. Len(Append(l, e)) = Len(l) + 1
      BY <3>1
    <3>4. Append(l, e)[Len(l) + 1] = e
      BY <3>1
    <3>5. \A i \in 1 .. Len(l) : Append(l, e)[i] = l[i]
      BY <3>1
    <3>6. Append(l, e) # <<>>
      BY <3>1, <3>2, <3>3
    <3> QED
      BY <3>2, <3>3, <3>4, <3>5, <3>6
  <2>4. ledger'[u][1].before = Opening[u]
    <3>1. CASE l = <<>>
      BY <1>1, <2>1, <2>2, <2>3, <3>1
    <3>2. CASE l # <<>>
      BY <1>1, <2>1, <2>3, <3>2
    <3> QED
      BY <3>1, <3>2
  <2>5. balance'[u] = ledger'[u][Len(ledger'[u])].after
    BY <2>1, <2>3
  <2>6. ASSUME NEW i \in 1 .. Len(l)
        PROVE  Append(l, e)[i + 1].before = Append(l, e)[i].after
    <3>1. CASE i = Len(l)
      BY <1>1, <2>2, <2>3, <3>1
    <3>2. CASE i # Len(l)
      <4>1. i \in 1 .. Len(l) - 1 /\ i + 1 \in 1 .. Len(l)
        BY <2>3, <3>2
      <4> QED
        BY <1>1, <2>3, <4>1
    <3> QED
      BY <3>1, <3>2
  <2> QED
    BY <2>1, <2>3, <2>4, <2>5, <2>6
<1> QED
  BY <1>2, <1>3

(* Only rows that the committing thread holds change their balance. *)
LEMMA CommitSafe ==
  ASSUME TypeOK, Safe, NEW w \in Threads, NEW c \in Codes, Commit(w, c)
  PROVE  Safe'
<1>1. LedgerChains'
  BY CommitChains
<1>2. End(w)
  BY DEF Commit
<1>3. ASSUME NEW x \in Threads \ {w}, NEW u \in Wallets, locked[u] = x
      PROVE  balance'[u] = balance[u]
  <2>1. u \notin Touched(w)
    BY <1>3, EntryFacts
  <2> QED
    BY <2>1 DEF Commit, TypeOK
<1> QED
  BY <1>1, <1>2, <1>3, EndSafe
-----------------------------------------------------------------------------
(* A thread takes the next row. *)
LEMMA LockSafe ==
  ASSUME TypeOK, Safe, NEW w \in Threads, NEW u \in Wallets, LockNext(w, u)
  PROVE  TypeOK' /\ Safe'
<1>1. /\ pc[w] = "locking" /\ locked[u] = None
      /\ locked' = [locked EXCEPT ![u] = w]
      /\ seen' = [seen EXCEPT ![w][u] = balance[u]]
      /\ UNCHANGED <<active, balance, ledger, transactions, job>>
  BY DEF LockNext, IsFree, tableVars
<1>2. pc' = [pc EXCEPT ![w] = IF Missing(w) = {u} THEN "move" ELSE "locking"]
  BY DEF LockNext, Goto
<1>3. /\ u \in Missing(w)
      /\ \A v \in Missing(w) : u <= v
  BY DEF LockNext, IsNext
<1>4. TypeOK'
  BY <1>1, <1>2 DEF TypeOK
<1>5. \A x \in Threads : Touched(x)' = Touched(x)
  BY <1>1 DEF Touched
<1>6. \A x \in Threads : job[x].from \in Parties /\ job[x].to \in Parties
  BY DEF TypeOK, Jobs
<1>7. \A x \in Threads \ {w} : Missing(x)' = Missing(x)
  BY <1>1, <1>6 DEF Missing, Parties, TypeOK
<1>8. Missing(w)' = Missing(w) \ {u}
  BY <1>1, <1>6 DEF Missing, Parties, TypeOK
<1>9. Missing(w) \subseteq Wallets /\ u \in Touched(w)
  BY <1>3, <1>6 DEF Missing, Parties, Touched
<1>10. LocksHeld'
  <2>1. ASSUME NEW x \in Threads, NEW v \in Wallets, locked'[v] = x
        PROVE  /\ pc'[x] \in {"locking", "move"}
               /\ v \in Touched(x)'
               /\ \A z \in Missing(x)' : v < z
    <3>1. CASE x = w /\ v = u
      <4>1. \A z \in Missing(w)' : u < z
        <5>1. TAKE z \in Missing(w)'
        <5>2. z \in Missing(w) /\ z # u /\ u <= z
          BY <1>3, <1>8
        <5>3. z \in Nat /\ u \in Nat
          BY <1>9, <5>2, WalletsAssumption
        <5> QED
          BY <5>2, <5>3
      <4> QED
        BY <1>2, <1>5, <1>9, <3>1, <4>1 DEF TypeOK
    <3>2. CASE x = w /\ v # u
      <4>1. locked[v] = w
        BY <1>1, <2>1, <3>2 DEF TypeOK
      <4> QED
        BY <1>2, <1>5, <1>8, <3>2, <4>1 DEF Safe, LocksHeld, TypeOK
    <3>3. CASE x # w
      <4>1. locked[v] = x
        BY <1>1, <2>1, <3>3 DEF TypeOK
      <4> QED
        BY <1>2, <1>5, <1>7, <3>3, <4>1 DEF Safe, LocksHeld, TypeOK
    <3> QED
      BY <3>1, <3>2, <3>3
  <2>2. ASSUME NEW x \in Threads
        PROVE  /\ pc'[x] = "locking" => Missing(x)' # {}
               /\ pc'[x] = "move" => Missing(x)' = {}
    <3>1. CASE x = w
      BY <1>2, <1>3, <1>8, <3>1 DEF TypeOK
    <3>2. CASE x # w
      BY <1>2, <1>7, <3>2 DEF Safe, LocksHeld, TypeOK
    <3> QED
      BY <3>1, <3>2
  <2> QED
    BY <2>1, <2>2 DEF LocksHeld
<1>11. SeenIsCurrent'
  <2>1. ASSUME NEW x \in Threads, NEW v \in Wallets, locked'[v] = x
        PROVE  seen'[x][v] = balance[v]
    <3>1. CASE x = w /\ v = u
      BY <1>1, <3>1 DEF TypeOK
    <3>2. CASE x # w \/ v # u
      <4>1. locked[v] = x
        BY <1>1, <2>1, <3>2 DEF TypeOK
      <4>2. seen[x][v] = balance[v]
        BY <4>1 DEF Safe, SeenIsCurrent
      <4> QED
        BY <1>1, <3>2, <4>2 DEF TypeOK
    <3> QED
      BY <3>1, <3>2
  <2> QED
    BY <1>1, <2>1 DEF SeenIsCurrent
<1>12. JobsMakeSense' /\ LedgerChains'
  BY <1>1, <1>2 DEF Safe, JobsMakeSense, LedgerChains, TypeOK
<1> QED
  BY <1>4, <1>10, <1>11, <1>12 DEF Safe

(* A request starts: the thread holds no row yet. *)
LEMMA StartSafe ==
  ASSUME TypeOK, Safe, NEW w \in Threads, NEW j \in Jobs, NEW l \in {"check", "locking"},
         pc[w] = "idle", j.from # j.to, j.amount \in Amounts,
         job' = [job EXCEPT ![w] = j], pc' = [pc EXCEPT ![w] = l],
         UNCHANGED <<active, tableVars, locked, seen>>
  PROVE  TypeOK' /\ Safe'
<1>1. TypeOK'
  BY DEF TypeOK, tableVars
<1>2. \A u \in Wallets : locked[u] # w
  BY DEF Safe, LocksHeld
<1>3. \A x \in Threads \ {w} : /\ pc'[x] = pc[x] /\ job'[x] = job[x]
                               /\ Missing(x)' = Missing(x) /\ Touched(x)' = Touched(x)
  BY DEF TypeOK, Missing, Touched
<1>4. pc'[w] = l /\ job'[w] = j
  BY DEF TypeOK
<1>5. Missing(w)' # {}
  <2>1. j.from \in Wallets \/ j.to \in Wallets
    BY DEF Jobs, Parties
  <2>2. j.from \in Wallets => j.from # None /\ locked'[j.from] # w
    BY <1>2
  <2>3. j.to \in Wallets => j.to # None /\ locked'[j.to] # w
    BY <1>2
  <2> QED
    BY <1>4, <2>1, <2>2, <2>3 DEF Missing
<1>6. LocksHeld'
  BY <1>2, <1>3, <1>4, <1>5 DEF Safe, LocksHeld
<1>7. SeenIsCurrent' /\ LedgerChains'
  BY DEF Safe, SeenIsCurrent, LedgerChains, tableVars
<1>8. JobsMakeSense'
  BY <1>3, <1>4 DEF Safe, JobsMakeSense
<1> QED
  BY <1>1, <1>6, <1>7, <1>8 DEF Safe

(* A request that ends without a commit changes no table. *)
LEMMA GiveUpSafe ==
  ASSUME TypeOK, Safe, NEW w \in Threads, End(w), UNCHANGED <<active, tableVars>>
  PROVE  TypeOK' /\ Safe'
<1>1. TypeOK'
  BY EndFacts DEF TypeOK, tableVars
<1>2. LedgerChains'
  BY DEF Safe, LedgerChains, tableVars
<1>3. balance' = balance
  BY DEF tableVars
<1> QED
  BY <1>1, <1>2, <1>3, EndSafe
-----------------------------------------------------------------------------
LEMMA InitHolds == Init => IInv
<1> SUFFICES ASSUME Init PROVE IInv
  OBVIOUS
<1>1. NoJob \in Jobs /\ None \notin Threads
  BY DEF NoJob, Jobs, Parties
<1>2. TypeOK
  BY <1>1 DEF Init, TypeOK
<1>3. LocksHeld /\ SeenIsCurrent /\ JobsMakeSense
  BY <1>1 DEF Init, LocksHeld, SeenIsCurrent, JobsMakeSense
<1>4. LedgerChains
  BY DEF Init, LedgerChains
<1> QED
  BY <1>2, <1>3, <1>4 DEF IInv

(* Every step keeps the invariant. *)
LEMMA Invariance == IInv /\ [Next]_vars => IInv'
<1> SUFFICES ASSUME TypeOK, Safe, [Next]_vars PROVE TypeOK' /\ Safe'
  BY DEF IInv, Safe
<1>1. ASSUME NEW u \in Wallets, ToggleFreeze(u) PROVE TypeOK' /\ Safe'
  <2>1. TypeOK'
    BY <1>1 DEF ToggleFreeze, TypeOK, tableVars, threadVars
  <2>2. Safe'
    BY <1>1 DEF ToggleFreeze, tableVars, threadVars, Safe, LocksHeld, SeenIsCurrent,
                JobsMakeSense, LedgerChains, Missing, Touched
  <2> QED
    BY <2>1, <2>2
<1>2. ASSUME NEW w \in Threads, NEW s \in Wallets, NEW r \in Wallets, NEW a \in Amounts,
             RequestTransfer(w, s, r, a)
      PROVE  TypeOK' /\ Safe'
  <2> DEFINE j == [from |-> s, to |-> r, amount |-> a]
  <2>1. j \in Jobs /\ j.from # j.to /\ j.amount \in Amounts
    BY <1>2 DEF Jobs, Parties, RequestTransfer
  <2>2. /\ pc[w] = "idle"
        /\ job' = [job EXCEPT ![w] = j] /\ pc' = [pc EXCEPT ![w] = "check"]
        /\ UNCHANGED <<active, tableVars, locked, seen>>
    BY <1>2 DEF RequestTransfer, Goto
  <2> QED
    BY <2>1, <2>2, StartSafe
<1>3. ASSUME NEW w \in Threads, NEW s \in Wallets, NEW a \in Amounts,
             RequestPayment(w, s, a)
      PROVE  TypeOK' /\ Safe'
  <2> DEFINE j == [from |-> s, to |-> None, amount |-> a]
  <2>1. j \in Jobs /\ j.from # j.to /\ j.amount \in Amounts
    BY <1>3 DEF Jobs, Parties
  <2>2. /\ pc[w] = "idle"
        /\ job' = [job EXCEPT ![w] = j] /\ pc' = [pc EXCEPT ![w] = "locking"]
        /\ UNCHANGED <<active, tableVars, locked, seen>>
    BY <1>3 DEF RequestPayment, Goto
  <2> QED
    BY <2>1, <2>2, StartSafe
<1>4. ASSUME NEW w \in Threads, NEW r \in Wallets, NEW a \in Amounts,
             RequestCredit(w, r, a)
      PROVE  TypeOK' /\ Safe'
  <2> DEFINE j == [from |-> None, to |-> r, amount |-> a]
  <2>1. j \in Jobs /\ j.from # j.to /\ j.amount \in Amounts
    BY <1>4 DEF Jobs, Parties
  <2>2. /\ pc[w] = "idle"
        /\ job' = [job EXCEPT ![w] = j] /\ pc' = [pc EXCEPT ![w] = "locking"]
        /\ UNCHANGED <<active, tableVars, locked, seen>>
    BY <1>4 DEF RequestCredit, Goto
  <2> QED
    BY <2>1, <2>2, StartSafe
<1>5. ASSUME NEW w \in Threads, CheckReceiver(w) PROVE TypeOK' /\ Safe'
  <2>1. CASE job[w].to \in active
    <3>1. /\ pc[w] = "check" /\ pc' = [pc EXCEPT ![w] = "locking"]
          /\ UNCHANGED <<active, balance, ledger, transactions, locked, job, seen>>
      BY <1>5, <2>1 DEF CheckReceiver, Goto, tableVars
    <3>2. \A u \in Wallets : locked[u] # w
      BY <3>1 DEF Safe, LocksHeld
    <3>3. Missing(w) # {}
      <4>1. job[w].to \in Wallets
        BY <2>1 DEF TypeOK
      <4> QED
        BY <3>2, <4>1 DEF Missing
    <3>4. \A x \in Threads : Missing(x)' = Missing(x) /\ Touched(x)' = Touched(x)
      BY <3>1 DEF Missing, Touched
    <3>5. TypeOK'
      BY <3>1 DEF TypeOK
    <3>6. LocksHeld'
      BY <3>1, <3>2, <3>3, <3>4 DEF Safe, LocksHeld, TypeOK
    <3>7. SeenIsCurrent' /\ JobsMakeSense' /\ LedgerChains'
      BY <3>1 DEF Safe, SeenIsCurrent, JobsMakeSense, LedgerChains, TypeOK
    <3> QED
      BY <3>5, <3>6, <3>7 DEF Safe
  <2>2. CASE job[w].to \notin active
    BY <1>5, <2>2, GiveUpSafe DEF CheckReceiver
  <2> QED
    BY <2>1, <2>2
<1>6. ASSUME NEW w \in Threads, NEW u \in Wallets, LockNext(w, u) PROVE TypeOK' /\ Safe'
  BY <1>6, LockSafe
<1>7. ASSUME NEW w \in Threads, NEW c \in Codes, Commit(w, c) PROVE TypeOK' /\ Safe'
  BY <1>7, CommitType, CommitSafe
<1>8. ASSUME NEW w \in Threads, RollBack(w) \/ Abort(w) PROVE TypeOK' /\ Safe'
  BY <1>8, GiveUpSafe DEF RollBack, Abort
<1>9. CASE UNCHANGED vars
  <2>1. TypeOK'
    BY <1>9 DEF vars, tableVars, threadVars, TypeOK
  <2>2. UNCHANGED <<balance, ledger, locked, pc, job, seen>>
    BY <1>9 DEF vars, tableVars, threadVars
  <2>3. \A w \in Threads : Missing(w)' = Missing(w) /\ Touched(w)' = Touched(w)
    BY <2>2 DEF Missing, Touched
  <2>6. LocksHeld'
    BY <2>2, <2>3 DEF Safe, LocksHeld
  <2>4. SeenIsCurrent' /\ JobsMakeSense'
    BY <2>2 DEF Safe, SeenIsCurrent, JobsMakeSense
  <2>5. LedgerChains'
    BY <2>2 DEF Safe, LedgerChains
  <2> QED
    BY <2>1, <2>4, <2>5, <2>6 DEF Safe
<1> QED
  BY <1>1, <1>2, <1>3, <1>4, <1>5, <1>6, <1>7, <1>8, <1>9 DEF Next, Request, Settle

LEMMA Inductive == Spec => []IInv
<1>1. Init => IInv
  BY InitHolds
<1>2. IInv /\ [Next]_vars => IInv'
  BY Invariance
<1> QED
  BY <1>1, <1>2, PTL DEF Spec
-----------------------------------------------------------------------------
(* Every reachable state is well typed; in particular no balance is ever     *)
(* negative (WalletService.debit).                                           *)
THEOREM TypeCorrect == Spec => []TypeOK
<1>1. IInv => TypeOK
  BY DEF IInv
<1> QED
  BY <1>1, Inductive, PTL

(* The ledger of every wallet accounts for its balance without a gap         *)
(* (WalletService.credit and debit under the row lock).                      *)
THEOREM LedgersChain == Spec => []LedgerChains
<1>1. IInv => LedgerChains
  BY DEF IInv
<1> QED
  BY <1>1, Inductive, PTL

(* Threads wait for each other in ascending wallet order only, so no ring of *)
(* waiting threads can close (WalletService.get_locked_wallets).             *)
THEOREM NoRing == Spec => []WaitsAscend
<1>1. IInv => WaitsAscend
  BY DEF IInv, LocksHeld, WaitsAscend, Waits, IsNext
<1> QED
  BY <1>1, Inductive, PTL
-----------------------------------------------------------------------------
(* What a commit does to the balances, touched or not. *)
LEMMA CommitChanges ==
  ASSUME TypeOK, Safe, NEW w \in Threads, NEW c \in Codes, Commit(w, c)
  PROVE  /\ \A u \in Wallets : PaidBy(u, job[w]) <= balance[u]
         /\ balance' = [u \in Wallets |->
                          (balance[u] - PaidBy(u, job[w])) + ReceivedBy(u, job[w])]
<1>1. ASSUME NEW u \in Wallets, u \notin Touched(w)
      PROVE  PaidBy(u, job[w]) = 0 /\ ReceivedBy(u, job[w]) = 0
  BY <1>1 DEF Touched, PaidBy, ReceivedBy
<1>2. \A u \in Wallets : PaidBy(u, job[w]) <= balance[u]
  BY <1>1, EntryFacts DEF TypeOK
<1>3. ASSUME NEW u \in Wallets
      PROVE  (IF u \in Touched(w) THEN Entry(w, u, c).after ELSE balance[u])
               = (balance[u] - PaidBy(u, job[w])) + ReceivedBy(u, job[w])
  BY <1>1, EntryFacts DEF TypeOK
<1> QED
  BY <1>2, <1>3 DEF Commit

(* A commit is one movement of Bank, every other step a stutter. *)
LEMMA CommitMoves ==
  ASSUME TypeOK, Safe, NEW w \in Threads, NEW c \in Codes, Commit(w, c)
  PROVE  BankOf!Next
<1> DEFINE m == Row(w, c)
<1>1. job[w].from # job[w].to
  BY DEF Commit, Safe, JobsMakeSense
<1>2. m \in BankOf!Movements
  BY EntryFacts DEF BankOf!Movements, Rows, Parties
<1>3. /\ m.code = c /\ m.from = job[w].from /\ m.to = job[w].to
      /\ m.amount = job[w].amount
  BY DEF Row
<1>4. \A u \in Wallets : /\ BankOf!Paid(u, m) = PaidBy(u, job[w])
                         /\ BankOf!Received(u, m) = ReceivedBy(u, job[w])
  BY <1>3 DEF BankOf!Paid, BankOf!Received, PaidBy, ReceivedBy
<1>6. \A u \in Wallets : PaidBy(u, job[w]) <= balance[u]
  BY CommitChanges
<1>7. balance' = [u \in Wallets |->
                    (balance[u] - PaidBy(u, job[w])) + ReceivedBy(u, job[w])]
  BY CommitChanges
<1>8. ~BankOf!Taken(m.code)
  BY <1>3 DEF Commit, Taken, BankOf!Taken
<1>9. transactions' = transactions \cup {m}
  BY DEF Commit
<1> HIDE DEF m
<1>10. BankOf!Move(m)
  BY <1>1, <1>3, <1>4, <1>6, <1>7, <1>8, <1>9 DEF BankOf!Move
<1> QED
  BY <1>2, <1>10 DEF BankOf!Next

(* Locks, reads, aborts and all, every request moves money atomically or not *)
(* at all: Transfer implements Bank (TransactionService.transfer).           *)
THEOREM TransferImplementsBank == Spec => ImplementsBank
<1>1. Init => BankOf!Init
  BY DEF Init, BankOf!Init
<1>2. IInv /\ [Next]_vars => [BankOf!Next]_(BankOf!bankVars)
  <2> SUFFICES ASSUME TypeOK, Safe, [Next]_vars
               PROVE  BankOf!Next \/ UNCHANGED <<balance, transactions>>
    BY DEF IInv, Safe, BankOf!bankVars
  <2>1. ASSUME NEW w \in Threads, NEW c \in Codes, Commit(w, c) PROVE BankOf!Next
    BY <2>1, CommitMoves
  <2> QED
    BY <2>1 DEF Next, Request, Settle, ToggleFreeze, RequestTransfer, RequestPayment,
                RequestCredit, CheckReceiver, LockNext, RollBack, Abort, vars, tableVars
<1> QED
  BY <1>1, <1>2, Inductive, PTL DEF Spec, ImplementsBank, BankOf!Spec
-----------------------------------------------------------------------------
(* Both sides of a transaction. *)

(* Where a ledger has an entry of kind k for transaction t. *)
Matches(l, k, t) ==
  {i \in DOMAIN l : l[i].code = t.code /\ l[i].kind = k /\ l[i].amount = t.amount}

OneOrNone(S, one) == IF one THEN \E i : S = {i} ELSE S = {}

(* BooksAgree, without counting. *)
Booked ==
  /\ \A t \in transactions, u \in Wallets :
        /\ OneOrNone(Matches(ledger[u], "DEBIT", t), u = t.from)
        /\ OneOrNone(Matches(ledger[u], "CREDIT", t), u = t.to)
  /\ \A u \in Wallets : \A i \in DOMAIN ledger[u] : Taken(ledger[u][i].code)

LEMMA BookedAgrees == Booked => BooksAgree
<1>1. ASSUME NEW S, NEW b \in BOOLEAN, OneOrNone(S, b)
      PROVE  Cardinality(S) = IF b THEN 1 ELSE 0
  BY <1>1, FS_EmptySet, FS_Singleton DEF OneOrNone
<1>2. ASSUME Booked, NEW t \in transactions, NEW u \in Wallets
      PROVE  /\ Cardinality(Matches(ledger[u], "DEBIT", t)) = IF u = t.from THEN 1 ELSE 0
             /\ Cardinality(Matches(ledger[u], "CREDIT", t)) = IF u = t.to THEN 1 ELSE 0
  <2>1. /\ OneOrNone(Matches(ledger[u], "DEBIT", t), u = t.from)
        /\ OneOrNone(Matches(ledger[u], "CREDIT", t), u = t.to)
    BY <1>2 DEF Booked
  <2> QED
    BY <1>1, <2>1
<1>3. ASSUME Booked PROVE BooksAgree
  <2>1. \A u \in Wallets : \A i \in DOMAIN ledger[u] : Taken(ledger[u][i].code)
    BY <1>3 DEF Booked
  <2> SUFFICES ASSUME NEW t \in transactions, NEW u \in Wallets
      PROVE  /\ Cardinality({i \in DOMAIN ledger[u] :
                       /\ ledger[u][i].code = t.code
                       /\ ledger[u][i].kind = "DEBIT"
                       /\ ledger[u][i].amount = t.amount}) = IF u = t.from THEN 1 ELSE 0
             /\ Cardinality({i \in DOMAIN ledger[u] :
                       /\ ledger[u][i].code = t.code
                       /\ ledger[u][i].kind = "CREDIT"
                       /\ ledger[u][i].amount = t.amount}) = IF u = t.to THEN 1 ELSE 0
    BY <2>1, Zenon DEF BooksAgree
  <2>2. /\ Matches(ledger[u], "DEBIT", t) = {i \in DOMAIN ledger[u] :
                       /\ ledger[u][i].code = t.code
                       /\ ledger[u][i].kind = "DEBIT"
                       /\ ledger[u][i].amount = t.amount}
        /\ Matches(ledger[u], "CREDIT", t) = {i \in DOMAIN ledger[u] :
                       /\ ledger[u][i].code = t.code
                       /\ ledger[u][i].kind = "CREDIT"
                       /\ ledger[u][i].amount = t.amount}
    BY DEF Matches
  <2> QED
    BY <1>2, <1>3, <2>2, Zenon
<1> QED
  BY <1>3

IsMatch(e, k, t) == e.code = t.code /\ e.kind = k /\ e.amount = t.amount

(* An appended entry is one more match, or none. *)
LEMMA AppendMatches ==
  ASSUME NEW l \in Seq(Entries), NEW e \in Entries, NEW k, NEW t
  PROVE  /\ IsMatch(e, k, t) =>
               Matches(Append(l, e), k, t) = Matches(l, k, t) \cup {Len(l) + 1}
         /\ ~IsMatch(e, k, t) => Matches(Append(l, e), k, t) = Matches(l, k, t)
<1>1. /\ DOMAIN l = 1 .. Len(l) /\ Len(l) \in Nat
      /\ DOMAIN Append(l, e) = 1 .. Len(l) + 1
      /\ \A i \in 1 .. Len(l) : Append(l, e)[i] = l[i]
      /\ Append(l, e)[Len(l) + 1] = e
  OBVIOUS
<1> QED
  BY <1>1 DEF Matches, IsMatch

(* Entries of codes that are taken say nothing of a fresh one. *)
LEMMA FreshMatches ==
  ASSUME Booked, NEW u \in Wallets, NEW k, NEW t, ~Taken(t.code)
  PROVE  Matches(ledger[u], k, t) = {}
BY DEF Booked, Matches

(* A commit books a transaction with the payer and the payee at once, and    *)
(* touches no other transaction's entries.                                   *)
LEMMA CommitBooks ==
  ASSUME TypeOK, Safe, Booked, NEW w \in Threads, NEW c \in Codes, Commit(w, c)
  PROVE  Booked'
<1> DEFINE r == Row(w, c)
<1>1. /\ r.code = c /\ r.from = job[w].from /\ r.to = job[w].to
      /\ r.amount = job[w].amount
  BY DEF Row
<1>2. /\ transactions' = transactions \cup {r}
      /\ ~Taken(c)
      /\ job[w].from # job[w].to
  BY DEF Commit, Safe, JobsMakeSense
<1> HIDE DEF r
<1>3. ASSUME NEW u \in Wallets
      PROVE  /\ ledger[u] \in Seq(Entries)
             /\ u \notin Touched(w) => ledger'[u] = ledger[u]
             /\ u \in Touched(w) =>
                  /\ Entry(w, u, c) \in Entries
                  /\ ledger'[u] = Append(ledger[u], Entry(w, u, c))
                  /\ Entry(w, u, c).code = c
                  /\ Entry(w, u, c).amount = job[w].amount
                  /\ Entry(w, u, c).kind =
                       IF u = job[w].from THEN "DEBIT" ELSE "CREDIT"
  BY EntryFacts DEF TypeOK, Commit, Entry
<1>4. ASSUME NEW t \in transactions, NEW u \in Wallets, NEW k
      PROVE  Matches(ledger'[u], k, t) = Matches(ledger[u], k, t)
  <2>1. t.code # c
    BY <1>2 DEF Taken
  <2>2. CASE u \in Touched(w)
    <3> DEFINE e == Entry(w, u, c)
               l == ledger[u]
    <3>1. l \in Seq(Entries) /\ e \in Entries /\ e.code = c /\ ledger'[u] = Append(l, e)
      BY <1>3, <2>2
    <3> HIDE DEF e
    <3>2. Matches(Append(l, e), k, t) = Matches(l, k, t)
      BY <2>1, <3>1, AppendMatches DEF IsMatch
    <3> QED
      BY <3>1, <3>2
  <2> QED
    BY <1>3, <2>2
<1>5. ASSUME NEW u \in Wallets
      PROVE  /\ OneOrNone(Matches(ledger'[u], "DEBIT", r), u = r.from)
             /\ OneOrNone(Matches(ledger'[u], "CREDIT", r), u = r.to)
  <2>1. \A k : Matches(ledger[u], k, r) = {}
    BY <1>1, <1>2, FreshMatches
  <2>2. CASE u \notin Touched(w)
    <3>1. u # r.from /\ u # r.to
      BY <1>1, <2>2 DEF Touched
    <3> QED
      BY <1>3, <2>1, <2>2, <3>1 DEF OneOrNone
  <2>3. CASE u \in Touched(w)
    <3>1. ASSUME NEW k
          PROVE  Matches(ledger'[u], k, r) =
                   IF Entry(w, u, c).kind = k THEN {Len(ledger[u]) + 1} ELSE {}
      <4> DEFINE e == Entry(w, u, c)
                 l == ledger[u]
      <4>1. /\ l \in Seq(Entries) /\ e \in Entries /\ e.code = r.code
            /\ e.amount = r.amount /\ ledger'[u] = Append(l, e)
        BY <1>1, <1>3, <2>3
      <4> HIDE DEF e
      <4>2. Matches(Append(l, e), k, r) = IF e.kind = k THEN {Len(l) + 1} ELSE {}
        <5>1. Matches(l, k, r) = {} /\ (IsMatch(e, k, r) <=> e.kind = k)
          BY <2>1, <4>1 DEF IsMatch
        <5>2. CASE IsMatch(e, k, r)
          <6>1. Matches(Append(l, e), k, r) = Matches(l, k, r) \cup {Len(l) + 1}
            BY <4>1, <5>2, AppendMatches
          <6> QED
            BY <5>1, <5>2, <6>1
        <5>3. CASE ~IsMatch(e, k, r)
          <6>1. Matches(Append(l, e), k, r) = Matches(l, k, r)
            BY <4>1, <5>3, AppendMatches
          <6> QED
            BY <5>1, <5>3, <6>1
        <5> QED
          BY <5>2, <5>3
      <4> QED
        BY <4>1, <4>2 DEF e
    <3>2. u = r.from \/ u = r.to
      BY <1>1, <2>3 DEF Touched
    <3> QED
      BY <1>1, <1>2, <1>3, <2>3, <3>1, <3>2 DEF OneOrNone
  <2> QED
    BY <2>2, <2>3
<1>6. ASSUME NEW u \in Wallets, NEW i \in DOMAIN ledger'[u]
      PROVE  \E t \in transactions' : t.code = ledger'[u][i].code
  <2>1. CASE u \notin Touched(w) \/ i \in DOMAIN ledger[u]
    <3>1. i \in DOMAIN ledger[u] /\ ledger'[u][i] = ledger[u][i]
      BY <1>3, <1>6, <2>1
    <3> QED
      BY <1>2, <3>1 DEF Booked, Taken
  <2>2. CASE u \in Touched(w) /\ i \notin DOMAIN ledger[u]
    <3>1. ledger'[u][i].code = c
      BY <1>3, <1>6, <2>2
    <3> QED
      BY <1>1, <1>2, <3>1
  <2> QED
    BY <2>1, <2>2
<1>7. ASSUME NEW t \in transactions', NEW u \in Wallets
      PROVE  /\ OneOrNone(Matches(ledger'[u], "DEBIT", t), u = t.from)
             /\ OneOrNone(Matches(ledger'[u], "CREDIT", t), u = t.to)
  <2>1. CASE t = r
    BY <1>5, <2>1
  <2>2. CASE t \in transactions
    <3>1. /\ OneOrNone(Matches(ledger[u], "DEBIT", t), u = t.from)
          /\ OneOrNone(Matches(ledger[u], "CREDIT", t), u = t.to)
      BY <2>2 DEF Booked
    <3> QED
      BY <1>4, <2>2, <3>1
  <2> QED
    BY <1>2, <2>1, <2>2
<1>8. \A u \in Wallets : \A i \in DOMAIN ledger'[u] : Taken(ledger[u][i].code)'
  BY <1>6 DEF Taken
<1> QED
  BY <1>7, <1>8 DEF Booked

(* The two sides of every transaction are booked, once each, for any number  *)
(* of transfers, payments and deposits (TransactionService.transfer).        *)
THEOREM BothSidesBooked == Spec => []BooksAgree
<1>1. Init => Booked
  BY DEF Init, Booked, Matches
<1>2. IInv /\ Booked /\ [Next]_vars => Booked'
  <2> SUFFICES ASSUME TypeOK, Safe, Booked, [Next]_vars PROVE Booked'
    BY DEF IInv, Safe
  <2>1. ASSUME NEW w \in Threads, NEW c \in Codes, Commit(w, c) PROVE Booked'
    BY <2>1, CommitBooks
  <2>2. ASSUME UNCHANGED <<ledger, transactions>> PROVE Booked'
    BY <2>2 DEF Booked, Taken
  <2> QED
    BY <2>1, <2>2 DEF Next, Request, Settle, ToggleFreeze, RequestTransfer, RequestPayment,
                RequestCredit, CheckReceiver, LockNext, RollBack, Abort, vars, tableVars
<1>3. Booked => BooksAgree
  BY BookedAgrees
<1> QED
  BY <1>1, <1>2, <1>3, Inductive, PTL DEF Spec
-----------------------------------------------------------------------------
(* Money. *)

(* An amount is an integer, and so is the nothing of a thread without a job. *)
LEMMA AmountIsInteger == \A a \in Amounts \cup {0} : a \in Int
  OBVIOUS

(* Movements whose other party is outside the system.                        *)
Incoming == {t \in transactions : t.from = None}
Outgoing == {t \in transactions : t.to = None}

(* MoneyConserved with what it needs to be inductive: a sum over an infinite *)
(* set would have no value.                                                  *)
Conserved == IsFiniteSet(transactions) /\ MoneyConserved

(* The rows of both kinds are worth an integer.                              *)
LEMMA RowsAreFinite ==
  ASSUME TypeOK, IsFiniteSet(transactions)
  PROVE  /\ IsFiniteSet(Incoming) /\ IsFiniteSet(Outgoing)
         /\ \A t \in Incoming \cup Outgoing : t.amount \in Int
         /\ Worth(Incoming) \in Int /\ Worth(Outgoing) \in Int
<1>1. Incoming \subseteq transactions /\ Outgoing \subseteq transactions
  BY DEF Incoming, Outgoing
<1>2. \A t \in transactions : t.amount \in Int
  <2>1. \A t \in transactions : t.amount \in Amounts
    BY DEF TypeOK, Rows
  <2> QED
    BY <2>1, AmountIsInteger
<1>3. IsFiniteSet(Incoming) /\ IsFiniteSet(Outgoing)
  BY <1>1, FS_Subset
<1>4. \A t \in Incoming \cup Outgoing : t.amount \in Int
  BY <1>1, <1>2
<1> QED
  BY <1>3, <1>4, WorthIsInteger

(* What the payer pays and the payee receives, counted over all wallets.     *)
LEMMA CommitTotal ==
  ASSUME TypeOK, Safe, NEW w \in Threads, NEW c \in Codes, Commit(w, c)
  PROVE  SumOf(balance', Wallets) =
           (SumOf(balance, Wallets) - (IF job[w].from = None THEN 0 ELSE job[w].amount))
             + (IF job[w].to = None THEN 0 ELSE job[w].amount)
<1> DEFINE j == job[w]
           paid == [u \in Wallets |-> balance[u] - PaidBy(u, j)]
           after == balance'
           minus == -j.amount
<1>1. j.from \in Wallets \cup {None} /\ j.to \in Wallets \cup {None} /\ j.amount \in Int
  BY AmountIsInteger DEF TypeOK, Jobs, Parties
<1>2. \A u \in Wallets : after[u] = (balance[u] - PaidBy(u, j)) + ReceivedBy(u, j)
  BY CommitChanges
<1> HIDE DEF j, after
<1>3. \A u \in Wallets : balance[u] \in Int
  BY DEF TypeOK
<1>4. minus \in Int
  BY <1>1
<1>5. Shifts(balance, paid, Wallets, j.from, minus)
  BY <1>1, <1>3 DEF PaidBy, Shifts
<1>6. \A u \in Wallets : paid[u] = balance[u] - PaidBy(u, j)
  OBVIOUS
<1>7. \A u \in Wallets : paid[u] \in Int
  BY <1>1, <1>3, <1>6 DEF PaidBy
<1> HIDE DEF paid
<1>8. Shifts(paid, after, Wallets, j.to, j.amount)
  BY <1>1, <1>2, <1>6, <1>7 DEF ReceivedBy, Shifts
<1> HIDE DEF minus
<1>9. SumOf(paid, Wallets) = IF j.from \in Wallets THEN SumOf(balance, Wallets) + minus
                                                  ELSE SumOf(balance, Wallets)
  BY <1>4, <1>5, SumShifted
<1>10. SumOf(after, Wallets) = IF j.to \in Wallets THEN SumOf(paid, Wallets) + j.amount
                                                  ELSE SumOf(paid, Wallets)
  BY <1>1, <1>8, SumShifted
<1>11. SumOf(balance, Wallets) \in Int
  BY <1>3, SumIsInteger
<1>12. SumOf(after, Wallets) = (SumOf(balance, Wallets) - (IF j.from = None THEN 0 ELSE j.amount))
                                + (IF j.to = None THEN 0 ELSE j.amount)
  BY <1>1, <1>9, <1>10, <1>11 DEF minus
<1> QED
  BY <1>12 DEF j, after

(* A movement from outside is Incoming, one to outside Outgoing, and any     *)
(* other leaves the total alone.                                             *)
LEMMA CommitConserves ==
  ASSUME TypeOK, Safe, Conserved, NEW w \in Threads, NEW c \in Codes, Commit(w, c)
  PROVE  Conserved'
<1> DEFINE r == Row(w, c)
           a == job[w].amount
<1>1. /\ transactions' = transactions \cup {r} /\ r \notin transactions
      /\ r.from = job[w].from /\ r.to = job[w].to /\ r.amount = a
      /\ a \in Int /\ IsFiniteSet(transactions)
  <2>1. transactions' = transactions \cup {r} /\ r \notin transactions
    BY DEF Commit, Row, Taken
  <2>2. a \in Int
    BY AmountIsInteger DEF TypeOK, Jobs
  <2> QED
    BY <2>1, <2>2 DEF Row, Conserved
<1> HIDE DEF r, a
<1>2. IsFiniteSet(transactions')
  BY <1>1, FS_AddElement
<1>3. Worth(Incoming') = Worth(Incoming) + (IF job[w].from = None THEN a ELSE 0)
  <2>1. CASE job[w].from = None
    <3>1. Incoming' = Incoming \cup {r} /\ r \notin Incoming
      BY <1>1, <2>1 DEF Incoming
    <3>2. \A t \in Incoming \cup {r} : t.amount \in Int
      BY <1>1, RowsAreFinite
    <3>3. Worth(Incoming \cup {r}) = Worth(Incoming) + r.amount
      BY <1>1, <3>1, <3>2, RowsAreFinite, WorthWith
    <3> QED
      BY <1>1, <2>1, <3>1, <3>3
  <2>2. CASE job[w].from # None
    <3>1. Incoming' = Incoming
      BY <1>1, <2>2 DEF Incoming
    <3> QED
      BY <1>1, <2>2, <3>1, RowsAreFinite
  <2> QED
    BY <2>1, <2>2
<1>4. Worth(Outgoing') = Worth(Outgoing) + (IF job[w].to = None THEN a ELSE 0)
  <2>1. CASE job[w].to = None
    <3>1. Outgoing' = Outgoing \cup {r} /\ r \notin Outgoing
      BY <1>1, <2>1 DEF Outgoing
    <3>2. \A t \in Outgoing \cup {r} : t.amount \in Int
      BY <1>1, RowsAreFinite
    <3>3. Worth(Outgoing \cup {r}) = Worth(Outgoing) + r.amount
      BY <1>1, <3>1, <3>2, RowsAreFinite, WorthWith
    <3> QED
      BY <1>1, <2>1, <3>1, <3>3
  <2>2. CASE job[w].to # None
    <3>1. Outgoing' = Outgoing
      BY <1>1, <2>2 DEF Outgoing
    <3> QED
      BY <1>1, <2>2, <3>1, RowsAreFinite
  <2> QED
    BY <2>1, <2>2
<1>5. SumOf(balance', Wallets) =
        (SumOf(balance, Wallets) - (IF job[w].from = None THEN 0 ELSE a))
          + (IF job[w].to = None THEN 0 ELSE a)
  BY CommitTotal DEF a
<1>6. SumOf(balance, Wallets) + Worth(Outgoing) = SumOf(Opening, Wallets) + Worth(Incoming)
  BY DEF Conserved, MoneyConserved, Incoming, Outgoing
<1>7. /\ SumOf(balance, Wallets) \in Int /\ SumOf(Opening, Wallets) \in Int
      /\ Worth(Incoming) \in Int /\ Worth(Outgoing) \in Int
  <2>1. \A u \in Wallets : balance[u] \in Int /\ Opening[u] \in Int
    BY DEF TypeOK
  <2> QED
    BY <1>1, <2>1, SumIsInteger, RowsAreFinite
<1>8. SumOf(balance', Wallets) + Worth(Outgoing') = SumOf(Opening, Wallets) + Worth(Incoming')
  BY <1>1, <1>3, <1>4, <1>5, <1>6, <1>7
<1> QED
  BY <1>2, <1>8 DEF Conserved, MoneyConserved, Incoming, Outgoing

(* Whatever is transferred, paid and deposited at once: the wallets together *)
(* hold what they opened with, plus what came in, minus what went out.       *)
THEOREM MoneyIsConserved == Spec => []MoneyConserved
<1>1. Init => Conserved
  <2> SUFFICES ASSUME Init PROVE Conserved
    OBVIOUS
  <2>1. transactions = {} /\ balance = Opening
    BY DEF Init
  <2>2. /\ {t \in transactions : t.to = None} = {}
        /\ {t \in transactions : t.from = None} = {}
    BY <2>1
  <2> QED
    BY <2>1, <2>2, FS_EmptySet DEF Conserved, MoneyConserved
<1>2. IInv /\ Conserved /\ [Next]_vars => Conserved'
  <2> SUFFICES ASSUME TypeOK, Safe, Conserved, [Next]_vars PROVE Conserved'
    BY DEF IInv, Safe
  <2>1. ASSUME NEW w \in Threads, NEW c \in Codes, Commit(w, c) PROVE Conserved'
    BY <2>1, CommitConserves
  <2>2. ASSUME UNCHANGED <<balance, transactions>> PROVE Conserved'
    BY <2>2 DEF Conserved, MoneyConserved
  <2> QED
    BY <2>1, <2>2 DEF Next, Request, Settle, ToggleFreeze, RequestTransfer, RequestPayment,
                RequestCredit, CheckReceiver, LockNext, RollBack, Abort, vars, tableVars
<1>3. Conserved => MoneyConserved
  BY DEF Conserved
<1> QED
  BY <1>1, <1>2, <1>3, Inductive, PTL DEF Spec
=============================================================================
