---------------------------- MODULE DepositProofs ----------------------------
(***************************************************************************)
(* Proofs about Deposit for any number of deposits, wallets, processes,    *)
(* callbacks and recoverers.                                               *)
(***************************************************************************)
EXTENDS Deposit, SumTheorems

(* What a worker leaves behind when it returns: itself idle, everyone else  *)
(* untouched, and its locks free.                                           *)
LEMMA ReturnFacts ==
  ASSUME TypeOK, NEW w \in Workers, Return(w)
  PROVE  /\ pc' \in [Workers -> Pcs]
         /\ dep' \in [Workers -> Deposits \cup {None}]
         /\ answer' \in [Workers -> Answers \cup {None}]
         /\ seen' \in [Workers -> Nat]
         /\ rowLock' \in [Deposits -> Workers \cup {None}]
         /\ walletLock' \in [Wallets -> Workers \cup {None}]
         /\ advisory' \in [Deposits -> Recoverers \cup {None}]
         /\ stranded' \in SUBSET Deposits /\ lost' \in SUBSET Recoverers
         /\ pc'[w] = "idle" /\ dep'[w] = None /\ answer'[w] = None /\ seen'[w] = 0
         /\ \A v \in Workers \ {w} : /\ pc'[v] = pc[v] /\ dep'[v] = dep[v]
                                     /\ answer'[v] = answer[v] /\ seen'[v] = seen[v]
         /\ \A d \in Deposits :
              /\ rowLock'[d] = IF rowLock[d] = w THEN None ELSE rowLock[d]
              /\ advisory'[d] = IF advisory[d] = w THEN None ELSE advisory[d]
         /\ lost' = lost \ {w}
         /\ \A u \in Wallets :
              walletLock'[u] = IF walletLock[u] = w THEN None ELSE walletLock[u]
<1>1. /\ pc' \in [Workers -> Pcs] /\ pc'[w] = "idle"
      /\ \A v \in Workers \ {w} : pc'[v] = pc[v]
  BY DEF TypeOK, Return, Pcs, HandlerPcs
<1>2. /\ dep' \in [Workers -> Deposits \cup {None}] /\ dep'[w] = None
      /\ \A v \in Workers \ {w} : dep'[v] = dep[v]
  BY DEF TypeOK, Return
<1>3. /\ answer' \in [Workers -> Answers \cup {None}] /\ answer'[w] = None
      /\ \A v \in Workers \ {w} : answer'[v] = answer[v]
  BY DEF TypeOK, Return
<1>4. /\ seen' \in [Workers -> Nat] /\ seen'[w] = 0
      /\ \A v \in Workers \ {w} : seen'[v] = seen[v]
  BY DEF TypeOK, Return
<1>5. /\ rowLock' \in [Deposits -> Workers \cup {None}]
      /\ \A d \in Deposits :
            rowLock'[d] = IF rowLock[d] = w THEN None ELSE rowLock[d]
  BY DEF TypeOK, Return, Freed
<1>6. /\ walletLock' \in [Wallets -> Workers \cup {None}]
      /\ \A u \in Wallets :
            walletLock'[u] = IF walletLock[u] = w THEN None ELSE walletLock[u]
  BY DEF TypeOK, Return, Freed
<1>7. /\ advisory' \in [Deposits -> Recoverers \cup {None}]
      /\ \A d \in Deposits :
            advisory'[d] = IF advisory[d] = w THEN None ELSE advisory[d]
  BY DEF TypeOK, Return, Unlock, Freed
<1>8. stranded' \in SUBSET Deposits
  BY DEF TypeOK, Return, Unlock
<1>9. lost' = lost \ {w} /\ lost' \in SUBSET Recoverers
  BY DEF TypeOK, Return, Unlock
<1> QED BY <1>1, <1>2, <1>3, <1>4, <1>5, <1>6, <1>7, <1>8, <1>9

(* A worker's own types after it returned. *)
LEMMA ReturnWorkerTypes ==
  ASSUME TypeOK, NEW w \in Workers, Return(w)
  PROVE  /\ \A h \in Handlers : pc'[h] \in HandlerPcs
         /\ \A r \in Recoverers : pc'[r] \in RecovererPcs
         /\ \A v \in Workers : dep'[v] = None <=> pc'[v] = "idle"
<1>1. \A v \in Workers : IF v = w THEN pc'[v] = "idle" /\ dep'[v] = None
                                  ELSE pc'[v] = pc[v] /\ dep'[v] = dep[v]
  BY ReturnFacts
<1> QED BY <1>1 DEF TypeOK, HandlerPcs, RecovererPcs, Workers
-----------------------------------------------------------------------------
(* Type correctness. *)

(* An opening balance is a natural number. *)
LEMMA OpeningsNat == Openings \subseteq Nat
BY BoundsAssumption

LEMMA TypeInit == Init => TypeOK
<1> SUFFICES ASSUME Init PROVE TypeOK
  OBVIOUS
<1>1. opening \in [Wallets -> Openings] /\ balance \in [Wallets -> Nat]
  BY OpeningsNat DEF Init
<1>2. stranded \in SUBSET Deposits /\ lost \in SUBSET Recoverers
  BY DEF Init
<1> QED
  BY <1>1, <1>2, NoneAssumption
     DEF Init, TypeOK, Statuses, Pcs, HandlerPcs, RecovererPcs, Workers, PushStates, Payments

(* The steps of initiate_deposit and of the environment touch no worker. *)
LEMMA TypeRequest ==
  ASSUME TypeOK, NEW d \in Deposits, Initiate(d) \/ Environment(d)
  PROVE  TypeOK'
<1> USE DEF TypeOK, rowVars, moneyVars, lockVars, advisoryVars, workVars
<1>1. CASE RequestDeposit(d)
  BY <1>1 DEF RequestDeposit, PushStates
<1>2. CASE PushAccepted(d)
  BY <1>2 DEF PushAccepted, PushStates
<1>3. CASE PushRefused(d)
  BY <1>3 DEF PushRefused, PushStates
<1>4. CASE PersistPending(d)
  BY <1>4 DEF PersistPending, PushStates, Statuses, Recoverable
<1>5. CASE PersistFailedAttempt(d)
  BY <1>5 DEF PersistFailedAttempt, PushStates, Statuses, Terminal
<1>6. CASE RequestLost(d)
  BY <1>6 DEF RequestLost, PushStates
<1>7. CASE DarajaAccepts(d)
  BY <1>7 DEF DarajaAccepts, Payments
<1>8. CASE CustomerDecides(d)
  BY <1>8 DEF CustomerDecides, Payments
<1>9. CASE BackoffElapses(d)
  BY <1>9 DEF BackoffElapses, envVars
<1>10. CASE CallbackUnknown(d)
  BY <1>10 DEF CallbackUnknown
<1>11. CASE LockSessionEnds(d)
  BY <1>11 DEF LockSessionEnds, envVars
<1> QED
  BY <1>1, <1>2, <1>3, <1>4, <1>5, <1>6, <1>7, <1>8, <1>9, <1>10, <1>11 DEF Initiate, Environment

(* A worker returns after it changed at most the columns it may change. *)
LEMMA TypeReturn ==
  ASSUME TypeOK, NEW w \in Workers, Return(w),
         UNCHANGED <<opening, matched, envVars>>,
         status' \in [Deposits -> Statuses], attempts' \in [Deposits -> Nat],
         cooling' \in SUBSET Deposits, balance' \in [Wallets -> Nat],
         ledger' \in SUBSET [ref : Deposits, wallet : Wallets, amount : Nat,
                             before : Nat, after : Nat]
  PROVE  TypeOK'
BY ReturnFacts, ReturnWorkerTypes DEF TypeOK, envVars

(* A worker goes from one place to the next. *)
LEMMA TypeGoto ==
  ASSUME TypeOK, NEW w \in Workers, NEW l \in Pcs \ {"idle"}, Goto(w, l),
         pc[w] # "idle",
         w \in Handlers => l \in HandlerPcs, w \in Recoverers => l \in RecovererPcs,
         UNCHANGED <<rowVars, moneyVars, dep, envVars>>,
         rowLock' \in [Deposits -> Workers \cup {None}],
         walletLock' \in [Wallets -> Workers \cup {None}],
         advisory' \in [Deposits -> Recoverers \cup {None}],
         stranded' \in SUBSET Deposits, lost' \in SUBSET Recoverers,
         answer' \in [Workers -> Answers \cup {None}], seen' \in [Workers -> Nat]
  PROVE  TypeOK'
<1>1. pc' \in [Workers -> Pcs] /\ \A v \in Workers : pc'[v] = IF v = w THEN l ELSE pc[v]
  BY DEF TypeOK, Goto
<1>2. /\ \A h \in Handlers : pc'[h] \in HandlerPcs
      /\ \A r \in Recoverers : pc'[r] \in RecovererPcs
      /\ \A v \in Workers : dep'[v] = None <=> pc'[v] = "idle"
  BY <1>1 DEF TypeOK, Workers
<1> QED BY <1>1, <1>2 DEF TypeOK, rowVars, moneyVars, envVars

LEMMA TypeHandle ==
  ASSUME TypeOK, NEW h \in Handlers, Handle(h)
  PROVE  TypeOK'
<1>w. h \in Workers
  BY DEF Workers
<1>1. ASSUME NEW d \in Deposits, CallbackArrives(h, d)
      PROVE  TypeOK'
  <2>1. PICK l \in {"waiting", "query"} : Goto(h, l)
    BY <1>1 DEF CallbackArrives
  <2>2. /\ pc' \in [Workers -> Pcs]
        /\ \A v \in Workers : pc'[v] = IF v = h THEN l ELSE pc[v]
    BY <2>1, <1>w DEF TypeOK, Goto, Pcs, HandlerPcs
  <2>3. /\ dep' \in [Workers -> Deposits \cup {None}]
        /\ \A v \in Workers : dep'[v] = IF v = h THEN d ELSE dep[v]
    BY <1>1, <1>w DEF TypeOK, CallbackArrives
  <2>4. /\ \A g \in Handlers : pc'[g] \in HandlerPcs
        /\ \A r \in Recoverers : pc'[r] \in RecovererPcs
        /\ \A v \in Workers : dep'[v] = None <=> pc'[v] = "idle"
    BY <2>2, <2>3, WorkersAssumption, NoneAssumption DEF TypeOK, Workers, HandlerPcs
  <2>5. notified' \in [Deposits -> Nat]
    BY <1>1 DEF TypeOK, CallbackArrives
  <2> QED
    BY <1>1, <2>2, <2>3, <2>4, <2>5
       DEF TypeOK, CallbackArrives, rowVars, moneyVars, lockVars, advisoryVars
<1>2. CASE CallbackReturnsLatest(h)
  BY <1>2, <1>w, TypeReturn DEF CallbackReturnsLatest, TypeOK, rowVars, moneyVars, envVars
<1>3. CASE AmountMismatch(h)
  <2>1. dep[h] \in Deposits
    BY <1>3, <1>w DEF AmountMismatch, Deciding, TypeOK
  <2> QED
    BY <1>3, <1>w, <2>1, TypeReturn
       DEF AmountMismatch, SetStatus, RecordAttempt, TypeOK, moneyVars, Statuses, Recoverable
<1> QED BY <1>1, <1>2, <1>3 DEF Handle

LEMMA TypeRecover ==
  ASSUME TypeOK, NEW r \in Recoverers, Recover(r)
  PROVE  TypeOK'
<1>w. r \in Workers /\ r \notin Handlers
  BY WorkersAssumption DEF Workers
<1>1. ASSUME NEW d \in Deposits, Select(r, d)
      PROVE  TypeOK'
  <2>2. /\ pc' \in [Workers -> Pcs]
        /\ \A v \in Workers : pc'[v] = IF v = r THEN "meta" ELSE pc[v]
    BY <1>1, <1>w DEF TypeOK, Goto, Pcs, RecovererPcs, Select
  <2>3. /\ dep' \in [Workers -> Deposits \cup {None}]
        /\ \A v \in Workers : dep'[v] = IF v = r THEN d ELSE dep[v]
    BY <1>1, <1>w DEF TypeOK, Select
  <2>4. /\ \A g \in Handlers : pc'[g] \in HandlerPcs
        /\ \A q \in Recoverers : pc'[q] \in RecovererPcs
        /\ \A v \in Workers : dep'[v] = None <=> pc'[v] = "idle"
    BY <2>2, <2>3, <1>w, NoneAssumption DEF TypeOK, Workers, RecovererPcs
  <2> QED
    BY <1>1, <2>2, <2>3, <2>4
       DEF TypeOK, Select, rowVars, moneyVars, lockVars, advisoryVars, envVars
<1>2. CASE ReadMeta(r)
  <2>1. CASE Return(r)
    BY <1>2, <2>1, <1>w, TypeReturn DEF ReadMeta, TypeOK, rowVars, moneyVars, envVars
  <2>2. CASE /\ \E l \in {"review", "tryLock"} : Goto(r, l)
             /\ UNCHANGED <<dep, answer, seen, lockVars>>
    BY <1>2, <2>2, <1>w, TypeGoto
       DEF ReadMeta, TypeOK, lockVars, advisoryVars, Pcs, RecovererPcs
  <2> QED BY <1>2, <2>1, <2>2 DEF ReadMeta
<1>3. CASE TryAdvisoryLock(r)
  <2>1. CASE Return(r)
    BY <1>3, <2>1, <1>w, TypeReturn DEF TryAdvisoryLock, TypeOK, rowVars, moneyVars, envVars
  <2>2. CASE ~Return(r)
    BY <1>3, <2>2, <1>w, TypeGoto DEF TryAdvisoryLock, TypeOK, Pcs, RecovererPcs
  <2> QED BY <2>1, <2>2
<1>4. CASE HoldForReview(r)
  BY <1>4, <1>w, TypeReturn
     DEF HoldForReview, SetStatus, TypeOK, moneyVars, Statuses, Terminal
<1>5. CASE ReadMetaFails(r)
  <2>1. PICK l \in {"review", "tryLock"} : Goto(r, l)
    BY <1>5 DEF ReadMetaFails
  <2>2. /\ pc' \in [Workers -> Pcs]
        /\ \A v \in Workers : pc'[v] = IF v = r THEN l ELSE pc[v]
    BY <2>1, <1>w DEF TypeOK, Goto, Pcs, RecovererPcs
  <2>3. /\ \A h \in Handlers : pc'[h] \in HandlerPcs
        /\ \A q \in Recoverers : pc'[q] \in RecovererPcs
        /\ \A v \in Workers : dep[v] = None <=> pc'[v] = "idle"
    BY <1>5, <2>2, <1>w DEF ReadMetaFails, TypeOK, Workers, RecovererPcs
  <2>4. unread' \in [Deposits -> Nat]
    BY <1>5, <1>w DEF ReadMetaFails, TypeOK
  <2> QED
    BY <1>5, <2>2, <2>3, <2>4
       DEF ReadMetaFails, TypeOK, rowVars, moneyVars, lockVars, advisoryVars
<1> QED BY <1>1, <1>2, <1>3, <1>4, <1>5 DEF Recover

LEMMA TypeWork ==
  ASSUME TypeOK, NEW w \in Workers, Work(w)
  PROVE  TypeOK'
<1>1. ASSUME NEW a \in Answers, QueryReturns(w, a)
      PROVE  TypeOK'
  <2>1. CASE Return(w)
    BY <1>1, <2>1, TypeReturn DEF QueryReturns, TypeOK, rowVars, moneyVars, envVars
  <2>2. CASE ~Return(w)
    BY <1>1, <2>2, TypeGoto
       DEF QueryReturns, TypeOK, lockVars, advisoryVars, Pcs, HandlerPcs, RecovererPcs
  <2> QED BY <2>1, <2>2
<1>2. CASE LockRow(w)
  <2>1. dep[w] \in Deposits /\ rowLock' \in [Deposits -> Workers \cup {None}]
    BY <1>2 DEF LockRow, TypeOK
  <2>2. CASE pc[w] = "apply"
    BY <1>2, <2>1, <2>2, TypeGoto
       DEF LockRow, advisoryVars, TypeOK, Pcs, HandlerPcs, RecovererPcs
  <2>3. CASE pc[w] = "review"
    <3>1. w \notin Handlers
      BY <2>3 DEF TypeOK, HandlerPcs
    <3> QED
      BY <1>2, <2>1, <2>3, <3>1, TypeGoto
         DEF LockRow, advisoryVars, TypeOK, Pcs, HandlerPcs, RecovererPcs
  <2> QED BY <1>2, <2>2, <2>3 DEF LockRow
<1>3. CASE SkipSettled(w)
  BY <1>3, TypeReturn DEF SkipSettled, TypeOK, rowVars, moneyVars, envVars
<1>4. CASE KeepRecoverable(w)
  <2>1. dep[w] \in Deposits
    BY <1>4 DEF KeepRecoverable, Deciding, TypeOK
  <2> QED
    BY <1>4, <2>1, TypeReturn
       DEF KeepRecoverable, SetStatus, RecordAttempt, TypeOK, moneyVars, Statuses, Recoverable
<1>5. CASE FailDeposit(w)
  <2>1. dep[w] \in Deposits
    BY <1>5 DEF FailDeposit, Deciding, TypeOK
  <2> QED
    BY <1>5, <2>1, TypeReturn
       DEF FailDeposit, SetStatus, RecordAttempt, TypeOK, moneyVars, Statuses, Terminal
<1>6. CASE LockWallet(w)
  BY <1>6, TypeGoto, OwnerAssumption
     DEF LockWallet, advisoryVars, Deciding, TypeOK, Pcs, HandlerPcs, RecovererPcs
<1>7. CASE CommitCredit(w)
  <2>1. dep[w] \in Deposits
    BY <1>7 DEF CommitCredit, TypeOK
  <2>2. Entry(dep[w], seen[w]) \in [ref : Deposits, wallet : Wallets, amount : Nat,
                                    before : Nat, after : Nat]
    BY <2>1, OwnerAssumption, AmountAssumption DEF Entry, TypeOK
  <2>3. /\ status' \in [Deposits -> Statuses]
        /\ attempts' \in [Deposits -> Nat] /\ cooling' \in SUBSET Deposits
    BY <1>7, <2>1 DEF CommitCredit, SetStatus, RecordAttempt, TypeOK, Statuses, Terminal
  <2>4. ledger' \in SUBSET [ref : Deposits, wallet : Wallets, amount : Nat,
                            before : Nat, after : Nat]
    BY <1>7, <2>2 DEF CommitCredit, TypeOK
  <2>5. balance' \in [Wallets -> Nat]
    BY <1>7, <2>1, <2>2 DEF CommitCredit, TypeOK
  <2> QED
    BY <1>7, <2>3, <2>4, <2>5, TypeReturn DEF CommitCredit
<1>8. CASE CreditRolledBack(w)
  BY <1>8, TypeReturn DEF CreditRolledBack, TypeOK, rowVars, moneyVars, envVars
<1>9. CASE Abort(w)
  BY <1>9, TypeReturn DEF Abort, TypeOK, rowVars, moneyVars, envVars
<1> QED
  BY <1>1, <1>2, <1>3, <1>4, <1>5, <1>6, <1>7, <1>8, <1>9 DEF Work

LEMMA TypeStep == TypeOK /\ [Next]_vars => TypeOK'
<1> SUFFICES ASSUME TypeOK, [Next]_vars PROVE TypeOK'
  OBVIOUS
<1>1. CASE UNCHANGED vars
  BY <1>1 DEF TypeOK, vars, rowVars, moneyVars, lockVars, advisoryVars, workVars, envVars
<1>2. CASE Next
  BY <1>2, TypeRequest, TypeHandle, TypeRecover, TypeWork DEF Next
<1> QED BY <1>1, <1>2

(* Every column, lock and program counter keeps its type. *)
THEOREM TypeCorrect == Spec => []TypeOK
<1>1. Init => TypeOK
  BY TypeInit
<1>2. TypeOK /\ [Next]_vars => TypeOK'
  BY TypeStep
<1> QED BY <1>1, <1>2, PTL DEF Spec
-----------------------------------------------------------------------------
(* The inductive invariant. *)

LEMMA InvInit == Init => IInv
<1> SUFFICES ASSUME Init PROVE IInv
  OBVIOUS
<1>1. TypeOK
  BY TypeInit
<1>2. LocksHeld /\ CreditReady /\ AnswerIsTrue /\ RowLifecycle
  BY NoneAssumption, OwnerAssumption
     DEF Init, LocksHeld, CreditReady, AnswerIsTrue, RowLifecycle
<1>3. CreditedOnce /\ OutcomeIsTrue /\ HeldIsExhausted
  BY DEF Init, CreditedOnce, OutcomeIsTrue, HeldIsExhausted, ReferenceIsFree
<1> QED BY <1>1, <1>2, <1>3 DEF IInv

(* A request's own steps: its row is new, so no worker knows it yet. *)
LEMMA InvRequest ==
  ASSUME IInv, NEW d \in Deposits, Initiate(d) \/ Environment(d)
  PROVE  IInv'
<1> USE DEF IInv
<1>1. TypeOK'
  BY TypeRequest
<1>2. UNCHANGED <<attempts, balance, ledger, rowLock, walletLock, workVars>>
  BY DEF Initiate, Environment, RequestDeposit, PushAccepted, PushRefused, PersistPending,
     PersistFailedAttempt, RequestLost, DarajaAccepts, CustomerDecides, BackoffElapses,
     CallbackUnknown, LockSessionEnds, rowVars, moneyVars, lockVars, advisoryVars
<1>3. /\ \A e \in Deposits \ {d} : status'[e] = status[e] /\ matched'[e] = matched[e]
                                 /\ payment'[e] = payment[e] /\ push'[e] = push[e]
      /\ payment[d] \in {"paid", "cancelled"} => payment'[d] = payment[d]
  BY DEF TypeOK, Initiate, Environment, RequestDeposit, PushAccepted, PushRefused,
     PersistPending, PersistFailedAttempt, RequestLost, DarajaAccepts, CustomerDecides,
     BackoffElapses, CallbackUnknown, LockSessionEnds, rowVars, envVars
<1>4. \/ status'[d] = status[d] /\ matched'[d] = matched[d] /\ (push[d] = "done" => push'[d] = "done")
      \/ /\ push[d] # "done" /\ push'[d] = "done"
         /\ \/ status'[d] = "Pending"
            \/ status'[d] = "Failed" /\ matched'[d] = matched[d]
  BY DEF TypeOK, Initiate, Environment, RequestDeposit, PushAccepted, PushRefused,
     PersistPending, PersistFailedAttempt, RequestLost, DarajaAccepts, CustomerDecides,
     BackoffElapses, CallbackUnknown, LockSessionEnds, rowVars, envVars
<1>5. LocksHeld'
  BY <1>2 DEF LocksHeld, workVars
<1>6. RowLifecycle'
  BY <1>2, <1>3, <1>4 DEF RowLifecycle, TypeOK, workVars
<1>7. AnswerIsTrue'
  <2>1. ASSUME NEW w \in Workers, answer[w] \in {"paid", "cancelled"}
        PROVE  payment'[dep[w]] = answer[w]
    <3>1. dep[w] \in Deposits
      BY <2>1, NoneAssumption DEF AnswerIsTrue, TypeOK
    <3> QED BY <2>1, <3>1, <1>3 DEF AnswerIsTrue
  <2> QED BY <2>1, <1>2 DEF AnswerIsTrue, workVars
<1>8. CreditReady'
  <2>1. ASSUME NEW w \in Workers, pc[w] = "credit"
        PROVE  status'[dep[w]] = status[dep[w]]
    <3>1. dep[w] \in Deposits /\ matched[dep[w]]
      BY <2>1 DEF RowLifecycle, TypeOK
    <3> QED BY <3>1, <1>3, <1>4 DEF RowLifecycle
  <2> QED BY <2>1, <1>2 DEF CreditReady, workVars, IsTerminal
<1>9. CreditedOnce' /\ HeldIsExhausted'
  <2>1. \A e \in Deposits : status'[e] = "Completed" <=> status[e] = "Completed"
    BY <1>3, <1>4 DEF RowLifecycle
  <2>2. \A e \in Deposits : status'[e] = "ManualReviewRequired"
                           => status[e] = "ManualReviewRequired"
    BY <1>3, <1>4
  <2> QED BY <2>1, <2>2, <1>2 DEF CreditedOnce, HeldIsExhausted, ReferenceIsFree
<1>10. OutcomeIsTrue'
  <2>1. \A e \in Deposits \ {d} : /\ status'[e] = status[e] /\ matched'[e] = matched[e]
                                 /\ payment'[e] = payment[e]
    BY <1>3
  <2>2. /\ status'[d] = "Completed" => payment'[d] = "paid"
        /\ status'[d] = "Failed" /\ matched'[d] => payment'[d] = "cancelled"
    BY <1>3, <1>4 DEF OutcomeIsTrue, RowLifecycle
  <2> QED BY <2>1, <2>2 DEF OutcomeIsTrue
<1> QED BY <1>1, <1>5, <1>6, <1>7, <1>8, <1>9, <1>10
(* A worker that returns gives up its locks and its answer; whatever it may  *)
(* have written, it wrote to a row or a wallet no other worker is about to   *)
(* credit.                                                                   *)
LEMMA InvReturn ==
  ASSUME IInv, TypeOK', NEW w \in Workers, Return(w), UNCHANGED <<matched, envVars>>,
         \A v \in Workers \ {w} : pc[v] = "credit" =>
            /\ status'[dep[v]] = status[dep[v]]
            /\ balance'[Owner[dep[v]]] = balance[Owner[dep[v]]],
         \A d \in Deposits : status[d] = "absent" <=> status'[d] = "absent"
  PROVE  LocksHeld' /\ CreditReady' /\ AnswerIsTrue' /\ RowLifecycle'
<1> USE DEF IInv
<1>1. /\ pc'[w] = "idle" /\ answer'[w] = None
      /\ \A v \in Workers \ {w} : /\ pc'[v] = pc[v] /\ dep'[v] = dep[v]
                                  /\ answer'[v] = answer[v] /\ seen'[v] = seen[v]
      /\ \A d \in Deposits : rowLock'[d] = IF rowLock[d] = w THEN None ELSE rowLock[d]
      /\ \A u \in Wallets : walletLock'[u] = IF walletLock[u] = w THEN None ELSE walletLock[u]
  BY ReturnFacts
<1>2. LocksHeld'
  BY <1>1, NoneAssumption DEF LocksHeld
<1>3. CreditReady'
  BY <1>1 DEF CreditReady, IsTerminal
<1>4. AnswerIsTrue'
  <2>1. None \notin {"paid", "cancelled"}
    BY NoneAssumption
  <2>2. \A v \in Workers \ {w} : /\ pc'[v] = "idle" => answer'[v] = None
                                /\ answer'[v] \in {"paid", "cancelled"}
                                      => payment'[dep'[v]] = answer'[v]
    BY <1>1 DEF AnswerIsTrue, envVars
  <2> QED BY <1>1, <2>1, <2>2 DEF AnswerIsTrue
<1>5. RowLifecycle'
  BY <1>1 DEF RowLifecycle, envVars
<1> QED BY <1>2, <1>3, <1>4, <1>5

(* Nothing is written: the facts about rows and money stay as they are.      *)
LEMMA InvReturnOnly ==
  ASSUME IInv, TypeOK', NEW w \in Workers, Return(w), UNCHANGED <<rowVars, moneyVars, envVars>>
  PROVE  IInv'
<1>1. LocksHeld' /\ CreditReady' /\ AnswerIsTrue' /\ RowLifecycle'
  BY InvReturn DEF rowVars, moneyVars
<1>2. CreditedOnce' /\ OutcomeIsTrue' /\ HeldIsExhausted'
  BY DEF IInv, CreditedOnce, OutcomeIsTrue, HeldIsExhausted, ReferenceIsFree,
     rowVars, moneyVars, envVars
<1> QED BY <1>1, <1>2 DEF IInv

(* Two workers never hold the same row, nor credit the same wallet.          *)
LEMMA Apart ==
  ASSUME IInv, NEW v \in Workers, NEW w \in Workers, v # w
  PROVE  /\ {pc[v], pc[w]} \subseteq {"decide", "hold", "credit"} => dep[v] # dep[w]
         /\ pc[v] = "credit" /\ pc[w] = "credit" => Owner[dep[v]] # Owner[dep[w]]
<1>1. ASSUME {pc[v], pc[w]} \subseteq {"decide", "hold", "credit"}
      PROVE  dep[v] # dep[w]
  <2>1. dep[v] \in Deposits /\ dep[w] \in Deposits
    BY <1>1 DEF IInv, TypeOK
  <2> QED BY <1>1, <2>1 DEF IInv, LocksHeld
<1>2. ASSUME pc[v] = "credit", pc[w] = "credit"
      PROVE  Owner[dep[v]] # Owner[dep[w]]
  <2>1. Owner[dep[v]] \in Wallets /\ Owner[dep[w]] \in Wallets
    BY <1>2, OwnerAssumption DEF IInv, TypeOK
  <2> QED BY <1>2, <2>1 DEF IInv, LocksHeld
<1> QED BY <1>1, <1>2

(* A worker that holds an open row gives it a status, counts at most an      *)
(* attempt and returns; no money moves.                                      *)
LEMMA InvSettle ==
  ASSUME IInv, TypeOK', NEW w \in Workers, NEW s \in Statuses,
         pc[w] \in {"decide", "hold"}, ~IsTerminal(dep[w]),
         SetStatus(dep[w], s), Return(w), UNCHANGED <<matched, moneyVars, envVars>>,
         \A d \in Deposits : attempts'[d] >= attempts[d],
         s \in {"ReconciliationPending", "Failed", "ManualReviewRequired"},
         s = "Failed" => payment[dep[w]] = "cancelled",
         s = "ManualReviewRequired" => attempts[dep[w]] >= MaxAttempts
  PROVE  IInv'
<1> USE DEF IInv
<1>d. dep[w] \in Deposits /\ matched[dep[w]] /\ status[dep[w]] # "absent"
  BY DEF TypeOK, RowLifecycle
<1>s. \A d \in Deposits : status'[d] = IF d = dep[w] THEN s ELSE status[d]
  BY DEF SetStatus, TypeOK
<1>1. LocksHeld' /\ CreditReady' /\ AnswerIsTrue' /\ RowLifecycle'
  <2>1. ASSUME NEW v \in Workers \ {w}, pc[v] = "credit"
        PROVE  /\ status'[dep[v]] = status[dep[v]]
               /\ balance'[Owner[dep[v]]] = balance[Owner[dep[v]]]
    <3>1. dep[v] # dep[w]
      BY <2>1, Apart
    <3>2. dep[v] \in Deposits
      BY <2>1 DEF TypeOK
    <3> QED BY <3>1, <3>2, <1>s DEF moneyVars
  <2>2. \A d \in Deposits : status[d] = "absent" <=> status'[d] = "absent"
    BY <1>d, <1>s
  <2> QED BY <2>1, <2>2, InvReturn
<1>2. CreditedOnce'
  BY <1>d, <1>s DEF CreditedOnce, ReferenceIsFree, IsTerminal, Terminal, moneyVars
<1>3. OutcomeIsTrue'
  BY <1>d, <1>s DEF OutcomeIsTrue, envVars
<1>4. HeldIsExhausted'
  <2>1. ReferenceIsFree(dep[w])
    BY <1>d DEF CreditedOnce, IsTerminal, Terminal
  <2>2. ASSUME NEW d \in Deposits, status'[d] = "ManualReviewRequired"
        PROVE  attempts'[d] >= MaxAttempts /\ ReferenceIsFree(d)
    <3>1. attempts[d] >= MaxAttempts /\ ReferenceIsFree(d)
      BY <2>1, <2>2, <1>s DEF HeldIsExhausted
    <3>2. attempts[d] \in Nat /\ attempts'[d] \in Nat /\ attempts'[d] >= attempts[d]
      BY DEF TypeOK
    <3> QED BY <3>1, <3>2, BoundsAssumption
  <2> QED BY <2>2 DEF HeldIsExhausted, ReferenceIsFree, moneyVars
<1> QED BY <1>1, <1>2, <1>3, <1>4

(* The one step that moves money. *)
LEMMA InvCommitCredit ==
  ASSUME IInv, TypeOK', NEW w \in Workers, CommitCredit(w)
  PROVE  IInv'
<1> USE DEF IInv
<1> DEFINE d == dep[w]
           u == Owner[d]
           entry == Entry(d, seen[w])
<1>d. d \in Deposits /\ u \in Wallets /\ ~IsTerminal(d) /\ payment[d] = "paid"
  BY OwnerAssumption DEF TypeOK, CommitCredit, CreditReady, AnswerIsTrue
<1>a. status[d] # "absent"
  BY <1>d DEF CommitCredit, RowLifecycle
<1>s. /\ \A e \in Deposits : status'[e] = IF e = d THEN "Completed" ELSE status[e]
      /\ \A x \in Wallets : x # u => balance'[x] = balance[x]
      /\ ledger' = ledger \cup {entry}
      /\ Return(w) /\ UNCHANGED <<matched, envVars>>
      /\ \A e \in Deposits : attempts'[e] >= attempts[e]
  BY <1>d DEF CommitCredit, SetStatus, RecordAttempt, TypeOK
<1>1. LocksHeld' /\ CreditReady' /\ AnswerIsTrue' /\ RowLifecycle'
  <2>1. ASSUME NEW v \in Workers \ {w}, pc[v] = "credit"
        PROVE  /\ status'[dep[v]] = status[dep[v]]
               /\ balance'[Owner[dep[v]]] = balance[Owner[dep[v]]]
    <3>1. dep[v] # d /\ Owner[dep[v]] # u
      BY <2>1, Apart DEF CommitCredit
    <3>2. dep[v] \in Deposits /\ Owner[dep[v]] \in Wallets
      BY <2>1, OwnerAssumption DEF TypeOK
    <3> QED BY <3>1, <3>2, <1>s
  <2>2. \A e \in Deposits : status[e] = "absent" <=> status'[e] = "absent"
    BY <1>a, <1>s
  <2> QED BY <2>1, <2>2, <1>s, InvReturn
<1>2. CreditedOnce'
  <2>1. entry.ref = d /\ entry.wallet = u /\ entry.after = entry.before + Amount[d]
    BY DEF Entry
  <2>2. ReferenceIsFree(d)
    BY DEF CommitCredit
  <2>3. \A e, f \in ledger' : e.ref = f.ref => e = f
    BY <1>s, <2>1, <2>2 DEF CreditedOnce, ReferenceIsFree
  <2>4. \A e \in Deposits : status'[e] = "Completed" <=> \E f \in ledger' : f.ref = e
    BY <1>s, <2>1 DEF CreditedOnce, ReferenceIsFree
  <2>5. \A e \in ledger' : e.wallet = Owner[e.ref] /\ e.after = e.before + Amount[e.ref]
    BY <1>s, <2>1 DEF CreditedOnce
  <2> QED BY <2>3, <2>4, <2>5 DEF CreditedOnce, ReferenceIsFree
<1>3. OutcomeIsTrue'
  BY <1>d, <1>s DEF OutcomeIsTrue, envVars
<1>4. HeldIsExhausted'
  <2>1. ASSUME NEW e \in Deposits, status'[e] = "ManualReviewRequired"
        PROVE  attempts'[e] >= MaxAttempts /\ ~\E f \in ledger' : f.ref = e
    <3>1. e # d /\ attempts[e] >= MaxAttempts /\ ReferenceIsFree(e)
      BY <2>1, <1>s DEF HeldIsExhausted
    <3>2. attempts[e] \in Nat /\ attempts'[e] \in Nat /\ attempts'[e] >= attempts[e]
      BY <1>s DEF TypeOK
    <3>3. entry.ref = d
      BY DEF Entry
    <3> QED BY <3>1, <3>2, <3>3, <1>s, BoundsAssumption DEF ReferenceIsFree
  <2> QED BY <2>1 DEF HeldIsExhausted, ReferenceIsFree
<1> QED BY <1>1, <1>2, <1>3, <1>4
(* A worker moves on without writing to a row or a wallet and takes no lock. *)
LEMMA InvMove ==
  ASSUME IInv, TypeOK', NEW w \in Workers,
         UNCHANGED <<rowVars, moneyVars, rowLock, walletLock, push, payment, seen>>,
         \A v \in Workers \ {w} : /\ pc'[v] = pc[v] /\ dep'[v] = dep[v]
                                 /\ answer'[v] = answer[v],
         {pc[w], pc'[w]} \cap {"decide", "hold", "credit"} = {},
         pc'[w] # "idle", matched[dep'[w]],
         answer'[w] \in {"paid", "cancelled"} => payment[dep'[w]] = answer'[w]
  PROVE  IInv'
<1> USE DEF IInv
<1>0. /\ pc[w] \notin {"decide", "hold", "credit"}
      /\ pc'[w] \notin {"decide", "hold", "credit"}
  OBVIOUS
<1>1. LocksHeld'
  BY <1>0 DEF LocksHeld
<1>2. CreditReady'
  BY <1>0 DEF CreditReady, IsTerminal, rowVars, moneyVars
<1>3. AnswerIsTrue' /\ RowLifecycle'
  BY DEF AnswerIsTrue, RowLifecycle, rowVars
<1>4. CreditedOnce' /\ OutcomeIsTrue' /\ HeldIsExhausted'
  BY DEF CreditedOnce, OutcomeIsTrue, HeldIsExhausted, ReferenceIsFree,
     rowVars, moneyVars
<1> QED BY <1>1, <1>2, <1>3, <1>4

LEMMA InvHandle ==
  ASSUME IInv, NEW h \in Handlers, Handle(h)
  PROVE  IInv'
<1>t. TypeOK /\ TypeOK'
  BY TypeHandle DEF IInv
<1>w. h \in Workers
  BY DEF Workers
<1>1. ASSUME NEW d \in Deposits, CallbackArrives(h, d)
      PROVE  IInv'
  <2>1. /\ UNCHANGED <<rowVars, moneyVars, rowLock, walletLock, push, payment, seen>>
        /\ answer' = answer
        /\ matched[d]
        /\ pc[h] = "idle" /\ pc'[h] \in {"query", "waiting"} /\ dep'[h] = d
    BY <1>1, <1>t, <1>w DEF CallbackArrives, Goto, TypeOK, lockVars, advisoryVars
  <2>2. \A v \in Workers \ {h} : pc'[v] = pc[v] /\ dep'[v] = dep[v]
    BY <1>1, <1>t, <1>w DEF CallbackArrives, Goto, TypeOK
  <2>3. answer'[h] \notin {"paid", "cancelled"}
    BY <2>1, <1>w, NoneAssumption DEF IInv, AnswerIsTrue
  <2> QED BY <2>1, <2>2, <2>3, <1>t, <1>w, InvMove
<1>2. CASE CallbackReturnsLatest(h)
  BY <1>2, <1>t, <1>w, InvReturnOnly DEF CallbackReturnsLatest
<1>3. CASE AmountMismatch(h)
  <2>1. "ReconciliationPending" \in Statuses
    BY DEF Statuses, Recoverable
  <2>2. \A d \in Deposits : attempts'[d] >= attempts[d]
    BY <1>3, <1>t DEF AmountMismatch, RecordAttempt, TypeOK
  <2> QED
    BY <1>3, <1>t, <1>w, <2>1, <2>2, InvSettle DEF AmountMismatch, Deciding
<1> QED BY <1>1, <1>2, <1>3 DEF Handle

LEMMA InvRecover ==
  ASSUME IInv, NEW r \in Recoverers, Recover(r)
  PROVE  IInv'
<1>t. TypeOK /\ TypeOK'
  BY TypeRecover DEF IInv
<1>w. r \in Workers
  BY DEF Workers
<1>1. ASSUME NEW d \in Deposits, Select(r, d)
      PROVE  IInv'
  <2>1. /\ UNCHANGED <<rowVars, moneyVars, rowLock, walletLock, push, payment, seen>>
        /\ answer' = answer
        /\ matched[d]
        /\ pc[r] = "idle" /\ pc'[r] = "meta" /\ dep'[r] = d
    BY <1>1, <1>t, <1>w DEF Select, Goto, TypeOK, lockVars, advisoryVars, envVars
  <2>2. \A v \in Workers \ {r} : pc'[v] = pc[v] /\ dep'[v] = dep[v]
    BY <1>1, <1>t, <1>w DEF Select, Goto, TypeOK
  <2>3. answer'[r] \notin {"paid", "cancelled"}
    BY <2>1, <1>w, NoneAssumption DEF IInv, AnswerIsTrue
  <2> QED BY <2>1, <2>2, <2>3, <1>t, <1>w, InvMove
<1>2. CASE ReadMeta(r) \/ ReadMetaFails(r) \/ TryAdvisoryLock(r)
  <2>1. CASE Return(r) /\ ~ReadMetaFails(r)
    BY <1>2, <2>1, <1>t, <1>w, InvReturnOnly DEF ReadMeta, TryAdvisoryLock
  <2>2. ASSUME UNCHANGED <<rowVars, moneyVars, rowLock, walletLock, push, payment, seen>>,
               UNCHANGED <<answer, dep>>, pc[r] \in {"meta", "tryLock"},
               NEW l \in {"review", "tryLock", "query"}, Goto(r, l)
        PROVE  IInv'
    <3>1. /\ answer' = answer /\ dep' = dep /\ pc'[r] \in {"review", "tryLock", "query"}
          /\ \A v \in Workers \ {r} : pc'[v] = pc[v]
      BY <2>2, <1>t, <1>w DEF Goto, TypeOK
    <3>2. matched[dep[r]] /\ (answer[r] \in {"paid", "cancelled"} => payment[dep[r]] = answer[r])
      BY <2>2, <1>w DEF IInv, RowLifecycle, AnswerIsTrue
    <3> QED BY <2>2, <3>1, <3>2, <1>t, <1>w, InvMove
  <2>3. CASE ~Return(r) /\ (ReadMeta(r) \/ TryAdvisoryLock(r))
    <3>1. /\ UNCHANGED <<rowVars, moneyVars, rowLock, walletLock, push, payment, seen>>
          /\ UNCHANGED <<answer, dep>> /\ pc[r] \in {"meta", "tryLock"}
          /\ \E l \in {"review", "tryLock", "query"} : Goto(r, l)
      BY <2>3 DEF ReadMeta, TryAdvisoryLock, lockVars, envVars
    <3> QED BY <2>2, <3>1
  <2>4. CASE ReadMetaFails(r)
    <3>1. /\ UNCHANGED <<rowVars, moneyVars, rowLock, walletLock, push, payment, seen>>
          /\ UNCHANGED <<answer, dep>> /\ pc[r] \in {"meta", "tryLock"}
          /\ \E l \in {"review", "tryLock", "query"} : Goto(r, l)
      BY <2>4 DEF ReadMetaFails, lockVars
    <3> QED BY <2>2, <3>1
  <2> QED BY <1>2, <2>1, <2>3, <2>4
<1>3. CASE HoldForReview(r)
  <2>1. "ManualReviewRequired" \in Statuses
    BY DEF Statuses, Terminal
  <2>2. \A d \in Deposits : attempts'[d] >= attempts[d]
    BY <1>3, <1>t DEF HoldForReview, TypeOK
  <2>3. attempts[dep[r]] >= MaxAttempts
    BY <1>3 DEF HoldForReview, Exhausted
  <2> QED
    BY <1>3, <1>t, <1>w, <2>1, <2>2, <2>3, InvSettle DEF HoldForReview
<1> QED BY <1>1, <1>2, <1>3 DEF Recover

LEMMA InvWork ==
  ASSUME IInv, NEW w \in Workers, Work(w)
  PROVE  IInv'
<1>t. TypeOK /\ TypeOK'
  BY TypeWork DEF IInv
<1>1. ASSUME NEW a \in Answers, QueryReturns(w, a)
      PROVE  IInv'
  <2>1. CASE Return(w)
    BY <1>1, <2>1, <1>t, InvReturnOnly DEF QueryReturns
  <2>2. CASE ~Return(w)
    <3>1. /\ UNCHANGED <<rowVars, moneyVars, rowLock, walletLock, push, payment, seen>>
          /\ answer'[w] = a /\ dep' = dep
          /\ pc[w] = "query" /\ pc'[w] = "apply"
          /\ a \in {"paid", "cancelled"} => payment[dep[w]] = a
      BY <1>1, <2>2, <1>t
         DEF QueryReturns, PossibleAnswers, Goto, TypeOK, lockVars, advisoryVars, envVars
    <3>2. \A v \in Workers \ {w} : pc'[v] = pc[v] /\ answer'[v] = answer[v]
      BY <1>1, <2>2, <1>t DEF QueryReturns, Goto, TypeOK
    <3>3. matched[dep[w]]
      BY <3>1 DEF IInv, RowLifecycle
    <3> QED BY <3>1, <3>2, <3>3, <1>t, InvMove
  <2> QED BY <2>1, <2>2
<1>2. CASE LockRow(w)
  <2>1. /\ UNCHANGED <<rowVars, moneyVars, walletLock, dep, answer, seen, envVars>>
        /\ dep[w] \in Deposits /\ rowLock[dep[w]] = None
        /\ pc[w] \in {"apply", "review"} /\ pc'[w] \in {"decide", "hold"}
        /\ \A v \in Workers \ {w} : pc'[v] = pc[v]
        /\ \A d \in Deposits : rowLock'[d] = IF d = dep[w] THEN w ELSE rowLock[d]
    BY <1>2, <1>t DEF LockRow, RowIsFree, Goto, TypeOK
  <2>2. LocksHeld'
    BY <2>1, NoneAssumption DEF IInv, LocksHeld
  <2>3. CreditReady' /\ AnswerIsTrue' /\ RowLifecycle'
    BY <2>1 DEF IInv, CreditReady, AnswerIsTrue, RowLifecycle, IsTerminal,
       rowVars, moneyVars, envVars
  <2>4. CreditedOnce' /\ OutcomeIsTrue' /\ HeldIsExhausted'
    BY <2>1 DEF IInv, CreditedOnce, OutcomeIsTrue, HeldIsExhausted, ReferenceIsFree,
       rowVars, moneyVars, envVars
  <2> QED BY <1>t, <2>2, <2>3, <2>4 DEF IInv
<1>3. CASE SkipSettled(w) \/ CreditRolledBack(w) \/ Abort(w)
  BY <1>3, <1>t, InvReturnOnly DEF SkipSettled, CreditRolledBack, Abort
<1>4. CASE KeepRecoverable(w)
  <2>1. "ReconciliationPending" \in Statuses
    BY DEF Statuses, Recoverable
  <2>2. \A d \in Deposits : attempts'[d] >= attempts[d]
    BY <1>4, <1>t DEF KeepRecoverable, RecordAttempt, TypeOK
  <2> QED
    BY <1>4, <1>t, <2>1, <2>2, InvSettle DEF KeepRecoverable, Deciding
<1>5. CASE FailDeposit(w)
  <2>1. "Failed" \in Statuses
    BY DEF Statuses, Terminal
  <2>2. \A d \in Deposits : attempts'[d] >= attempts[d]
    BY <1>5, <1>t DEF FailDeposit, RecordAttempt, TypeOK
  <2>3. payment[dep[w]] = "cancelled"
    BY <1>5 DEF FailDeposit, Deciding, IInv, AnswerIsTrue
  <2> QED
    BY <1>5, <1>t, <2>1, <2>2, <2>3, InvSettle DEF FailDeposit, Deciding
<1>6. CASE LockWallet(w)
  <2> DEFINE u == Owner[dep[w]]
  <2>1. /\ UNCHANGED <<rowVars, moneyVars, rowLock, dep, answer, envVars>>
        /\ dep[w] \in Deposits /\ u \in Wallets /\ walletLock[u] = None
        /\ pc[w] = "decide" /\ pc'[w] = "credit" /\ answer[w] = "paid"
        /\ ~IsTerminal(dep[w]) /\ seen'[w] = balance[u]
        /\ \A v \in Workers \ {w} : pc'[v] = pc[v] /\ seen'[v] = seen[v]
        /\ \A x \in Wallets : walletLock'[x] = IF x = u THEN w ELSE walletLock[x]
    BY <1>6, <1>t, OwnerAssumption
       DEF LockWallet, WalletIsFree, Deciding, Goto, TypeOK
  <2>2. LocksHeld'
    BY <2>1, NoneAssumption DEF IInv, LocksHeld
  <2>3. CreditReady' /\ AnswerIsTrue' /\ RowLifecycle'
    BY <2>1 DEF IInv, CreditReady, AnswerIsTrue, RowLifecycle, IsTerminal,
       rowVars, moneyVars, envVars
  <2>4. CreditedOnce' /\ OutcomeIsTrue' /\ HeldIsExhausted'
    BY <2>1 DEF IInv, CreditedOnce, OutcomeIsTrue, HeldIsExhausted, ReferenceIsFree,
       rowVars, moneyVars, envVars
  <2> QED BY <1>t, <2>2, <2>3, <2>4 DEF IInv
<1>7. CASE CommitCredit(w)
  BY <1>7, <1>t, InvCommitCredit
<1> QED
  BY <1>1, <1>2, <1>3, <1>4, <1>5, <1>6, <1>7 DEF Work

LEMMA InvStep == IInv /\ [Next]_vars => IInv'
<1> SUFFICES ASSUME IInv, [Next]_vars PROVE IInv'
  OBVIOUS
<1>1. CASE UNCHANGED vars
  BY <1>1 DEF IInv, TypeOK, LocksHeld, CreditReady, AnswerIsTrue, RowLifecycle,
     CreditedOnce, OutcomeIsTrue, HeldIsExhausted, ReferenceIsFree, IsTerminal,
     vars, rowVars, moneyVars, lockVars, advisoryVars, workVars, envVars
<1>2. CASE Next
  BY <1>2, InvRequest, InvHandle, InvRecover, InvWork DEF Next
<1> QED BY <1>1, <1>2

LEMMA Invariance == Spec => []IInv
<1>1. Init => IInv
  BY InvInit
<1>2. IInv /\ [Next]_vars => IInv'
  BY InvStep
<1> QED BY <1>1, <1>2, PTL DEF Spec
-----------------------------------------------------------------------------
(* The safety properties, for every number of workers and deposits. *)

(* A deposit is credited at most once, exactly when it is Completed, and with *)
(* the stored amount.                                                        *)
THEOREM CreditedAtMostOnce == Spec => []CreditedOnce
<1>1. IInv => CreditedOnce
  BY DEF IInv
<1> QED BY <1>1, Invariance, PTL

(* Completed means paid; Failed with a checkout id means cancelled.          *)
THEOREM OutcomesAreTrue == Spec => []OutcomeIsTrue
<1>1. IInv => OutcomeIsTrue
  BY DEF IInv
<1> QED BY <1>1, Invariance, PTL

(* Only exhausted, uncredited deposits are held for manual review.           *)
THEOREM HeldAreExhausted == Spec => []HeldIsExhausted
<1>1. IInv => HeldIsExhausted
  BY DEF IInv
<1> QED BY <1>1, Invariance, PTL

(* The row lock and the re-read under it keep a second credit from ever being *)
(* tried, so the unique ledger reference never has to refuse one.            *)
THEOREM BackstopNeverUsed == Spec => []BackstopUnused
<1>1. IInv => BackstopUnused
  <2> SUFFICES ASSUME IInv, NEW w \in Workers, pc[w] = "credit"
               PROVE  ReferenceIsFree(dep[w])
    BY DEF BackstopUnused
  <2>1. dep[w] \in Deposits
    BY DEF IInv, TypeOK
  <2>2. status[dep[w]] # "Completed"
    BY DEF IInv, CreditReady, IsTerminal, Terminal
  <2> QED BY <2>1, <2>2 DEF IInv, CreditedOnce
<1> QED BY <1>1, Invariance, PTL

(* No lock is held while Daraja, or another callback, is waited for.         *)
THEOREM NoLockWhileWaiting == Spec => []NoLockAcrossNetwork
<1>1. IInv => NoLockAcrossNetwork
  BY DEF IInv, LocksHeld, NoLockAcrossNetwork
<1> QED BY <1>1, Invariance, PTL

(* A row is waited for before a wallet, and nothing is waited for after it:  *)
(* workers can never wait for each other in a ring.                          *)
THEOREM NoRingOfWorkers == Spec => []WaitsEnd
<1>1. IInv => WaitsEnd
  <2> SUFFICES ASSUME TypeOK, LocksHeld PROVE WaitsEnd
    BY DEF IInv
  <2>1. \A w, x \in Workers : WaitsFor(w, x) =>
           \/ /\ pc[w] \in {"apply", "review", "waiting"}
              /\ pc[x] \in {"decide", "hold", "credit"}
           \/ pc[w] = "decide" /\ pc[x] = "credit"
    <3>1. \A w \in Workers : pc[w] # "idle" => dep[w] \in Deposits /\ Owner[dep[w]] \in Wallets
      BY OwnerAssumption DEF TypeOK
    <3> QED
      BY <3>1 DEF WaitsFor, LocksHeld
  <2> QED
    BY <2>1 DEF WaitsEnd, WaitsFor
<1> QED BY <1>1, Invariance, PTL

(* The steps that may write a status. *)
LEMMA StatusWriters ==
  ASSUME IInv, [Next]_vars, NEW d \in Deposits, status'[d] # status[d]
  PROVE  ~IsTerminal(d)
<1> USE DEF IInv, TypeOK
<1>1. CASE UNCHANGED vars
  BY <1>1 DEF vars, rowVars
<1>2. ASSUME NEW e \in Deposits, Initiate(e) \/ Environment(e)
      PROVE  ~IsTerminal(d)
  <2>1. d = e /\ push[d] # "done"
    BY <1>2 DEF Initiate, Environment, RequestDeposit, PushAccepted, PushRefused,
       PersistPending, PersistFailedAttempt, RequestLost, DarajaAccepts, CustomerDecides,
       BackoffElapses, CallbackUnknown, LockSessionEnds, rowVars
  <2> QED BY <2>1 DEF RowLifecycle, IsTerminal, Terminal
<1>3. ASSUME NEW h \in Handlers, Handle(h)
      PROVE  ~IsTerminal(d)
  BY <1>3 DEF Handle, CallbackArrives, CallbackReturnsLatest, AmountMismatch, Deciding,
     SetStatus, rowVars
<1>4. ASSUME NEW r \in Recoverers, Recover(r)
      PROVE  ~IsTerminal(d)
  BY <1>4 DEF Recover, Select, ReadMeta, ReadMetaFails, TryAdvisoryLock, HoldForReview,
     SetStatus, rowVars
<1>5. ASSUME NEW w \in Workers, Work(w)
      PROVE  ~IsTerminal(d)
  <2>1. CASE CommitCredit(w)
    <3>1. d = dep[w]
      BY <1>5, <2>1 DEF CommitCredit, SetStatus
    <3> QED BY <1>5, <2>1, <3>1 DEF CommitCredit, CreditReady
  <2>2. CASE KeepRecoverable(w) \/ FailDeposit(w)
    BY <2>2 DEF KeepRecoverable, FailDeposit, Deciding, SetStatus
  <2>3. CASE ~(CommitCredit(w) \/ KeepRecoverable(w) \/ FailDeposit(w))
    BY <1>5, <2>3 DEF Work, QueryReturns, LockRow, SkipSettled, LockWallet,
       CreditRolledBack, Abort, rowVars
  <2> QED BY <2>1, <2>2, <2>3
<1> QED BY <1>1, <1>2, <1>3, <1>4, <1>5 DEF Next

(* A deposit that reached a terminal status keeps it.                        *)
THEOREM TerminalStaysFinal == Spec => TerminalIsFinal
<1>1. IInv /\ [Next]_vars =>
        [\A d \in Deposits : IsTerminal(d) => status'[d] = status[d]]_vars
  BY StatusWriters
<1> QED BY <1>1, Invariance, PTL DEF Spec, TerminalIsFinal
-----------------------------------------------------------------------------
(* Refinement of DepositContract. *)

LEMMA ContractInit == Init => Contract!Init
<1>1. Init => balance \in [Wallets -> Nat]
  BY OpeningsNat DEF Init
<1> QED
  BY <1>1 DEF Init, Contract!Init, Outcome

(* The outcome of a deposit whose row did not change is the same.            *)
LEMMA SameOutcome ==
  ASSUME UNCHANGED <<status, matched>>
  PROVE  Outcome' = Outcome
BY DEF Outcome

(* A worker that holds an open row d and writes status s gives d the outcome *)
(* o and leaves every other deposit as it was.                               *)
LEMMA NewOutcome ==
  ASSUME IInv, NEW d \in Deposits, matched[d], status[d] \in Recoverable,
         NEW s \in Statuses, SetStatus(d, s), UNCHANGED matched
  PROVE  /\ Outcome[d] = "open"
         /\ s \in Recoverable => Outcome' = Outcome
         /\ s = "Completed" => Outcome' = [Outcome EXCEPT ![d] = "credited"]
         /\ s = "Failed" => Outcome' = [Outcome EXCEPT ![d] = "failed"]
         /\ s = "ManualReviewRequired" => Outcome' = [Outcome EXCEPT ![d] = "held"]
<1>1. status' = [status EXCEPT ![d] = s] /\ status \in [Deposits -> Statuses]
  BY DEF SetStatus, IInv, TypeOK
<1>2. \A e \in Deposits : status'[e] = IF e = d THEN s ELSE status[e]
  BY <1>1
<1>3. Outcome[d] = "open"
  BY DEF Outcome, Recoverable
<1>4. \A e \in Deposits : e # d => Outcome'[e] = Outcome[e]
  BY <1>2 DEF Outcome
<1>5. Outcome'[d] = CASE s = "Completed" -> "credited"
                     [] s = "ManualReviewRequired" -> "held"
                     [] s = "Failed" -> "failed"
                     [] OTHER -> "open"
  BY <1>2 DEF Outcome
<1>6. /\ Outcome = [e \in Deposits |-> Outcome[e]]
      /\ Outcome' = [e \in Deposits |-> Outcome'[e]]
  BY DEF Outcome
<1>7. \A o : Outcome'[d] = o => Outcome' = [Outcome EXCEPT ![d] = o]
  BY <1>4, <1>6
<1> QED
  BY <1>3, <1>4, <1>5, <1>6, <1>7 DEF Recoverable

(* Every step of Next is a step of the contract or changes none of what the  *)
(* contract speaks about.                                                    *)
LEMMA ContractStep ==
  ASSUME IInv, [Next]_vars
  PROVE  [Contract!Next]_(Contract!contractVars)
<1> USE DEF Contract!contractVars
<1>1. CASE UNCHANGED vars
  BY <1>1, SameOutcome DEF vars, rowVars, moneyVars, envVars
<1>2. ASSUME NEW d \in Deposits, Initiate(d) \/ Environment(d)
      PROVE  [Contract!Next]_(Contract!contractVars)
  <2>1. CASE PersistPending(d)
    <3>1. push[d] # "done" /\ status[d] = "absent" /\ status \in [Deposits -> Statuses]
          /\ matched \in [Deposits -> BOOLEAN]
      BY <2>1 DEF PersistPending, IInv, RowLifecycle, TypeOK
    <3>2. \A e \in Deposits : Outcome'[e] = Outcome[e]
      BY <2>1, <3>1 DEF PersistPending, Outcome
    <3>3. Outcome' = Outcome
      BY <3>2 DEF Outcome
    <3> QED BY <2>1, <3>3 DEF PersistPending, moneyVars
  <2>2. CASE PersistFailedAttempt(d)
    <3>1. status[d] = "absent" /\ ~matched[d] /\ status \in [Deposits -> Statuses]
      BY <2>2 DEF PersistFailedAttempt, IInv, RowLifecycle, TypeOK
    <3>2. /\ Outcome[d] = "open" /\ Outcome'[d] = "rejected"
          /\ \A e \in Deposits : e # d => Outcome'[e] = Outcome[e]
      BY <2>2, <3>1 DEF PersistFailedAttempt, Outcome
    <3>3. Outcome' = [Outcome EXCEPT ![d] = "rejected"]
      BY <3>2 DEF Outcome
    <3>4. Contract!Reject(d)
      BY <2>2, <3>2, <3>3 DEF Contract!Reject, Contract!Settle, PersistFailedAttempt, moneyVars
    <3> QED BY <3>4 DEF Contract!Next
  <2>3. CASE DarajaAccepts(d)
    <3>1. Contract!Prompt(d)
      BY <2>3, SameOutcome DEF DarajaAccepts, Contract!Prompt, rowVars, moneyVars
    <3> QED BY <3>1 DEF Contract!Next
  <2>4. CASE CustomerDecides(d)
    <3>1. Contract!Decide(d)
      BY <2>4, SameOutcome DEF CustomerDecides, Contract!Decide, rowVars, moneyVars
    <3> QED BY <3>1 DEF Contract!Next
  <2>5. CASE \/ RequestDeposit(d) \/ PushAccepted(d) \/ PushRefused(d) \/ RequestLost(d)
             \/ BackoffElapses(d) \/ CallbackUnknown(d) \/ LockSessionEnds(d)
    BY <2>5, SameOutcome
       DEF RequestDeposit, PushAccepted, PushRefused, RequestLost, BackoffElapses,
           CallbackUnknown, LockSessionEnds, rowVars, moneyVars, envVars
  <2> QED BY <1>2, <2>1, <2>2, <2>3, <2>4, <2>5 DEF Initiate, Environment
<1>3. ASSUME NEW w \in Workers, NEW s \in Statuses,
             pc[w] # "idle", ~IsTerminal(dep[w]), SetStatus(dep[w], s),
             UNCHANGED <<matched, payment>>,
             \/ s = "ReconciliationPending" /\ UNCHANGED balance
             \/ s = "Failed" /\ payment[dep[w]] = "cancelled" /\ UNCHANGED balance
             \/ s = "ManualReviewRequired" /\ UNCHANGED balance
             \/ /\ s = "Completed" /\ payment[dep[w]] = "paid"
                /\ balance' = [balance EXCEPT ![Owner[dep[w]]] = @ + Amount[dep[w]]]
      PROVE  [Contract!Next]_(Contract!contractVars)
  <2>1. dep[w] \in Deposits /\ matched[dep[w]] /\ status[dep[w]] \in Recoverable
    BY <1>3 DEF IInv, TypeOK, RowLifecycle, IsTerminal, Statuses
  <2>2. CASE s = "ReconciliationPending"
    <3>1. Outcome' = Outcome
      BY <1>3, <2>1, <2>2, NewOutcome DEF Recoverable
    <3> QED BY <1>3, <2>2, <3>1
  <2>3. CASE s = "Failed"
    <3>1. Contract!Fail(dep[w])
      BY <1>3, <2>1, <2>3, NewOutcome DEF Contract!Fail, Contract!Settle
    <3> QED BY <2>1, <3>1 DEF Contract!Next
  <2>4. CASE s = "ManualReviewRequired"
    <3>1. Contract!Hold(dep[w])
      BY <1>3, <2>1, <2>4, NewOutcome DEF Contract!Hold, Contract!Settle
    <3> QED BY <2>1, <3>1 DEF Contract!Next
  <2>5. CASE s = "Completed"
    <3>1. Contract!Credit(dep[w])
      BY <1>3, <2>1, <2>5, NewOutcome DEF Contract!Credit, Contract!Settle
    <3> QED BY <2>1, <3>1 DEF Contract!Next
  <2> QED BY <1>3, <2>2, <2>3, <2>4, <2>5
<1>s. {"ReconciliationPending", "Failed", "ManualReviewRequired", "Completed"} \subseteq Statuses
  BY DEF Statuses, Recoverable, Terminal
<1>4. ASSUME NEW h \in Handlers, Handle(h)
      PROVE  [Contract!Next]_(Contract!contractVars)
  <2>1. CASE AmountMismatch(h)
    <3>1. h \in Workers
      BY DEF Workers
    <3> QED BY <2>1, <3>1, <1>3, <1>s DEF AmountMismatch, Deciding, moneyVars, envVars
  <2>2. CASE ~AmountMismatch(h)
    BY <1>4, <2>2, SameOutcome
       DEF Handle, CallbackArrives, CallbackReturnsLatest, rowVars, moneyVars, envVars
  <2> QED BY <2>1, <2>2
<1>5. ASSUME NEW r \in Recoverers, Recover(r)
      PROVE  [Contract!Next]_(Contract!contractVars)
  <2>1. CASE HoldForReview(r)
    <3>1. r \in Workers
      BY DEF Workers
    <3> QED BY <2>1, <3>1, <1>3, <1>s DEF HoldForReview, moneyVars, envVars
  <2>2. CASE ~HoldForReview(r)
    BY <1>5, <2>2, SameOutcome
       DEF Recover, Select, ReadMeta, ReadMetaFails, TryAdvisoryLock, rowVars, moneyVars, envVars
  <2> QED BY <2>1, <2>2
<1>6. ASSUME NEW w \in Workers, Work(w)
      PROVE  [Contract!Next]_(Contract!contractVars)
  <2>1. CASE KeepRecoverable(w)
    BY <2>1, <1>3, <1>s DEF KeepRecoverable, Deciding, moneyVars, envVars
  <2>2. CASE FailDeposit(w)
    <3>1. payment[dep[w]] = "cancelled"
      BY <2>2 DEF FailDeposit, Deciding, IInv, AnswerIsTrue
    <3> QED BY <2>2, <3>1, <1>3, <1>s DEF FailDeposit, Deciding, moneyVars, envVars
  <2>3. CASE CommitCredit(w)
    <3>1. /\ payment[dep[w]] = "paid" /\ ~IsTerminal(dep[w])
          /\ seen[w] = balance[Owner[dep[w]]]
      BY <2>3 DEF CommitCredit, IInv, CreditReady, AnswerIsTrue
    <3>2. balance' = [balance EXCEPT ![Owner[dep[w]]] = @ + Amount[dep[w]]]
      BY <2>3, <3>1 DEF CommitCredit, Entry
    <3> QED BY <2>3, <3>1, <3>2, <1>3, <1>s DEF CommitCredit, envVars
  <2>4. CASE ~(KeepRecoverable(w) \/ FailDeposit(w) \/ CommitCredit(w))
    BY <1>6, <2>4, SameOutcome
       DEF Work, QueryReturns, LockRow, SkipSettled, LockWallet, CreditRolledBack, Abort,
           rowVars, moneyVars, envVars
  <2> QED BY <2>1, <2>2, <2>3, <2>4
<1> QED BY <1>1, <1>2, <1>4, <1>5, <1>6 DEF Next

(* Callbacks, sweeps, locks and attempts together implement the contract.    *)
THEOREM DepositImplementsContract == Spec => ImplementsContract
<1>1. Init => Contract!Init
  BY ContractInit
<1>2. IInv /\ [Next]_vars => [Contract!Next]_(Contract!contractVars)
  BY ContractStep
<1> QED BY <1>1, <1>2, Invariance, PTL DEF Spec, ImplementsContract, Contract!Spec
-----------------------------------------------------------------------------
(* The advisory lock of a deposit. *)

(* A recoverer holds it from before the query to its return, unless the      *)
(* session of the lock has ended.                                            *)
Holding == {"query", "apply", "decide", "credit"}

AdvisoryHeld ==
  \A r \in Recoverers : pc[r] \in Holding /\ r \notin lost => advisory[dep[r]] = r

(* A worker that returns frees its own locks and nobody else's. *)
LEMMA ReturnKeepsAdvisory ==
  ASSUME TypeOK, AdvisoryHeld, NEW w \in Workers, Return(w)
  PROVE  AdvisoryHeld'
<1> SUFFICES ASSUME NEW r \in Recoverers, pc'[r] \in Holding, r \notin lost'
             PROVE  advisory'[dep'[r]] = r
  BY DEF AdvisoryHeld
<1>1. r # w /\ r \in Workers
  BY ReturnFacts DEF Holding, Workers
<1>2. pc'[r] = pc[r] /\ dep'[r] = dep[r] /\ r \notin lost
  BY <1>1, ReturnFacts
<1>3. advisory[dep[r]] = r /\ dep[r] \in Deposits
  BY <1>1, <1>2 DEF AdvisoryHeld, TypeOK, Holding
<1> QED
  BY <1>1, <1>2, <1>3, ReturnFacts

(* A worker that goes on inside of its critical section, or stays outside of *)
(* it, disturbs nobody's lock.                                               *)
LEMMA GotoKeepsAdvisory ==
  ASSUME TypeOK, AdvisoryHeld, NEW w \in Workers, NEW l, Goto(w, l),
         UNCHANGED <<advisory, lost>>,
         \A v \in Workers \ {w} : dep'[v] = dep[v],
         w \in Recoverers /\ l \in Holding => pc[w] \in Holding /\ dep'[w] = dep[w]
  PROVE  AdvisoryHeld'
<1>1. \A v \in Workers : pc'[v] = IF v = w THEN l ELSE pc[v]
  BY DEF TypeOK, Goto
<1> QED
  BY <1>1 DEF AdvisoryHeld, Workers

LEMMA AdvisoryRecover ==
  ASSUME TypeOK, AdvisoryHeld, NEW r \in Recoverers, Recover(r)
  PROVE  AdvisoryHeld'
<1>w. r \in Workers
  BY DEF Workers
<1>1. ASSUME NEW d \in Deposits, Select(r, d) PROVE AdvisoryHeld'
  BY <1>1, <1>w, GotoKeepsAdvisory DEF Select, TypeOK, lockVars, advisoryVars, Holding
<1>2. CASE ReadMeta(r)
  <2>1. CASE Return(r)
    BY <2>1, <1>w, ReturnKeepsAdvisory
  <2>2. CASE /\ Goto(r, "review") \/ Goto(r, "tryLock")
             /\ UNCHANGED <<dep, answer, seen, lockVars>>
    BY <2>2, <1>w, GotoKeepsAdvisory DEF lockVars, advisoryVars, Holding
  <2> QED
    BY <1>2, <2>1, <2>2 DEF ReadMeta
<1>3. CASE TryAdvisoryLock(r)
  <2>1. CASE Return(r)
    BY <2>1, <1>w, ReturnKeepsAdvisory
  <2>2. CASE ~Return(r)
    <3>1. /\ advisory[dep[r]] = None /\ dep[r] \in Deposits
          /\ \A d \in Deposits : advisory'[d] = IF d = dep[r] THEN r ELSE advisory[d]
          /\ \A v \in Workers \ {r} : pc'[v] = pc[v]
          /\ UNCHANGED <<dep, lost>>
      BY <1>3, <2>2, <1>w DEF TryAdvisoryLock, Goto, TypeOK
    <3>2. ASSUME NEW q \in Recoverers \ {r}, pc'[q] \in Holding, q \notin lost'
          PROVE  advisory'[dep'[q]] = q
      <4>1. advisory[dep[q]] = q /\ dep[q] \in Deposits
        BY <3>1, <3>2 DEF AdvisoryHeld, Workers, TypeOK, Holding
      <4> QED
        BY <3>1, <4>1, NoneAssumption DEF Workers
    <3> QED
      BY <3>1, <3>2 DEF AdvisoryHeld
  <2> QED
    BY <2>1, <2>2
<1>4. CASE HoldForReview(r)
  BY <1>4, <1>w, ReturnKeepsAdvisory DEF HoldForReview
<1>5. CASE ReadMetaFails(r)
  BY <1>5, <1>w, GotoKeepsAdvisory DEF ReadMetaFails, lockVars, advisoryVars, Holding
<1> QED
  BY <1>1, <1>2, <1>3, <1>4, <1>5 DEF Recover

LEMMA AdvisoryWork ==
  ASSUME TypeOK, AdvisoryHeld, NEW w \in Workers, Work(w)
  PROVE  AdvisoryHeld'
<1>1. CASE Return(w)
  BY <1>1, ReturnKeepsAdvisory
<1>2. ASSUME NEW a \in Answers, QueryReturns(w, a), ~Return(w)
      PROVE  AdvisoryHeld'
  BY <1>2, GotoKeepsAdvisory DEF QueryReturns, lockVars, advisoryVars, Holding
<1>3. CASE LockRow(w)
  <2>1. CASE pc[w] = "apply"
    BY <1>3, <2>1, GotoKeepsAdvisory DEF LockRow, advisoryVars, Holding
  <2>2. CASE pc[w] = "review"
    BY <1>3, <2>2, GotoKeepsAdvisory DEF LockRow, advisoryVars, Holding
  <2> QED
    BY <1>3, <2>1, <2>2 DEF LockRow
<1>4. CASE LockWallet(w)
  BY <1>4, GotoKeepsAdvisory DEF LockWallet, advisoryVars, Deciding, Holding
<1> QED
  BY <1>1, <1>2, <1>3, <1>4
     DEF Work, SkipSettled, KeepRecoverable, FailDeposit, CommitCredit, CreditRolledBack, Abort

(* The holder whose session ends is lost, and nobody else held this lock.    *)
LEMMA SessionEndsKeepsAdvisory ==
  ASSUME TypeOK, AdvisoryHeld, NEW d \in Deposits, LockSessionEnds(d)
  PROVE  AdvisoryHeld'
<1> SUFFICES ASSUME NEW r \in Recoverers, pc'[r] \in Holding, r \notin lost'
             PROVE  advisory'[dep'[r]] = r
  BY DEF AdvisoryHeld
<1>1. /\ pc' = pc /\ dep' = dep
      /\ advisory' = [advisory EXCEPT ![d] = None]
      /\ lost' = lost \cup ({advisory[d]} \ {None})
  BY DEF LockSessionEnds, workVars
<1>2. r \notin lost /\ r # None /\ advisory[d] # r
  BY <1>1, NoneAssumption DEF Workers
<1>3. advisory[dep[r]] = r /\ dep[r] # d
  BY <1>1, <1>2 DEF AdvisoryHeld
<1>4. dep[r] \in Deposits
  BY <1>1 DEF TypeOK, Holding, Workers
<1> QED
  BY <1>1, <1>3, <1>4 DEF TypeOK

LEMMA AdvisoryStep == TypeOK /\ AdvisoryHeld /\ [Next]_vars => AdvisoryHeld'
<1> SUFFICES ASSUME TypeOK, AdvisoryHeld, [Next]_vars PROVE AdvisoryHeld'
  OBVIOUS
<1>1. ASSUME UNCHANGED <<pc, dep, advisory, lost>> PROVE AdvisoryHeld'
  BY <1>1 DEF AdvisoryHeld
<1>2. CASE UNCHANGED vars
  BY <1>1, <1>2 DEF vars, workVars, lockVars, advisoryVars
<1>3. ASSUME NEW d \in Deposits, Initiate(d) \/ Environment(d) PROVE AdvisoryHeld'
  <2>1. CASE LockSessionEnds(d)
    BY <2>1, SessionEndsKeepsAdvisory
  <2>2. CASE ~LockSessionEnds(d)
    BY <1>1, <1>3, <2>2
       DEF Initiate, Environment, RequestDeposit, PushAccepted, PushRefused,
           PersistPending, PersistFailedAttempt, RequestLost, DarajaAccepts, CustomerDecides,
           BackoffElapses, CallbackUnknown, workVars, lockVars, advisoryVars
  <2> QED
    BY <2>1, <2>2
<1>4. ASSUME NEW h \in Handlers, Handle(h) PROVE AdvisoryHeld'
  <2>w. h \in Workers /\ h \notin Recoverers
    BY WorkersAssumption DEF Workers
  <2>1. ASSUME NEW d \in Deposits, CallbackArrives(h, d) PROVE AdvisoryHeld'
    BY <2>1, <2>w, GotoKeepsAdvisory DEF CallbackArrives, TypeOK, lockVars, advisoryVars
  <2>2. CASE CallbackReturnsLatest(h) \/ AmountMismatch(h)
    BY <2>2, <2>w, ReturnKeepsAdvisory DEF CallbackReturnsLatest, AmountMismatch
  <2> QED
    BY <1>4, <2>1, <2>2 DEF Handle
<1> QED
  BY <1>2, <1>3, <1>4, AdvisoryRecover, AdvisoryWork DEF Next

(* From the query to the commit at most one recoverer works on a deposit,    *)
(* for any number of sweepers, administrators and users, as long as the      *)
(* session of no lock ends under its holder: of two at work, one has lost    *)
(* the lock behind its back.                                                 *)
THEOREM OneRecovererAtATime == Spec => []RecoverersExcluded
<1>1. Init => AdvisoryHeld
  BY NoneAssumption DEF Init, AdvisoryHeld, Holding, Workers
<1>2. AdvisoryHeld => RecoverersExcluded
  BY DEF AdvisoryHeld, RecoverersExcluded, Reconciling, Holding
<1> QED
  BY <1>1, <1>2, AdvisoryStep, TypeCorrect, PTL DEF Spec

-----------------------------------------------------------------------------
(* Counting attempts. *)

(* A worker that is counted has an answer of Daraja, and returns with it.    *)
Counts(w) ==
  /\ pc[w] \in {"decide", "credit"}
  /\ answer[w] \notin {None, "throttled"}
  /\ attempts' = [attempts EXCEPT ![dep[w]] = @ + 1]
  /\ Return(w)
  /\ UNCHANGED <<notified, unread>>

LEMMA AttemptCounters ==
  ASSUME IInv, [Next]_vars, attempts' # attempts
  PROVE  \E w \in Workers : Counts(w)
<1> USE DEF IInv
<1>1. ~UNCHANGED vars
  BY DEF vars, rowVars
<1>2. ASSUME NEW d \in Deposits, Initiate(d) \/ Environment(d) PROVE FALSE
  BY <1>2 DEF Initiate, Environment, RequestDeposit, PushAccepted, PushRefused,
     PersistPending, PersistFailedAttempt, RequestLost, DarajaAccepts, CustomerDecides,
     BackoffElapses, CallbackUnknown, LockSessionEnds, rowVars
<1>3. ASSUME NEW h \in Handlers, Handle(h)
      PROVE  AmountMismatch(h) /\ h \in Workers
  BY <1>3 DEF Handle, CallbackArrives, CallbackReturnsLatest, rowVars, Workers
<1>4. ASSUME NEW r \in Recoverers, Recover(r) PROVE FALSE
  BY <1>4 DEF Recover, Select, ReadMeta, ReadMetaFails, TryAdvisoryLock, HoldForReview, rowVars
<1>5. ASSUME NEW w \in Workers, Work(w)
      PROVE  KeepRecoverable(w) \/ FailDeposit(w) \/ CommitCredit(w)
  BY <1>5 DEF Work, QueryReturns, LockRow, SkipSettled, LockWallet, CreditRolledBack, Abort,
     rowVars
<1>6. \E w \in Workers :
         KeepRecoverable(w) \/ FailDeposit(w) \/ CommitCredit(w) \/ AmountMismatch(w)
  BY <1>1, <1>2, <1>3, <1>4, <1>5 DEF Next
<1>7. ASSUME NEW w \in Workers,
             KeepRecoverable(w) \/ FailDeposit(w) \/ CommitCredit(w) \/ AmountMismatch(w)
      PROVE  Counts(w)
  <2>1. Return(w) /\ UNCHANGED <<notified, unread>>
    BY <1>7 DEF KeepRecoverable, FailDeposit, CommitCredit, AmountMismatch, envVars
  <2>2. CASE KeepRecoverable(w)
    BY <2>1, <2>2, NoneAssumption DEF KeepRecoverable, Deciding, RecordAttempt, Counts
  <2>3. CASE FailDeposit(w) \/ AmountMismatch(w)
    BY <2>1, <2>3, NoneAssumption
       DEF FailDeposit, AmountMismatch, Deciding, RecordAttempt, Counts
  <2>4. CASE CommitCredit(w)
    <3>1. answer[w] = "paid"
      BY <2>4 DEF CommitCredit, CreditReady
    <3> QED
      BY <2>1, <2>4, <3>1, NoneAssumption DEF CommitCredit, RecordAttempt, Counts
  <2> QED
    BY <1>7, <2>2, <2>3, <2>4
<1> QED
  BY <1>6, <1>7

(* An attempt is one answer of Daraja: throttles, cooldowns and returns      *)
(* without one cost nothing (_record_reconciliation_attempt).                *)
THEOREM ThrottlesAreFree == Spec => ThrottleIsFree
<1> DEFINE Free ==
      \A d \in Deposits : attempts'[d] # attempts[d] =>
        /\ attempts'[d] = attempts[d] + 1
        /\ \E w \in Workers : /\ dep[w] = d /\ pc'[w] = "idle"
                               /\ answer[w] \notin {None, "throttled"}
<1>1. IInv /\ [Next]_vars => [Free]_vars
  <2> SUFFICES ASSUME IInv, [Next]_vars, NEW d \in Deposits, attempts'[d] # attempts[d]
               PROVE  /\ attempts'[d] = attempts[d] + 1
                      /\ \E w \in Workers : /\ dep[w] = d /\ pc'[w] = "idle"
                                             /\ answer[w] \notin {None, "throttled"}
    OBVIOUS
  <2>1. PICK w \in Workers : Counts(w)
    BY AttemptCounters
  <2>2. attempts \in [Deposits -> Nat] /\ TypeOK
    BY DEF IInv, TypeOK
  <2>3. dep[w] = d /\ attempts'[d] = attempts[d] + 1
    BY <2>1, <2>2 DEF Counts
  <2>4. pc'[w] = "idle"
    BY <2>1, <2>2, ReturnFacts DEF Counts
  <2> QED
    BY <2>1, <2>3, <2>4 DEF Counts
<1> QED
  BY <1>1, Invariance, PTL DEF Spec, ThrottleIsFree
-----------------------------------------------------------------------------
(* The budget of attempts. *)

(* The callbacks at work on a deposit, and the recoverers that have found    *)
(* its budget unspent: each of them may still count an attempt.              *)
Answering(d) == {h \in Handlers : dep[h] = d}
Spending(d)  == {r \in Recoverers : dep[r] = d /\ pc[r] \notin {"meta", "review", "hold"}}

(* Every attempt still to come is counted already, on the side of the        *)
(* callbacks against the notifications.                                      *)
BudgetKept ==
  \A d \in Deposits :
     /\ Cardinality(Answering(d)) <= notified[d]
     /\ attempts[d] + Cardinality(Answering(d)) + Cardinality(Spending(d))
          < MaxAttempts + notified[d] + unread[d] + Cardinality(Recoverers)

LEMMA Counted ==
  ASSUME NEW d
  PROVE  /\ IsFiniteSet(Answering(d)) /\ Cardinality(Answering(d)) \in Nat
         /\ IsFiniteSet(Spending(d)) /\ Cardinality(Spending(d)) \in Nat
         /\ Cardinality(Spending(d)) <= Cardinality(Recoverers)
         /\ Cardinality(Recoverers) \in Nat
<1>1. Answering(d) \in SUBSET Handlers /\ Spending(d) \in SUBSET Recoverers
  BY DEF Answering, Spending
<1> QED
  BY <1>1, FiniteAssumption, FS_Subset, FS_CardinalityType

(* Who gives up, or goes on as it is, spends nothing. *)
LEMMA QuietKeepsBudget ==
  ASSUME TypeOK, BudgetKept, attempts' = attempts, unread' = unread,
         notified' \in [Deposits -> Nat],
         \A d \in Deposits : /\ notified'[d] >= notified[d]
                             /\ Answering(d)' \subseteq Answering(d)
                             /\ Spending(d)' \subseteq Spending(d)
  PROVE  BudgetKept'
<1> SUFFICES ASSUME NEW d \in Deposits
             PROVE  /\ Cardinality(Answering(d)') <= notified'[d]
                    /\ attempts'[d] + Cardinality(Answering(d)') + Cardinality(Spending(d)')
                         < MaxAttempts + notified'[d] + unread'[d] + Cardinality(Recoverers)
  BY DEF BudgetKept
<1>1. /\ Cardinality(Answering(d)') \in Nat
      /\ Cardinality(Answering(d)') <= Cardinality(Answering(d))
  BY Counted, FS_Subset, FS_CardinalityType
<1>2. /\ Cardinality(Spending(d)') \in Nat
      /\ Cardinality(Spending(d)') <= Cardinality(Spending(d))
  BY Counted, FS_Subset, FS_CardinalityType
<1>3. /\ Cardinality(Answering(d)) <= notified[d]
      /\ attempts[d] + Cardinality(Answering(d)) + Cardinality(Spending(d))
           < MaxAttempts + notified[d] + unread[d] + Cardinality(Recoverers)
  BY DEF BudgetKept
<1>4. /\ attempts[d] \in Nat /\ notified[d] \in Nat /\ notified'[d] \in Nat
      /\ unread[d] \in Nat /\ unread'[d] = unread[d]
      /\ notified'[d] >= notified[d] /\ attempts'[d] = attempts[d]
      /\ Cardinality(Answering(d)) \in Nat /\ Cardinality(Spending(d)) \in Nat
      /\ MaxAttempts \in Nat /\ Cardinality(Recoverers) \in Nat
  BY Counted, BoundsAssumption DEF TypeOK
<1> HIDE DEF Answering, Spending
<1> QED
  BY <1>1, <1>2, <1>3, <1>4

LEMMA ReturnSpends ==
  ASSUME TypeOK, NEW w \in Workers, Return(w), NEW d \in Deposits
  PROVE  /\ Answering(d)' = Answering(d) \ {w}
         /\ Spending(d)' = Spending(d) \ {w}
<1>1. /\ dep'[w] = None
      /\ \A v \in Workers \ {w} : dep'[v] = dep[v] /\ pc'[v] = pc[v]
  BY ReturnFacts
<1> QED
  BY <1>1, NoneAssumption DEF Answering, Spending, Workers

LEMMA ReturnKeepsBudget ==
  ASSUME TypeOK, BudgetKept, NEW w \in Workers, Return(w), UNCHANGED <<attempts, notified, unread>>
  PROVE  BudgetKept'
BY QuietKeepsBudget, ReturnSpends DEF TypeOK

(* A worker of which attempts are still expected, or none, goes on so.       *)
LEMMA GotoKeepsBudget ==
  ASSUME TypeOK, BudgetKept, NEW w \in Workers, NEW l, Goto(w, l),
         dep' = dep, UNCHANGED <<attempts, notified, unread>>,
         l \notin {"meta", "review", "hold"} => pc[w] \notin {"meta", "review", "hold"}
  PROVE  BudgetKept'
<1>1. \A v \in Workers : pc'[v] = IF v = w THEN l ELSE pc[v]
  BY DEF Goto, TypeOK
<1>2. \A d \in Deposits : Answering(d)' \subseteq Answering(d)
  BY DEF Answering
<1>3. \A d \in Deposits : Spending(d)' \subseteq Spending(d)
  BY <1>1 DEF Spending, Workers
<1> QED
  BY <1>2, <1>3, QuietKeepsBudget DEF TypeOK

(* The attempt a worker was expected to make is made.                        *)
LEMMA CountKeepsBudget ==
  ASSUME TypeOK, BudgetKept, NEW w \in Workers, Counts(w)
  PROVE  BudgetKept'
<1>0. /\ Return(w) /\ dep[w] \in Deposits /\ notified' = notified /\ unread' = unread
      /\ attempts' = [attempts EXCEPT ![dep[w]] = @ + 1]
      /\ pc[w] \in {"decide", "credit"}
  BY DEF Counts, TypeOK
<1> SUFFICES ASSUME NEW d \in Deposits
             PROVE  /\ Cardinality(Answering(d)') <= notified'[d]
                    /\ attempts'[d] + Cardinality(Answering(d)') + Cardinality(Spending(d)')
                         < MaxAttempts + notified'[d] + unread'[d] + Cardinality(Recoverers)
  BY DEF BudgetKept
<1>1. /\ Answering(d)' = Answering(d) \ {w}
      /\ Spending(d)' = Spending(d) \ {w}
  BY <1>0, ReturnSpends
<1>2. /\ Cardinality(Answering(d)') =
           IF w \in Answering(d) THEN Cardinality(Answering(d)) - 1
                                 ELSE Cardinality(Answering(d))
      /\ Cardinality(Spending(d)') =
           IF w \in Spending(d) THEN Cardinality(Spending(d)) - 1
                                ELSE Cardinality(Spending(d))
  BY <1>1, Counted, FS_RemoveElement
<1>3. dep[w] = d <=> (w \in Answering(d) \/ w \in Spending(d))
  BY <1>0 DEF Answering, Spending, Workers
<1>4. attempts'[d] = IF dep[w] = d THEN attempts[d] + 1 ELSE attempts[d]
  BY <1>0 DEF TypeOK
<1>5. /\ Cardinality(Answering(d)) <= notified[d]
      /\ attempts[d] + Cardinality(Answering(d)) + Cardinality(Spending(d))
           < MaxAttempts + notified[d] + unread[d] + Cardinality(Recoverers)
  BY DEF BudgetKept
<1>6. /\ attempts[d] \in Nat /\ notified[d] \in Nat /\ unread[d] \in Nat /\ MaxAttempts \in Nat
      /\ Cardinality(Answering(d)) \in Nat /\ Cardinality(Spending(d)) \in Nat
      /\ Cardinality(Recoverers) \in Nat
  BY Counted, BoundsAssumption DEF TypeOK
<1>7. notified'[d] = notified[d] /\ unread'[d] = unread[d]
  BY <1>0
<1> QED
  BY <1>2, <1>3, <1>4, <1>5, <1>6, <1>7

(* A notification pays for the attempt of the callback that brings it.       *)
LEMMA ArrivalKeepsBudget ==
  ASSUME TypeOK, BudgetKept, NEW h \in Handlers, NEW e \in Deposits, CallbackArrives(h, e)
  PROVE  BudgetKept'
<1>0. /\ h \in Workers /\ h \notin Recoverers
      /\ attempts' = attempts /\ unread' = unread
  BY WorkersAssumption DEF Workers, CallbackArrives, rowVars
<1>1. /\ dep' = [dep EXCEPT ![h] = e]
      /\ \A r \in Recoverers : dep'[r] = dep[r] /\ pc'[r] = pc[r]
      /\ notified' = [notified EXCEPT ![e] = @ + 1]
  BY <1>0 DEF CallbackArrives, Goto, TypeOK, Workers
<1> SUFFICES ASSUME NEW d \in Deposits
             PROVE  /\ Cardinality(Answering(d)') <= notified'[d]
                    /\ attempts'[d] + Cardinality(Answering(d)') + Cardinality(Spending(d)')
                         < MaxAttempts + notified'[d] + unread'[d] + Cardinality(Recoverers)
  BY DEF BudgetKept
<1>2. Spending(d)' = Spending(d)
  BY <1>1 DEF Spending
<1>3. dep[h] = None /\ h \notin Answering(d)
  BY <1>0, NoneAssumption DEF CallbackArrives, TypeOK, Answering
<1>4. Answering(d)' = IF d = e THEN Answering(d) \cup {h} ELSE Answering(d)
  BY <1>0, <1>1, <1>3 DEF Answering, TypeOK, Workers
<1>5. Cardinality(Answering(d)') = IF d = e THEN Cardinality(Answering(d)) + 1
                                           ELSE Cardinality(Answering(d))
  BY <1>3, <1>4, Counted, FS_AddElement
<1>6. notified'[d] = IF d = e THEN notified[d] + 1 ELSE notified[d]
  BY <1>1 DEF TypeOK
<1>7. /\ Cardinality(Answering(d)) <= notified[d]
      /\ attempts[d] + Cardinality(Answering(d)) + Cardinality(Spending(d))
           < MaxAttempts + notified[d] + unread[d] + Cardinality(Recoverers)
  BY DEF BudgetKept
<1>8. /\ attempts[d] \in Nat /\ notified[d] \in Nat /\ unread[d] \in Nat /\ MaxAttempts \in Nat
      /\ Cardinality(Answering(d)) \in Nat /\ Cardinality(Spending(d)) \in Nat
      /\ Cardinality(Recoverers) \in Nat
  BY Counted, BoundsAssumption DEF TypeOK
<1> QED
  BY <1>0, <1>2, <1>5, <1>6, <1>7, <1>8

(* A recoverer that finds the budget unspent: at most all recoverers do.     *)
LEMMA PassKeepsBudget ==
  ASSUME TypeOK, BudgetKept, NEW r \in Recoverers,
         dep[r] \in Deposits, attempts[dep[r]] < MaxAttempts,
         Goto(r, "tryLock"), dep' = dep, UNCHANGED <<attempts, notified, unread>>
  PROVE  BudgetKept'
<1>1. \A v \in Workers : pc'[v] = IF v = r THEN "tryLock" ELSE pc[v]
  BY DEF Goto, TypeOK
<1> SUFFICES ASSUME NEW d \in Deposits
             PROVE  /\ Cardinality(Answering(d)') <= notified[d]
                    /\ attempts[d] + Cardinality(Answering(d)') + Cardinality(Spending(d)')
                         < MaxAttempts + notified[d] + unread[d] + Cardinality(Recoverers)
  BY DEF BudgetKept
<1>2. Answering(d)' = Answering(d)
  BY DEF Answering
<1>3. /\ Cardinality(Answering(d)) <= notified[d]
      /\ attempts[d] + Cardinality(Answering(d)) + Cardinality(Spending(d))
           < MaxAttempts + notified[d] + unread[d] + Cardinality(Recoverers)
  BY DEF BudgetKept
<1>4. /\ attempts[d] \in Nat /\ notified[d] \in Nat /\ unread[d] \in Nat /\ MaxAttempts \in Nat
      /\ Cardinality(Answering(d)) \in Nat /\ Cardinality(Recoverers) \in Nat
  BY Counted, BoundsAssumption DEF TypeOK
<1>5. Spending(d)' \subseteq Recoverers
  BY DEF Spending
<1>6. Cardinality(Spending(d)') \in Nat /\ Cardinality(Spending(d)') <= Cardinality(Recoverers)
  BY <1>5, FiniteAssumption, FS_Subset, FS_CardinalityType
<1>7. CASE d = dep[r]
  BY <1>2, <1>3, <1>4, <1>6, <1>7
<1>8. CASE d # dep[r]
  <2>1. Spending(d)' = Spending(d)
    BY <1>1, <1>8 DEF Spending, Workers
  <2> QED
    BY <1>2, <1>3, <2>1
<1> QED
  BY <1>7, <1>8

(* A recoverer that could not read the budget spends a failed read.          *)
LEMMA UnreadKeepsBudget ==
  ASSUME TypeOK, BudgetKept, NEW r \in Recoverers, ReadMetaFails(r)
  PROVE  BudgetKept'
<1>1. PICK l \in {"review", "tryLock"} : Goto(r, l)
  BY DEF ReadMetaFails
<1>2. \A v \in Workers : pc'[v] = IF v = r THEN l ELSE pc[v]
  BY <1>1 DEF Goto, TypeOK
<1>3. /\ dep' = dep /\ attempts' = attempts /\ notified' = notified
      /\ dep[r] \in Deposits
      /\ unread' = [unread EXCEPT ![dep[r]] = @ + 1]
  BY DEF ReadMetaFails, rowVars, TypeOK, Workers
<1> SUFFICES ASSUME NEW d \in Deposits
             PROVE  /\ Cardinality(Answering(d)') <= notified'[d]
                    /\ attempts'[d] + Cardinality(Answering(d)') + Cardinality(Spending(d)')
                         < MaxAttempts + notified'[d] + unread'[d] + Cardinality(Recoverers)
  BY DEF BudgetKept
<1>4. Answering(d)' = Answering(d)
  BY <1>3 DEF Answering
<1>5. /\ Cardinality(Answering(d)) <= notified[d]
      /\ attempts[d] + Cardinality(Answering(d)) + Cardinality(Spending(d))
           < MaxAttempts + notified[d] + unread[d] + Cardinality(Recoverers)
  BY DEF BudgetKept
<1>6. /\ attempts[d] \in Nat /\ notified[d] \in Nat /\ unread[d] \in Nat
      /\ MaxAttempts \in Nat
      /\ Cardinality(Answering(d)) \in Nat /\ Cardinality(Spending(d)) \in Nat
      /\ Cardinality(Recoverers) \in Nat
  BY Counted, BoundsAssumption DEF TypeOK
<1>7. unread'[d] = IF d = dep[r] THEN unread[d] + 1 ELSE unread[d]
  BY <1>3 DEF TypeOK
<1>8. /\ Cardinality(Spending(d)') \in Nat
      /\ Cardinality(Spending(d)') <= IF d = dep[r] THEN Cardinality(Spending(d)) + 1
                                                   ELSE Cardinality(Spending(d))
  <2>1. Spending(d)' \subseteq IF d = dep[r] THEN Spending(d) \cup {r} ELSE Spending(d)
    BY <1>2, <1>3 DEF Spending, Workers
  <2>2. /\ IsFiniteSet(Spending(d) \cup {r})
        /\ Cardinality(Spending(d) \cup {r}) \in Nat
        /\ Cardinality(Spending(d) \cup {r}) <= Cardinality(Spending(d)) + 1
    <3>1. IsFiniteSet(Spending(d))
      BY Counted
    <3> HIDE DEF Spending
    <3>2. /\ IsFiniteSet(Spending(d) \cup {r})
          /\ Cardinality(Spending(d) \cup {r}) = IF r \in Spending(d)
                THEN Cardinality(Spending(d)) ELSE Cardinality(Spending(d)) + 1
      BY <3>1, FS_AddElement
    <3> QED
      BY <1>6, <3>2
  <2>3. CASE d = dep[r]
    <3>1. Spending(d)' \subseteq Spending(d) \cup {r}
      BY <2>1, <2>3
    <3>2. /\ Cardinality(Spending(d)') \in Nat
          /\ Cardinality(Spending(d)') <= Cardinality(Spending(d) \cup {r})
      BY <2>2, <3>1, FS_Subset, FS_CardinalityType
    <3> QED
      BY <1>6, <2>2, <2>3, <3>2
  <2>4. CASE d # dep[r]
    <3>1. Spending(d)' \subseteq Spending(d)
      BY <2>1, <2>4
    <3>2. /\ Cardinality(Spending(d)') \in Nat
          /\ Cardinality(Spending(d)') <= Cardinality(Spending(d))
      BY <3>1, Counted, FS_Subset, FS_CardinalityType
    <3> QED
      BY <2>4, <3>2
  <2> QED
    BY <2>3, <2>4
<1> QED
  BY <1>3, <1>4, <1>5, <1>6, <1>7, <1>8

LEMMA BudgetStep ==
  ASSUME IInv, BudgetKept, [Next]_vars
  PROVE  BudgetKept'
<1>t. TypeOK
  BY DEF IInv
<1>1. CASE attempts' # attempts
  <2>1. PICK w \in Workers : Counts(w)
    BY <1>1, AttemptCounters
  <2> QED
    BY <1>t, <2>1, CountKeepsBudget
<1>2. CASE attempts' = attempts
  <2>1. CASE UNCHANGED vars
    <3>1. dep' = dep /\ pc' = pc /\ notified' = notified /\ unread' = unread
      BY <2>1 DEF vars, workVars, envVars
    <3> QED
      BY <1>t, <1>2, <3>1, QuietKeepsBudget DEF Answering, Spending, TypeOK
  <2>2. ASSUME NEW d \in Deposits, Initiate(d) \/ Environment(d) PROVE BudgetKept'
    <3>1. /\ dep' = dep /\ pc' = pc /\ unread' = unread
          /\ notified' = notified \/ notified' = [notified EXCEPT ![d] = @ + 1]
      BY <2>2 DEF Initiate, Environment, RequestDeposit, PushAccepted, PushRefused,
         PersistPending, PersistFailedAttempt, RequestLost, DarajaAccepts, CustomerDecides,
         BackoffElapses, CallbackUnknown, LockSessionEnds, workVars, envVars
    <3>2. /\ notified' \in [Deposits -> Nat]
          /\ \A e \in Deposits : notified'[e] >= notified[e]
      BY <1>t, <3>1 DEF TypeOK
    <3> QED
      BY <1>t, <1>2, <3>1, <3>2, QuietKeepsBudget DEF Answering, Spending
  <2>3. ASSUME NEW w \in Workers, Return(w), UNCHANGED <<notified, unread>> PROVE BudgetKept'
    BY <1>t, <1>2, <2>3, ReturnKeepsBudget
  <2>4. ASSUME NEW h \in Handlers, Handle(h) PROVE BudgetKept'
    BY <1>t, <2>3, <2>4, ArrivalKeepsBudget
       DEF Handle, CallbackReturnsLatest, AmountMismatch, envVars, Workers
  <2>5. ASSUME NEW r \in Recoverers, Recover(r) PROVE BudgetKept'
    <3>w. r \in Workers
      BY DEF Workers
    <3>1. ASSUME NEW d \in Deposits, Select(r, d) PROVE BudgetKept'
      <4>1. /\ dep' = [dep EXCEPT ![r] = d] /\ pc' = [pc EXCEPT ![r] = "meta"]
            /\ notified' = notified /\ unread' = unread
        BY <3>1 DEF Select, Goto, envVars
      <4>2. \A e \in Deposits : Answering(e)' \subseteq Answering(e)
        BY <1>t, <4>1, WorkersAssumption DEF Answering, TypeOK, Workers
      <4>3. \A e \in Deposits : Spending(e)' \subseteq Spending(e)
        BY <1>t, <4>1 DEF Spending, TypeOK, Workers
      <4> QED
        BY <1>t, <1>2, <4>1, <4>2, <4>3, QuietKeepsBudget DEF TypeOK
    <3>2. CASE ReadMeta(r)
      <4>1. dep[r] \in Deposits /\ notified' = notified /\ unread' = unread
        BY <1>t, <3>w, <3>2 DEF ReadMeta, envVars, TypeOK
      <4>2. CASE Return(r)
        BY <2>3, <3>w, <4>1, <4>2
      <4>3. CASE Goto(r, "review") /\ dep' = dep
        BY <1>t, <1>2, <3>w, <4>1, <4>3, GotoKeepsBudget
      <4>4. CASE ~Exhausted(dep[r]) /\ Goto(r, "tryLock") /\ dep' = dep
        <5>1. attempts[dep[r]] < MaxAttempts
          BY <1>t, <4>1, <4>4, BoundsAssumption DEF Exhausted, TypeOK
        <5> QED
          BY <1>t, <1>2, <4>1, <4>4, <5>1, PassKeepsBudget
      <4> QED
        BY <3>2, <4>2, <4>3, <4>4 DEF ReadMeta
    <3>3. CASE TryAdvisoryLock(r)
      <4>1. \/ Return(r)
            \/ pc[r] = "tryLock" /\ Goto(r, "query") /\ dep' = dep
        BY <3>3 DEF TryAdvisoryLock
      <4>2. notified' = notified /\ unread' = unread
        BY <3>3 DEF TryAdvisoryLock, envVars
      <4> QED
        BY <1>t, <1>2, <2>3, <3>w, <4>1, <4>2, GotoKeepsBudget
    <3>4. CASE HoldForReview(r)
      BY <2>3, <3>w, <3>4 DEF HoldForReview, envVars
    <3>5. CASE ReadMetaFails(r)
      BY <1>t, <3>5, UnreadKeepsBudget
    <3> QED
      BY <2>5, <3>1, <3>2, <3>3, <3>4, <3>5 DEF Recover
  <2>6. ASSUME NEW w \in Workers, Work(w) PROVE BudgetKept'
    <3>1. notified' = notified /\ unread' = unread
      BY <2>6 DEF Work, QueryReturns, LockRow, SkipSettled, KeepRecoverable, FailDeposit,
         LockWallet, CommitCredit, CreditRolledBack, Abort, envVars
    <3>2. CASE Return(w)
      BY <2>3, <3>1, <3>2
    <3>3. CASE ~Return(w)
      <4>1. /\ \/ pc[w] = "query" /\ Goto(w, "apply")
               \/ pc[w] = "apply" /\ Goto(w, "decide")
               \/ pc[w] = "review" /\ Goto(w, "hold")
               \/ pc[w] = "decide" /\ Goto(w, "credit")
            /\ dep' = dep
        BY <2>6, <3>3 DEF Work, QueryReturns, LockRow, SkipSettled, KeepRecoverable,
           FailDeposit, Deciding, LockWallet, CommitCredit, CreditRolledBack, Abort
      <4> QED
        BY <1>t, <1>2, <3>1, <4>1, GotoKeepsBudget
    <3> QED
      BY <3>2, <3>3
  <2> QED
    BY <2>1, <2>2, <2>4, <2>5, <2>6 DEF Next
<1> QED
  BY <1>1, <1>2

(* However many callbacks, sweepers and administrators race, the attempts    *)
(* spent on a deposit stay within its budget, its notifications, the failed  *)
(* reads of its budget and one more for each other recoverer                 *)
(* (MPESA_MAX_RECONCILIATION_ATTEMPTS).                                      *)
THEOREM AttemptsWithinBudget == Spec => []AttemptBudget
<1>1. Init => BudgetKept
  <2> SUFFICES ASSUME Init, NEW d \in Deposits
               PROVE  /\ Cardinality(Answering(d)) <= notified[d]
                      /\ attempts[d] + Cardinality(Answering(d)) + Cardinality(Spending(d))
                           < MaxAttempts + notified[d] + unread[d] + Cardinality(Recoverers)
    BY DEF BudgetKept
  <2>1. Answering(d) = {} /\ Spending(d) = {}
    BY NoneAssumption DEF Init, Answering, Spending, Workers
  <2>2. Cardinality(Recoverers) \in Nat /\ Cardinality(Recoverers) # 0
    BY Counted, FiniteAssumption, FS_EmptySet
  <2>3. attempts[d] = 0 /\ notified[d] = 0 /\ unread[d] = 0
    BY DEF Init
  <2> QED
    BY <2>1, <2>2, <2>3, FS_EmptySet, BoundsAssumption
<1>2. TypeOK /\ BudgetKept => AttemptBudget
  <2> SUFFICES ASSUME TypeOK, BudgetKept, NEW d \in Deposits
               PROVE  attempts[d] <= MaxAttempts + notified[d] + unread[d]
                                     + (Cardinality(Recoverers) - 1)
    BY DEF AttemptBudget
  <2>1. /\ attempts[d] + Cardinality(Answering(d)) + Cardinality(Spending(d))
             < MaxAttempts + notified[d] + unread[d] + Cardinality(Recoverers)
        /\ attempts[d] \in Nat /\ notified[d] \in Nat /\ unread[d] \in Nat
        /\ MaxAttempts \in Nat
    BY BoundsAssumption DEF BudgetKept, TypeOK
  <2> QED
    BY <2>1, Counted
<1>3. IInv => TypeOK
  BY DEF IInv
<1> QED
  BY <1>1, <1>2, <1>3, BudgetStep, Invariance, PTL DEF Spec
-----------------------------------------------------------------------------
(* Balances. *)

(* BalanceIsExplained with what it needs to be inductive: the sum of         *)
(* infinitely many deposits would have no value.                             *)
Explained ==
  \A u \in Wallets : /\ IsFiniteSet(Credited(u))
                     /\ balance[u] = opening[u] + SumOf(Amount, Credited(u))

(* Money moves and a deposit becomes Completed in one step only.             *)
LEMMA CreditWriters ==
  ASSUME IInv, [Next]_vars
  PROVE  \/ /\ balance' = balance /\ opening' = opening
            /\ \A u \in Wallets : Credited(u)' = Credited(u)
         \/ \E w \in Workers : CommitCredit(w)
<1> DEFINE Same == /\ balance' = balance /\ opening' = opening
                   /\ \A d \in Deposits : status'[d] = "Completed" <=> status[d] = "Completed"
<1> USE DEF IInv, TypeOK
<1>1. ASSUME UNCHANGED vars PROVE Same
  BY <1>1 DEF vars, rowVars, moneyVars
<1>2. ASSUME NEW e \in Deposits, Initiate(e) \/ Environment(e) PROVE Same
  <2>1. balance' = balance /\ opening' = opening
    BY <1>2 DEF Initiate, Environment, RequestDeposit, PushAccepted, PushRefused,
       PersistPending, PersistFailedAttempt, RequestLost, DarajaAccepts, CustomerDecides,
       BackoffElapses, CallbackUnknown, LockSessionEnds, moneyVars
  <2>2. \/ status' = status
        \/ /\ push[e] # "done"
           /\ \E s \in {"Pending", "Failed"} : status' = [status EXCEPT ![e] = s]
    BY <1>2 DEF Initiate, Environment, RequestDeposit, PushAccepted, PushRefused,
       PersistPending, PersistFailedAttempt, RequestLost, DarajaAccepts, CustomerDecides,
       BackoffElapses, CallbackUnknown, LockSessionEnds, rowVars
  <2> QED
    BY <2>1, <2>2 DEF RowLifecycle
<1>3. ASSUME NEW h \in Handlers, Handle(h) PROVE Same
  <2>1. balance' = balance /\ opening' = opening
    BY <1>3 DEF Handle, CallbackArrives, CallbackReturnsLatest, AmountMismatch, moneyVars
  <2>2. \/ status' = status
        \/ ~IsTerminal(dep[h]) /\ status' = [status EXCEPT ![dep[h]] = "ReconciliationPending"]
    BY <1>3 DEF Handle, CallbackArrives, CallbackReturnsLatest, AmountMismatch, Deciding,
       SetStatus, rowVars
  <2> QED
    BY <2>1, <2>2 DEF IsTerminal, Terminal
<1>4. ASSUME NEW r \in Recoverers, Recover(r) PROVE Same
  <2>1. balance' = balance /\ opening' = opening
    BY <1>4 DEF Recover, Select, ReadMeta, ReadMetaFails, TryAdvisoryLock, HoldForReview,
       moneyVars
  <2>2. \/ status' = status
        \/ ~IsTerminal(dep[r]) /\ status' = [status EXCEPT ![dep[r]] = "ManualReviewRequired"]
    BY <1>4 DEF Recover, Select, ReadMeta, ReadMetaFails, TryAdvisoryLock, HoldForReview,
     SetStatus, rowVars
  <2> QED
    BY <2>1, <2>2 DEF IsTerminal, Terminal
<1>5. ASSUME NEW w \in Workers, Work(w), ~CommitCredit(w) PROVE Same
  <2>1. balance' = balance /\ opening' = opening
    BY <1>5 DEF Work, QueryReturns, LockRow, SkipSettled, KeepRecoverable, FailDeposit,
       LockWallet, CreditRolledBack, Abort, moneyVars
  <2>2. \/ status' = status
        \/ /\ ~IsTerminal(dep[w])
           /\ \E s \in {"ReconciliationPending", "Failed"} :
                 status' = [status EXCEPT ![dep[w]] = s]
    BY <1>5 DEF Work, QueryReturns, LockRow, SkipSettled, KeepRecoverable, FailDeposit,
       Deciding, SetStatus, LockWallet, CreditRolledBack, Abort, rowVars
  <2> QED
    BY <2>1, <2>2 DEF IsTerminal, Terminal
<1>6. Same \/ \E w \in Workers : CommitCredit(w)
  <2> HIDE DEF Same, IInv, TypeOK
  <2> QED
    BY <1>1, <1>2, <1>3, <1>4, <1>5 DEF Next
<1> QED
  BY <1>6 DEF Credited

(* A credit adds the amount of the deposit to the balance read under the     *)
(* wallet's lock, and the deposit to those that explain it.                  *)
LEMMA CreditExplains ==
  ASSUME IInv, Explained, NEW w \in Workers, CommitCredit(w)
  PROVE  Explained'
<1> DEFINE d == dep[w]
<1>1. /\ pc[w] = "credit" /\ d \in Deposits /\ ~IsTerminal(d)
      /\ status' = [status EXCEPT ![d] = "Completed"]
      /\ balance' = [balance EXCEPT ![Owner[d]] = seen[w] + Amount[d]]
      /\ seen[w] = balance[Owner[d]] /\ opening' = opening
  <2>1. pc[w] = "credit" /\ d \in Deposits
    BY DEF CommitCredit, IInv, TypeOK
  <2>2. ~IsTerminal(d) /\ seen[w] = balance[Owner[d]]
    BY <2>1 DEF IInv, CreditReady
  <2> QED
    BY <2>1, <2>2 DEF CommitCredit, SetStatus, Entry
<1> HIDE DEF d
<1>2. /\ status \in [Deposits -> Statuses] /\ balance \in [Wallets -> Nat]
      /\ opening \in [Wallets -> Nat]
      /\ \A e \in Deposits : Amount[e] \in Int
  <2>1. opening \in [Wallets -> Nat]
    BY OpeningsNat DEF IInv, TypeOK
  <2> QED
    BY <2>1, AmountAssumption DEF IInv, TypeOK
<1> SUFFICES ASSUME NEW u \in Wallets
             PROVE  /\ IsFiniteSet(Credited(u)')
                    /\ balance'[u] = opening'[u] + SumOf(Amount, Credited(u)')
  BY DEF Explained
<1>3. IsFiniteSet(Credited(u)) /\ balance[u] = opening[u] + SumOf(Amount, Credited(u))
  BY DEF Explained
<1>4. CASE u = Owner[d]
  <2>1. Credited(u)' = Credited(u) \cup {d} /\ d \notin Credited(u)
    BY <1>1, <1>2, <1>4 DEF Credited, IsTerminal, Terminal
  <2>2. \A e \in Credited(u) \cup {d} : Amount[e] \in Int
    BY <1>1, <1>2 DEF Credited
  <2>3. SumOf(Amount, Credited(u) \cup {d}) = SumOf(Amount, Credited(u)) + Amount[d]
    BY <1>3, <2>1, <2>2, SumWith
  <2>4. IsFiniteSet(Credited(u) \cup {d})
    BY <1>3, FS_AddElement
  <2>5. balance'[u] = balance[u] + Amount[d] /\ opening'[u] = opening[u]
    BY <1>1, <1>2, <1>4
  <2>6. SumOf(Amount, Credited(u)) \in Int /\ opening[u] \in Int /\ Amount[d] \in Int
    BY <1>1, <1>2, <1>3, <2>2, SumIsInteger
  <2> QED
    BY <1>3, <2>1, <2>3, <2>4, <2>5, <2>6
<1>5. CASE u # Owner[d]
  <2>1. Credited(u)' = Credited(u)
    BY <1>1, <1>2, <1>5 DEF Credited
  <2>2. balance'[u] = balance[u] /\ opening'[u] = opening[u]
    BY <1>1, <1>2, <1>5
  <2> QED
    BY <1>3, <2>1, <2>2
<1> QED
  BY <1>4, <1>5

(* Whatever callbacks and recoverers race for the deposits of a wallet, its  *)
(* balance is what it held before and what its completed deposits add up to  *)
(* (_credit_confirmed_deposit under get_locked_wallet).                      *)
THEOREM BalancesAreExplained == Spec => []BalanceIsExplained
<1>1. Init => Explained
  <2> SUFFICES ASSUME Init, NEW u \in Wallets
               PROVE  /\ IsFiniteSet(Credited(u))
                      /\ balance[u] = opening[u] + SumOf(Amount, Credited(u))
    BY DEF Explained
  <2>1. Credited(u) = {} /\ balance[u] = opening[u] /\ opening[u] \in Nat
    BY OpeningsNat DEF Init, Credited
  <2> QED
    BY <2>1, FS_EmptySet, SumEmpty
<1>2. IInv /\ Explained /\ [Next]_vars => Explained'
  <2> SUFFICES ASSUME IInv, Explained, [Next]_vars PROVE Explained'
    OBVIOUS
  <2>1. ASSUME NEW w \in Workers, CommitCredit(w) PROVE Explained'
    BY <2>1, CreditExplains
  <2>2. CASE /\ balance' = balance /\ opening' = opening
             /\ \A u \in Wallets : Credited(u)' = Credited(u)
    BY <2>2 DEF Explained
  <2> QED
    BY <2>1, <2>2, CreditWriters
<1>3. Explained => BalanceIsExplained
  BY DEF Explained, BalanceIsExplained
<1> QED
  BY <1>1, <1>2, <1>3, Invariance, PTL DEF Spec
=============================================================================
