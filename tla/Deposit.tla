------------------------------- MODULE Deposit -------------------------------
(***************************************************************************)
(* The life of M-Pesa deposits: app/services/mpesa_service.py together     *)
(* with the wallet and ledger writes it makes.  Every thread of every      *)
(* server process is a worker with a program counter; a worker is either   *)
(* a callback handler (process_callback) or a recoverer (_recover_one, run *)
(* by the sweeper, by an administrator or by the deposit's owner).         *)
(*                                                                         *)
(* One step is one database statement or transaction end, or one answer    *)
(* of Daraja, that another worker can observe.  The database is            *)
(* PostgreSQL at READ COMMITTED: SELECT ... FOR UPDATE waits for the row,  *)
(* a commit publishes everything at once, and a rollback or a broken       *)
(* connection publishes nothing and frees the locks.                       *)
(***************************************************************************)
EXTENDS Naturals, FiniteSets, Sums

CONSTANTS Deposits,      \* deposit requests, one per call of initiate_deposit
          Wallets,       \* customer wallets
          Owner,         \* Owner[d]: the wallet deposit d is for
          Amount,        \* Amount[d]: the stored requested amount
          Handlers,      \* callback threads
          Recoverers,    \* sweeper, admin and user reconciliation threads
          ProcessOf,     \* ProcessOf[h]: the server process of a callback thread
          MaxAttempts,   \* MPESA_MAX_RECONCILIATION_ATTEMPTS
          MaxBalance,    \* what the Numeric(12, 2) balance column can hold
          Openings,      \* what a wallet may hold before the first deposit
          CallbackBound, \* bound: notifications Daraja sends for one deposit
          UnreadBound,   \* bound: reads of a deposit's attempts that fail
          None           \* no worker, no deposit, no answer

Workers == Handlers \cup Recoverers

ASSUME OwnerAssumption == Owner \in [Deposits -> Wallets]
ASSUME AmountAssumption == Amount \in [Deposits -> Nat \ {0}]
ASSUME BoundsAssumption == /\ MaxAttempts \in Nat
                           /\ MaxBalance \in Nat
                           /\ Openings \subseteq 0 .. MaxBalance
                           /\ CallbackBound \in Nat
                           /\ UnreadBound \in Nat
ASSUME WorkersAssumption == Handlers \cap Recoverers = {}
ASSUME FiniteAssumption == /\ IsFiniteSet(Handlers)
                           /\ IsFiniteSet(Recoverers)
                           /\ Recoverers # {}
ASSUME NoneAssumption ==
  None \notin Deposits \cup Workers \cup {"paid", "cancelled", "inconclusive", "unreachable"}

VARIABLES
  status,     \* mpesa_transactions.status; "absent" while there is no row
  matched,    \* the row carries a checkout_request_id
  attempts,   \* reconciliation_attempts
  cooling,    \* deposits whose last_reconciled_at is within the backoff
  balance,    \* wallets.balance
  opening,    \* history: what the wallet held before the first deposit
  ledger,     \* wallet_ledger entries of type CREDIT that refer to a deposit
  rowLock,    \* the worker whose transaction holds the deposit row
  walletLock, \* the worker whose transaction holds the wallet row
  advisory,   \* the holder of the per-deposit advisory lock
  stranded,   \* deposits whose lock a session in the pool still holds
  lost,       \* history: recoverers at work whose lock session has ended
  pc,         \* where a worker is
  dep,        \* the deposit it works on
  answer,     \* what Daraja answered its status query
  seen,       \* the balance it read under the wallet lock
  push,       \* where the request that starts a deposit is
  payment,    \* what the customer did at M-Pesa (not visible to the program)
  notified,   \* notifications Daraja has sent for a deposit
  unread      \* history: reads of the deposit's attempts that have failed

rowVars      == <<status, matched, attempts, cooling>>
moneyVars    == <<balance, ledger, opening>>
advisoryVars == <<advisory, stranded, lost>>
lockVars     == <<rowLock, walletLock, advisoryVars>>
workVars     == <<pc, dep, answer, seen>>
envVars      == <<push, payment, notified, unread>>
vars         == <<rowVars, moneyVars, lockVars, workVars, envVars>>

Recoverable == {"Pending", "ReconciliationPending"}
Terminal    == {"Completed", "Failed", "ManualReviewRequired"}
Statuses    == {"absent"} \cup Recoverable \cup Terminal

(* fault: Completed is taken for a status that may still change *)
IsTerminalButCompleted(d) == status[d] \in {"Failed", "ManualReviewRequired"}

IsTerminal(d) == status[d] \in Terminal

PushStates   == {"idle", "pushing", "accepted", "refused", "done"}
Payments     == {"none", "undecided", "paid", "cancelled"}
Answers      == {"paid", "cancelled", "inconclusive", "unreachable", "throttled"}
HandlerPcs   == {"idle", "query", "waiting", "apply", "decide", "credit"}
RecovererPcs == {"idle", "meta", "tryLock", "query", "apply", "decide",
                 "credit", "review", "hold"}
Pcs          == HandlerPcs \cup RecovererPcs

Entry(d, b) == [ref |-> d, wallet |-> Owner[d], amount |-> Amount[d],
                before |-> b, after |-> b + Amount[d]]

TypeOK ==
  /\ status \in [Deposits -> Statuses]
  /\ matched \in [Deposits -> BOOLEAN]
  /\ attempts \in [Deposits -> Nat]
  /\ cooling \in SUBSET Deposits
  /\ balance \in [Wallets -> Nat]
  /\ opening \in [Wallets -> Openings]
  /\ ledger \in SUBSET [ref : Deposits, wallet : Wallets, amount : Nat,
                        before : Nat, after : Nat]
  /\ rowLock \in [Deposits -> Workers \cup {None}]
  /\ walletLock \in [Wallets -> Workers \cup {None}]
  /\ advisory \in [Deposits -> Recoverers \cup {None}]
  /\ stranded \in SUBSET Deposits
  /\ lost \in SUBSET Recoverers
  /\ pc \in [Workers -> Pcs]
  /\ \A h \in Handlers : pc[h] \in HandlerPcs
  /\ \A r \in Recoverers : pc[r] \in RecovererPcs
  /\ dep \in [Workers -> Deposits \cup {None}]
  /\ \A w \in Workers : dep[w] = None <=> pc[w] = "idle"
  /\ answer \in [Workers -> Answers \cup {None}]
  /\ seen \in [Workers -> Nat]
  /\ push \in [Deposits -> PushStates]
  /\ payment \in [Deposits -> Payments]
  /\ notified \in [Deposits -> Nat]
  /\ unread \in [Deposits -> Nat]

Init ==
  /\ status = [d \in Deposits |-> "absent"]
  /\ matched = [d \in Deposits |-> FALSE]
  /\ attempts = [d \in Deposits |-> 0]
  /\ cooling = {}
  /\ opening \in [Wallets -> Openings]
  /\ balance = opening
  /\ ledger = {}
  /\ rowLock = [d \in Deposits |-> None]
  /\ walletLock = [u \in Wallets |-> None]
  /\ advisory = [d \in Deposits |-> None]
  /\ stranded = {}
  /\ lost = {}
  /\ pc = [w \in Workers |-> "idle"]
  /\ dep = [w \in Workers |-> None]
  /\ answer = [w \in Workers |-> None]
  /\ seen = [w \in Workers |-> 0]
  /\ push = [d \in Deposits |-> "idle"]
  /\ payment = [d \in Deposits |-> "none"]
  /\ notified = [d \in Deposits |-> 0]
  /\ unread = [d \in Deposits |-> 0]
-----------------------------------------------------------------------------
(* Helpers shared by the actions. *)

(* w holds none of these locks any more. *)
Freed(lock, w) == [k \in DOMAIN lock |-> IF lock[k] = w THEN None ELSE lock[k]]

(* The finally block of _recover_one.  pg_advisory_unlock either works, or   *)
(* it fails, the failure is logged, and close() gives the session back to    *)
(* the pool with the lock still on it.  On a session that has ended there is *)
(* nothing left to unlock.                                                   *)
Unlock(w) ==
  /\ advisory' = Freed(advisory, w)
  /\ stranded' \in {stranded, stranded \cup {d \in Deposits : advisory[d] = w}}
  /\ lost' = lost \ {w}

(* fault: the worker keeps the deposit it was working on *)
ReturnKeepingDeposit(w) ==
  /\ pc' = [pc EXCEPT ![w] = "idle"]
  /\ UNCHANGED dep
  /\ answer' = [answer EXCEPT ![w] = None]
  /\ seen' = [seen EXCEPT ![w] = 0]
  /\ rowLock' = Freed(rowLock, w)
  /\ walletLock' = Freed(walletLock, w)
  /\ Unlock(w)

(* A worker returns: its transaction ends and frees the rows it held, and a  *)
(* recoverer's finally block runs.                                           *)
Return(w) ==
  /\ pc' = [pc EXCEPT ![w] = "idle"]
  /\ dep' = [dep EXCEPT ![w] = None]
  /\ answer' = [answer EXCEPT ![w] = None]
  /\ seen' = [seen EXCEPT ![w] = 0]
  /\ rowLock' = Freed(rowLock, w)
  /\ walletLock' = Freed(walletLock, w)
  /\ Unlock(w)

Goto(w, l) == pc' = [pc EXCEPT ![w] = l]

(* _record_reconciliation_attempt: count the attempt and stamp its time. *)
RecordAttempt(d) == /\ attempts' = [attempts EXCEPT ![d] = @ + 1]
                    /\ cooling' = cooling \cup {d}

(* The callback that owns the Daraja query for d in process p.  Its         *)
(* threading.Event lives from before the query to the query's return.       *)
QueryInFlight(p, d) == \E h \in Handlers : /\ ProcessOf[h] = p
                                           /\ pc[h] = "query"
                                           /\ dep[h] = d

(* faults: the row is read without FOR UPDATE *)
RowAlwaysFree(d) == TRUE
WalletAlwaysFree(u) == TRUE

RowIsFree(d) == rowLock[d] = None
WalletIsFree(u) == walletLock[u] = None

(* unique_wallet_ledger_reference: one credit per wallet and reference, and *)
(* the reference of a deposit is its checkout_request_id.                   *)
ReferenceIsFree(d) == \A e \in ledger : e.ref # d
-----------------------------------------------------------------------------
(* initiate_deposit: Daraja first, the row afterwards. *)

RequestDeposit(d) ==
  /\ push[d] = "idle"
  /\ push' = [push EXCEPT ![d] = "pushing"]
  /\ UNCHANGED <<rowVars, moneyVars, lockVars, workVars, payment, notified, unread>>

(* Daraja takes the request and prompts the customer. *)
DarajaAccepts(d) ==
  /\ push[d] = "pushing"
  /\ payment[d] = "none"
  /\ payment' = [payment EXCEPT ![d] = "undecided"]
  /\ UNCHANGED <<rowVars, moneyVars, lockVars, workVars, push, notified, unread>>

(* ResponseCode 0 reaches the server. *)
PushAccepted(d) ==
  /\ push[d] = "pushing"
  /\ payment[d] # "none"
  /\ push' = [push EXCEPT ![d] = "accepted"]
  /\ UNCHANGED <<rowVars, moneyVars, lockVars, workVars, payment, notified, unread>>

(* send_stk_push raises ApiError (throttled, cooled down, refused, or the   *)
(* answer timed out after Daraja took the request), or the code is not 0.   *)
PushRefused(d) ==
  /\ push[d] = "pushing"
  /\ push' = [push EXCEPT ![d] = "refused"]
  /\ UNCHANGED <<rowVars, moneyVars, lockVars, workVars, payment, notified, unread>>

(* The Pending row is committed with the CheckoutRequestID of the answer,   *)
(* or with NULL when the answer has none.                                   *)
PersistPending(d) ==
  /\ push[d] = "accepted"
  /\ push' = [push EXCEPT ![d] = "done"]
  /\ status' = [status EXCEPT ![d] = "Pending"]
  /\ \E m \in BOOLEAN : matched' = [matched EXCEPT ![d] = m]
  /\ UNCHANGED <<attempts, cooling, moneyVars, lockVars, workVars, payment, notified, unread>>

(* _persist_failed_attempt: a Failed row without checkout_request_id. *)
PersistFailedAttempt(d) ==
  /\ push[d] = "refused"
  /\ push' = [push EXCEPT ![d] = "done"]
  /\ status' = [status EXCEPT ![d] = "Failed"]
  /\ UNCHANGED <<matched, attempts, cooling, moneyVars, lockVars, workVars,
                 payment, notified, unread>>

(* The commit fails (rolled back, 500 to the user) or the process dies. *)
RequestLost(d) ==
  /\ push[d] \in {"pushing", "accepted", "refused"}
  /\ push' = [push EXCEPT ![d] = "done"]
  /\ UNCHANGED <<rowVars, moneyVars, lockVars, workVars, payment, notified, unread>>
-----------------------------------------------------------------------------
(* The customer and the clock. *)

CustomerDecides(d) ==
  /\ payment[d] = "undecided"
  /\ \E p \in {"paid", "cancelled"} : payment' = [payment EXCEPT ![d] = p]
  /\ UNCHANGED <<rowVars, moneyVars, lockVars, workVars, push, notified, unread>>

(* _mpesa_backoff_seconds have gone by since last_reconciled_at. *)
BackoffElapses(d) ==
  /\ d \in cooling
  /\ cooling' = cooling \ {d}
  /\ UNCHANGED <<status, matched, attempts, moneyVars, lockVars, workVars, envVars>>
-----------------------------------------------------------------------------
(* process_callback, up to the answer of Daraja. *)

(* Daraja notifies the server at most CallbackBound times, in any order with *)
(* the other steps.  The row is found without a lock and the read is rolled  *)
(* back; then one callback per process asks Daraja and the others wait.      *)
CallbackArrives(h, d) ==
  /\ pc[h] = "idle"
  /\ payment[d] # "none"
  /\ notified[d] < CallbackBound
  /\ matched[d]
  /\ notified' = [notified EXCEPT ![d] = @ + 1]
  /\ dep' = [dep EXCEPT ![h] = d]
  /\ Goto(h, IF QueryInFlight(ProcessOf[h], d) THEN "waiting" ELSE "query")
  /\ UNCHANGED <<rowVars, moneyVars, lockVars, answer, seen, push, payment, unread>>

(* No row has this checkout_request_id yet, or ever: acknowledged, dropped. *)
CallbackUnknown(d) ==
  /\ payment[d] # "none"
  /\ notified[d] < CallbackBound
  /\ ~matched[d]
  /\ notified' = [notified EXCEPT ![d] = @ + 1]
  /\ UNCHANGED <<rowVars, moneyVars, lockVars, workVars, push, payment, unread>>

(* The owner's query ended or the wait timed out: the waiter reads the row   *)
(* under its lock, rolls back and returns what it read.                      *)
CallbackReturnsLatest(h) ==
  /\ pc[h] = "waiting"
  /\ RowIsFree(dep[h])
  /\ Return(h)
  /\ UNCHANGED <<rowVars, moneyVars, envVars>>
-----------------------------------------------------------------------------
(* _recover_one, up to the answer of Daraja. *)

(* A sweep's snapshot or a user's request names the deposit.  Nothing is     *)
(* remembered of the row but its id, so its status may be anything by now.   *)
Select(r, d) ==
  /\ pc[r] = "idle"
  /\ matched[d]
  /\ dep' = [dep EXCEPT ![r] = d]
  /\ Goto(r, "meta")
  /\ UNCHANGED <<rowVars, moneyVars, lockVars, answer, seen, envVars>>

(* fault: the limit is met one attempt late *)
ExhaustedLate(d) == attempts[d] > MaxAttempts

(* attempts and last_reconciled_at are read without a lock. *)
Exhausted(d) == attempts[d] >= MaxAttempts

ReadMeta(r) ==
  /\ pc[r] = "meta"
  /\ \/ /\ Exhausted(dep[r])
        /\ Goto(r, "review")
        /\ UNCHANGED <<dep, answer, seen, lockVars>>
     \/ /\ ~Exhausted(dep[r])
        /\ dep[r] \in cooling
        /\ Return(r)
     \/ /\ ~Exhausted(dep[r])
        /\ dep[r] \notin cooling
        /\ Goto(r, "tryLock")
        /\ UNCHANGED <<dep, answer, seen, lockVars>>
  /\ UNCHANGED <<rowVars, moneyVars, envVars>>

(* The read raises: meta is None, so no attempts and no earlier try are      *)
(* known, and neither the budget nor the backoff holds the recoverer back.   *)
ReadMetaFails(r) ==
  /\ pc[r] = "meta"
  /\ unread[dep[r]] < UnreadBound
  /\ unread' = [unread EXCEPT ![dep[r]] = @ + 1]
  /\ Goto(r, IF MaxAttempts = 0 THEN "review" ELSE "tryLock")
  /\ UNCHANGED <<rowVars, moneyVars, lockVars, dep, answer, seen, push, payment, notified>>

(* fault: the result of pg_try_advisory_lock is not looked at *)
TryAdvisoryLockIgnored(r) ==
  /\ pc[r] = "tryLock"
  /\ advisory' = [advisory EXCEPT ![dep[r]] = r]
  /\ Goto(r, "query")
  /\ UNCHANGED <<rowVars, moneyVars, envVars, dep, answer, seen, rowLock, walletLock,
                 stranded, lost>>

(* pg_try_advisory_lock on a connection of its own: never waits.  A lock     *)
(* left on a session in the pool refuses everyone but a recoverer that draws *)
(* this very session: there the lock is re-entrant, and one unlock will not  *)
(* free it.                                                                  *)
TryAdvisoryLock(r) ==
  /\ pc[r] = "tryLock"
  /\ \/ /\ advisory[dep[r]] = None
        /\ advisory' = [advisory EXCEPT ![dep[r]] = r]
        /\ Goto(r, "query")
        /\ UNCHANGED <<dep, answer, seen, rowLock, walletLock, stranded, lost>>
     \/ /\ advisory[dep[r]] # None \/ dep[r] \in stranded
        /\ Return(r)
  /\ UNCHANGED <<rowVars, moneyVars, envVars>>

(* The session that holds the lock of d ends (the connection is idle while   *)
(* Daraja is asked, and idle in the pool once it is stranded there).  The    *)
(* lock is free, and a recoverer that relied on it is not told.              *)
LockSessionEnds(d) ==
  /\ advisory[d] # None \/ d \in stranded
  /\ advisory' = [advisory EXCEPT ![d] = None]
  /\ stranded' = stranded \ {d}
  /\ lost' = lost \cup ({advisory[d]} \ {None})
  /\ UNCHANGED <<rowVars, moneyVars, rowLock, walletLock, workVars, envVars>>
-----------------------------------------------------------------------------
(* Daraja answers: 0 only for a paid request and 1032 only for a cancelled   *)
(* one; anything else, an error, a timeout or a throttle at any time.        *)
PossibleAnswers(d) ==
  {"inconclusive", "unreachable", "throttled"}
    \cup (IF payment[d] \in {"paid", "cancelled"} THEN {payment[d]} ELSE {})

(* A throttled recoverer gives up at once; every other worker goes on to     *)
(* apply the answer.                                                         *)
QueryReturns(w, a) ==
  /\ pc[w] = "query"
  /\ a \in PossibleAnswers(dep[w])
  /\ IF a = "throttled" /\ w \in Recoverers
       THEN Return(w)
       ELSE /\ answer' = [answer EXCEPT ![w] = a]
            /\ Goto(w, "apply")
            /\ UNCHANGED <<dep, seen, lockVars>>
  /\ UNCHANGED <<rowVars, moneyVars, envVars>>
-----------------------------------------------------------------------------
(* The outcome is applied under the row lock. *)

(* _lock_mpesa_transaction: SELECT ... FOR UPDATE with populate_existing, so *)
(* the row stays as it was read until this worker's transaction ends.        *)
LockRow(w) ==
  /\ pc[w] \in {"apply", "review"}
  /\ RowIsFree(dep[w])
  /\ rowLock' = [rowLock EXCEPT ![dep[w]] = w]
  /\ Goto(w, IF pc[w] = "apply" THEN "decide" ELSE "hold")
  /\ UNCHANGED <<rowVars, moneyVars, walletLock, advisoryVars, dep, answer, seen, envVars>>

(* Someone else settled the deposit while Daraja was asked. *)
SkipSettled(w) ==
  /\ pc[w] \in {"decide", "hold"}
  /\ IsTerminal(dep[w])
  /\ Return(w)
  /\ UNCHANGED <<rowVars, moneyVars, envVars>>

(* fault: the status is not looked at again under the lock *)
DecidingUnchecked(w, S) == pc[w] = "decide" /\ answer[w] \in S

Deciding(w, S) == pc[w] = "decide" /\ answer[w] \in S /\ ~IsTerminal(dep[w])

SetStatus(d, s) == status' = [status EXCEPT ![d] = s]

(* faults: a throttle is counted as an attempt, or nothing is *)
KeepRecoverableCharged(w) ==
  /\ Deciding(w, {"inconclusive", "unreachable", "throttled"})
  /\ SetStatus(dep[w], "ReconciliationPending")
  /\ RecordAttempt(dep[w])
  /\ Return(w)
  /\ UNCHANGED <<matched, moneyVars, envVars>>

KeepRecoverableUncounted(w) ==
  /\ Deciding(w, {"inconclusive", "unreachable", "throttled"})
  /\ SetStatus(dep[w], "ReconciliationPending")
  /\ cooling' = cooling \cup {dep[w]}
  /\ Return(w)
  /\ UNCHANGED <<attempts, matched, moneyVars, envVars>>

(* No authoritative answer: the deposit stays recoverable.  Being throttled  *)
(* stamps the row (callbacks only) but costs no attempt.                     *)
KeepRecoverable(w) ==
  /\ Deciding(w, {"inconclusive", "unreachable", "throttled"})
  /\ SetStatus(dep[w], "ReconciliationPending")
  /\ IF answer[w] = "throttled"
       THEN cooling' = cooling \cup {dep[w]} /\ UNCHANGED attempts
       ELSE RecordAttempt(dep[w])
  /\ Return(w)
  /\ UNCHANGED <<matched, moneyVars, envVars>>

(* fault: an unrecognised code is taken for a cancellation *)
FailDepositOnAnyCode(w) ==
  /\ Deciding(w, {"cancelled", "inconclusive"})
  /\ SetStatus(dep[w], "Failed")
  /\ RecordAttempt(dep[w])
  /\ Return(w)
  /\ UNCHANGED <<matched, moneyVars, envVars>>

(* ResultCode 1032. *)
FailDeposit(w) ==
  /\ Deciding(w, {"cancelled"})
  /\ SetStatus(dep[w], "Failed")
  /\ RecordAttempt(dep[w])
  /\ Return(w)
  /\ UNCHANGED <<matched, moneyVars, envVars>>

(* ResultCode 0, but the notification names another amount. *)
AmountMismatch(h) ==
  /\ h \in Handlers
  /\ Deciding(h, {"paid"})
  /\ SetStatus(dep[h], "ReconciliationPending")
  /\ RecordAttempt(dep[h])
  /\ Return(h)
  /\ UNCHANGED <<matched, moneyVars, envVars>>

(* ResultCode 0: _credit_confirmed_deposit locks the wallet after the row    *)
(* and reads the balance it will add to.                                     *)
LockWallet(w) ==
  /\ Deciding(w, {"paid"})
  /\ LET u == Owner[dep[w]]
     IN /\ WalletIsFree(u)
        /\ walletLock' = [walletLock EXCEPT ![u] = w]
        /\ seen' = [seen EXCEPT ![w] = balance[u]]
  /\ Goto(w, "credit")
  /\ UNCHANGED <<rowVars, moneyVars, rowLock, advisoryVars, dep, answer, envVars>>

Fits(b) == b <= MaxBalance

(* fault: the deposit is completed in a transaction of its own, before the *)
(* wallet is written, and the process dies in between                       *)
CommitStatusFirst(w) ==
  /\ pc[w] = "credit"
  /\ SetStatus(dep[w], "Completed")
  /\ Return(w)
  /\ UNCHANGED <<matched, attempts, cooling, moneyVars, envVars>>

(* Balance, ledger entry and deposit row are committed together.  Only the   *)
(* recovery path counts a successful answer as an attempt.                   *)
CommitCredit(w) ==
  LET d == dep[w]
      entry == Entry(d, seen[w])
  IN /\ pc[w] = "credit"
     /\ ReferenceIsFree(d)
     /\ Fits(entry.after)
     /\ ledger' = ledger \cup {entry}
     /\ balance' = [balance EXCEPT ![Owner[d]] = entry.after]
     /\ SetStatus(d, "Completed")
     /\ IF w \in Recoverers THEN RecordAttempt(d) ELSE UNCHANGED <<attempts, cooling>>
     /\ Return(w)
     /\ UNCHANGED <<opening, matched, envVars>>

(* IntegrityError or a balance the column cannot hold: everything this       *)
(* transaction staged, the counted attempt included, is rolled back.         *)
CreditRolledBack(w) ==
  /\ pc[w] = "credit"
  /\ ~ReferenceIsFree(dep[w]) \/ ~Fits(seen[w] + Amount[dep[w]])
  /\ Return(w)
  /\ UNCHANGED <<rowVars, moneyVars, envVars>>

(* _transition_to_manual_review, under the row lock.  The attempts of a row    *)
(* never decrease, so the branch for a row that has fewer again is dead.      *)
HoldForReview(r) ==
  /\ pc[r] = "hold"
  /\ ~IsTerminal(dep[r])
  /\ Exhausted(dep[r])
  /\ SetStatus(dep[r], "ManualReviewRequired")
  /\ Return(r)
  /\ UNCHANGED <<matched, attempts, cooling, moneyVars, envVars>>

(* A worker's thread ends anywhere: an exception, a failed commit, or the    *)
(* death of its process, which is the end of each of its threads.            *)
Abort(w) ==
  /\ pc[w] # "idle"
  /\ Return(w)
  /\ UNCHANGED <<rowVars, moneyVars, envVars>>
-----------------------------------------------------------------------------
Initiate(d) == \/ RequestDeposit(d) \/ PushAccepted(d) \/ PushRefused(d)
               \/ PersistPending(d) \/ PersistFailedAttempt(d) \/ RequestLost(d)

Environment(d) == \/ DarajaAccepts(d) \/ CustomerDecides(d)
                  \/ BackoffElapses(d) \/ CallbackUnknown(d)
                  \/ LockSessionEnds(d)

Handle(h) == \/ \E d \in Deposits : CallbackArrives(h, d)
             \/ CallbackReturnsLatest(h)
             \/ AmountMismatch(h)

Recover(r) == \/ \E d \in Deposits : Select(r, d)
              \/ ReadMeta(r) \/ ReadMetaFails(r)
              \/ TryAdvisoryLock(r) \/ HoldForReview(r)

Work(w) == \/ \E a \in Answers : QueryReturns(w, a)
           \/ LockRow(w) \/ SkipSettled(w) \/ KeepRecoverable(w) \/ FailDeposit(w)
           \/ LockWallet(w) \/ CommitCredit(w) \/ CreditRolledBack(w) \/ Abort(w)

Next == \/ \E d \in Deposits : Initiate(d) \/ Environment(d)
        \/ \E h \in Handlers : Handle(h)
        \/ \E r \in Recoverers : Recover(r)
        \/ \E w \in Workers : Work(w)

Spec == Init /\ [][Next]_vars
-----------------------------------------------------------------------------
(* What the sweeper thread and Daraja owe to a deposit that is still open:   *)
(* the sweep returns to it every MPESA_RECONCILE_INTERVAL_SECONDS and its    *)
(* transactions are not all aborted for ever; time passes; Daraja does not   *)
(* throttle every query.  Users and administrators owe nothing, no           *)
(* notification has to come, and one that came ends somehow.                 *)
Sweeps(r) ==
  /\ SF_vars(\E d \in Deposits : status[d] \in Recoverable /\ Select(r, d))
  /\ SF_vars(ReadMeta(r))
  /\ SF_vars(TryAdvisoryLock(r))
  /\ SF_vars(\E a \in Answers \ {"throttled"} : QueryReturns(r, a))
  /\ SF_vars(LockRow(r))
  /\ SF_vars(SkipSettled(r) \/ KeepRecoverable(r) \/ FailDeposit(r) \/ LockWallet(r))
  /\ SF_vars(CommitCredit(r))
  /\ SF_vars(HoldForReview(r))

Fairness ==
  /\ \A d \in Deposits : WF_vars(BackoffElapses(d))
  /\ \A r \in Recoverers : Sweeps(r)
  /\ \A h \in Handlers : WF_vars(pc[h] # "idle" /\ (Abort(h) \/ Handle(h) \/ Work(h)))

FairSpec == Spec /\ Fairness
-----------------------------------------------------------------------------
(* Safety. *)

(* A deposit is credited at most once and exactly when it is Completed, and  *)
(* the entry is for the stored amount: callbacks, sweeps, administrators and *)
(* users reconciling the same deposit never add up (_credit_confirmed_deposit *)
(* commits balance, ledger, transaction and status in one transaction).      *)
CreditedOnce ==
  /\ \A e, f \in ledger : e.ref = f.ref => e = f
  /\ \A d \in Deposits : status[d] = "Completed" <=> ~ReferenceIsFree(d)
  /\ \A e \in ledger : e.wallet = Owner[e.ref] /\ e.after = e.before + Amount[e.ref]

(* The unique ledger reference is a backstop: locks and re-reads alone keep  *)
(* a second worker from ever trying to credit a deposit again.               *)
BackstopUnused ==
  \A w \in Workers : pc[w] = "credit" => ReferenceIsFree(dep[w])

(* A deposit is Completed only when the customer paid, and a deposit Daraja  *)
(* knows is Failed only when the customer cancelled: an inconclusive, late   *)
(* or missing answer settles nothing.                                        *)
OutcomeIsTrue ==
  \A d \in Deposits :
     /\ status[d] = "Completed" => payment[d] = "paid"
     /\ status[d] = "Failed" /\ matched[d] => payment[d] = "cancelled"

Credited(u) == {d \in Deposits : status[d] = "Completed" /\ Owner[d] = u}

(* A wallet holds what it held before, and the sum of its completed          *)
(* deposits: no credit of one deposit overwrites the credit of another.      *)
BalanceIsExplained ==
  \A u \in Wallets : balance[u] = opening[u] + SumOf(Amount, Credited(u))

(* No worker keeps a row locked while it waits for Daraja or for another     *)
(* callback (the comments of process_callback and _recover_one).             *)
NoLockAcrossNetwork ==
  \A w \in Workers : pc[w] \in {"query", "waiting"} =>
     /\ \A d \in Deposits : rowLock[d] # w
     /\ \A u \in Wallets : walletLock[u] # w

(* w waits for what x has: the row of its deposit, or the wallet to credit.  *)
WaitsFor(w, x) ==
  \/ pc[w] \in {"apply", "review", "waiting"} /\ rowLock[dep[w]] = x
  \/ pc[w] = "decide" /\ walletLock[Owner[dep[w]]] = x

(* Nobody waits for a worker that is done, and no chain of waits is longer   *)
(* than two: who waits for a row may wait for one who waits for a wallet,    *)
(* and that one waits for one who waits for nobody.  So no ring of waiting   *)
(* workers can close over rows and wallets, however many there are           *)
(* (_credit_confirmed_deposit: the row is locked before the wallet).         *)
WaitsEnd ==
  \A w, x \in Workers : WaitsFor(w, x) =>
     /\ pc[x] # "idle"
     /\ \A y, z \in Workers : ~(WaitsFor(x, y) /\ WaitsFor(y, z))

Reconciling(r) == pc[r] \in {"query", "apply", "decide", "credit"}

(* From the query to the commit, at most one recoverer works on a deposit,   *)
(* unless the session of the other's lock has ended behind its back: the     *)
(* dedicated connection keeps the lock until the state update is committed   *)
(* only as long as it lives.  A lock stranded in the pool lets nobody in     *)
(* beside a recoverer at work.                                               *)
RecoverersExcluded ==
  \A q, r \in Recoverers :
     Reconciling(q) /\ Reconciling(r) /\ dep[q] = dep[r] /\ q # r
       => q \in lost \/ r \in lost

(* The attempts spent on a deposit are bounded by its budget, the callbacks  *)
(* it got, the reads of the budget that failed, and the recoverers that read *)
(* the budget before it was used up.                                         *)
AttemptBudget ==
  \A d \in Deposits :
     attempts[d] <= MaxAttempts + notified[d] + unread[d] + (Cardinality(Recoverers) - 1)

(* Only a deposit whose budget is used up is held for review, and it is not  *)
(* credited.                                                                 *)
HeldIsExhausted ==
  \A d \in Deposits : status[d] = "ManualReviewRequired" =>
     attempts[d] >= MaxAttempts /\ ReferenceIsFree(d)
-----------------------------------------------------------------------------
(* The inductive invariant behind the safety properties. *)

(* Who holds a row or a wallet, read off the program counters. *)
LocksHeld ==
  /\ \A w \in Workers, d \in Deposits :
        rowLock[d] = w <=> (pc[w] \in {"decide", "hold", "credit"} /\ dep[w] = d)
  /\ \A w \in Workers, u \in Wallets :
        walletLock[u] = w <=> (pc[w] = "credit" /\ Owner[dep[w]] = u)

(* What a worker about to commit a credit has read is still so. *)
CreditReady ==
  \A w \in Workers : pc[w] = "credit" =>
     /\ ~IsTerminal(dep[w])
     /\ answer[w] = "paid"
     /\ seen[w] = balance[Owner[dep[w]]]

(* A definite answer stays true while it is being applied. *)
AnswerIsTrue ==
  \A w \in Workers :
     /\ pc[w] = "idle" => answer[w] = None
     /\ answer[w] \in {"paid", "cancelled"} => payment[dep[w]] = answer[w]

(* A row appears once, and only a row with a checkout id is worked on. *)
RowLifecycle ==
  /\ \A d \in Deposits : push[d] # "done" => status[d] = "absent"
  /\ \A d \in Deposits : status[d] = "absent" => ~matched[d]
  /\ \A w \in Workers : pc[w] # "idle" => matched[dep[w]]

IInv == /\ TypeOK /\ LocksHeld /\ CreditReady /\ AnswerIsTrue /\ RowLifecycle
        /\ CreditedOnce /\ OutcomeIsTrue /\ HeldIsExhausted
-----------------------------------------------------------------------------
(* Action properties. *)

(* Completed, Failed and ManualReviewRequired never change, whoever works on *)
(* the deposit with whatever it read before.                                 *)
TerminalIsFinal ==
  [][\A d \in Deposits : IsTerminal(d) => status'[d] = status[d]]_vars

(* An attempt is counted once for one answer of Daraja, never for a throttle *)
(* or a cooldown.                                                            *)
ThrottleIsFree ==
  [][\A d \in Deposits : attempts'[d] # attempts[d] =>
       /\ attempts'[d] = attempts[d] + 1
       /\ \E w \in Workers : /\ dep[w] = d /\ pc'[w] = "idle"
                              /\ answer[w] \notin {None, "throttled"}]_vars
-----------------------------------------------------------------------------
(* Liveness. *)

(* The column cannot hold the balance with this paid deposit. *)
Unpayable(d) == payment[d] = "paid" /\ ~Fits(balance[Owner[d]] + Amount[d])

(* A deposit that Daraja can be asked about is settled in the end, or held   *)
(* for a person, even if no notification ever comes.  Two things stand in    *)
(* its way for ever: a lock that is never seen free because it stays in the  *)
(* pool, and a credit the balance column cannot hold, whose rollback takes   *)
(* the counted attempt with it.                                              *)
SettledEventually ==
  \A d \in Deposits :
     ([]<>(d \notin stranded)) => (matched[d] ~> IsTerminal(d) \/ Unpayable(d))
-----------------------------------------------------------------------------
(* Refinement. *)

Outcome ==
  [d \in Deposits |->
     CASE status[d] = "Completed" -> "credited"
       [] status[d] = "ManualReviewRequired" -> "held"
       [] status[d] = "Failed" /\ matched[d] -> "failed"
       [] status[d] = "Failed" /\ ~matched[d] -> "rejected"
       [] OTHER -> "open"]

Contract == INSTANCE DepositContract WITH outcome <- Outcome, money <- balance

(* The whole machinery of callbacks, sweeps, locks and attempts is an        *)
(* implementation of DepositContract.                                        *)
ImplementsContract == Contract!Spec
-----------------------------------------------------------------------------
(* A claim of the repository's texts that the code does not keep. *)

(* mpesa_transaction.py: Failed means a failure or cancellation that is      *)
(* definitively established.                                                 *)
FailedIsDefinitive ==
  \A d \in Deposits : status[d] = "Failed" => payment[d] # "paid"
=============================================================================
