--------------------------- MODULE ServicePayment ---------------------------
(***************************************************************************)
(* Service payments (app/services/service_payment_service.py): a user pays *)
(* an electricity, water or airtime bill out of the wallet, possibly with  *)
(* an idempotency key, and may reconcile a payment that stayed pending.    *)
(*                                                                         *)
(* One step is what another thread can observe: an unlocked read, the      *)
(* acquisition of the wallet row, the flushed INSERT (which claims payment *)
(* reference and key in the unique indexes), and the end of the database   *)
(* transaction.  A payment row is locked only under its wallet's lock, so  *)
(* that lock stands for both.  The ledger is modelled in Transfer.         *)
(***************************************************************************)
EXTENDS Integers, FiniteSets, Sums

CONSTANTS Users,    \* users, each with one wallet
          Opening,  \* Opening[u]: the balance of u's wallet at the start
          Threads,  \* request threads of all server processes
          Payments, \* payment references; bound: at most this many rows
          Keys,     \* idempotency keys
          Accounts, \* account numbers, by what the provider says of them
          Amounts,  \* amounts that pass validation
          None      \* no user, key, payment or thread

ASSUME OpeningAssumption == Opening \in [Users -> Nat]
ASSUME AmountsAssumption == Amounts \subseteq Nat \ {0}
ASSUME AccountsAssumption == Accounts \subseteq {"SUCCESS", "PENDING", "FAILED"}
ASSUME NoneAssumption == None \notin Users \cup Threads \cup Payments \cup Keys
ASSUME ErrorAssumption == "error" \notin Payments

VARIABLES
  rows,    \* committed rows of service_payments
  balance, \* wallets.balance
  locked,  \* the thread that holds a wallet row
  pc,      \* where a thread is
  req,     \* the request it serves
  mine,    \* the payment it has flushed, or was asked to reconcile
  seen,    \* the balance it read under the lock
  session, \* the payment status its session holds
  answer   \* what its last request was answered with

tables == <<rows, balance>>
vars   == <<tables, locked, pc, req, mine, seen, session, answer>>

(* INITIATED and PROCESSING are never committed. *)
Statuses == {"Pending", "Completed", "Failed", "Refunded"}

(* fault: a refunded payment counts as open *)
OpenIfRefunded == {"Completed", "Failed"}

Terminal == {"Completed", "Failed", "Refunded"}

Requests == [user : Users \cup {None}, key : Keys \cup {None},
             account : Accounts \cup {None}, amount : Amounts \cup {0}]
NoRequest == [user |-> None, key |-> None, account |-> None, amount |-> 0]
Rows == [id : Payments, user : Users, key : Keys \cup {None},
         account : Accounts, amount : Amounts, status : Statuses]

TypeOK ==
  /\ rows \in SUBSET Rows
  /\ balance \in [Users -> Nat]
  /\ locked \in [Users -> Threads \cup {None}]
  /\ pc \in [Threads -> {"idle", "find", "lock", "insert", "settle",
                         "read", "relock", "finalize"}]
  /\ req \in [Threads -> Requests]
  /\ mine \in [Threads -> Payments \cup {None}]
  /\ seen \in [Threads -> Nat]
  /\ session \in [Threads -> Statuses \cup {None}]
  /\ answer \in [Threads -> Payments \cup {None, "error"}]

Init ==
  /\ rows = {}
  /\ balance = Opening
  /\ locked = [u \in Users |-> None]
  /\ pc = [w \in Threads |-> "idle"]
  /\ req = [w \in Threads |-> NoRequest]
  /\ mine = [w \in Threads |-> None]
  /\ seen = [w \in Threads |-> 0]
  /\ session = [w \in Threads |-> None]
  /\ answer = [w \in Threads |-> None]
-----------------------------------------------------------------------------
(* Helpers. *)

Goto(w, l) == pc' = [pc EXCEPT ![w] = l]

(* The request is answered; commit or rollback frees the wallet row and what *)
(* was claimed in the indexes.                                               *)
End(w, reply) ==
  /\ Goto(w, "idle")
  /\ answer' = [answer EXCEPT ![w] = reply]
  /\ locked' = [u \in Users |-> IF locked[u] = w THEN None ELSE locked[u]]
  /\ req' = [req EXCEPT ![w] = NoRequest]
  /\ mine' = [mine EXCEPT ![w] = None]
  /\ seen' = [seen EXCEPT ![w] = 0]
  /\ session' = [session EXCEPT ![w] = None]

(* fault: the wallet is read without FOR UPDATE *)
AlwaysFree(u) == TRUE

WalletIsFree(u) == locked[u] = None

(* The wallet row of u is granted and its balance read. *)
Lock(w, u) ==
  /\ WalletIsFree(u)
  /\ locked' = [locked EXCEPT ![u] = w]
  /\ seen' = [seen EXCEPT ![w] = balance[u]]

(* fault: the lookup ignores whose key it is *)
AnybodysPayment(u, k) == {r \in rows : k # None /\ r.key = k}

(* The payment a user already made under a key. *)
OwnPayment(u, k) == {r \in rows : k # None /\ r.user = u /\ r.key = k}

(* fault: the key column has no unique constraint *)
NeverStored(k) == FALSE

(* The unique constraint on idempotency_key spans all users. *)
KeyIsStored(k) == k # None /\ \E r \in rows : r.key = k

(* fault: a key is claimed when it is looked up, before the wallet is locked *)
ClaimsEarly(x, k) == pc[x] \in {"lock", "insert", "settle"} /\ req[x].key = k

(* x has flushed a payment under the key k and has not committed it.         *)
Claims(x, k) == pc[x] = "settle" /\ req[x].key = k

(* An INSERT waits for the transaction that flushed the same key before it. *)
KeyIsClaimed(w, k) == k # None /\ \E x \in Threads \ {w} : Claims(x, k)

IsFresh(p) == /\ \A r \in rows : r.id # p
              /\ \A x \in Threads : pc[x] = "settle" => mine[x] # p

(* What initiate_payment makes of the provider's answer. *)
OutcomeOf(s) == CASE s = "SUCCESS" -> "Completed"
                  [] s = "PENDING" -> "Pending"
                  [] s = "FAILED"  -> "Refunded"

(* fault: the balance is not checked *)
AlwaysAffords(w) == TRUE

(* WalletService.debit refuses what the balance does not cover. *)
Affords(w) == seen[w] >= req[w].amount

(* What the wallet is left with: a refused payment is refunded at once. *)
LeftOf(b, r) == IF r.account = "FAILED" THEN b ELSE b - r.amount
-----------------------------------------------------------------------------
(* initiate_payment *)

Pay(w, u, k, s, a) ==
  /\ pc[w] = "idle"
  /\ req' = [req EXCEPT ![w] = [user |-> u, key |-> k, account |-> s, amount |-> a]]
  /\ Goto(w, "find")
  /\ UNCHANGED <<tables, locked, mine, seen, session, answer>>

(* A repeat of a committed request is answered with its payment. *)
FindRepeat(w) ==
  LET own == OwnPayment(req[w].user, req[w].key)
  IN /\ pc[w] = "find"
     /\ IF own = {}
          THEN /\ Goto(w, "lock")
               /\ UNCHANGED <<locked, req, mine, seen, session, answer>>
          ELSE \E r \in own : End(w, r.id)
     /\ UNCHANGED tables

LockForPayment(w) ==
  /\ pc[w] = "lock"
  /\ Lock(w, req[w].user)
  /\ Goto(w, "insert")
  /\ UNCHANGED <<tables, req, mine, session, answer>>

(* The first flush: reference and key are claimed in the unique indexes. *)
Insert(w, p) ==
  /\ pc[w] = "insert"
  /\ ~KeyIsStored(req[w].key) /\ ~KeyIsClaimed(w, req[w].key)
  /\ IsFresh(p)
  /\ mine' = [mine EXCEPT ![w] = p]
  /\ Goto(w, "settle")
  /\ UNCHANGED <<tables, locked, req, seen, session, answer>>

(* fault: the INSERT of a stored key is repeated until it succeeds *)
DuplicateKeyRetried(w) == FALSE

(* The flush raises IntegrityError, outside of the try that expects it. *)
DuplicateKey(w) ==
  /\ pc[w] = "insert"
  /\ KeyIsStored(req[w].key)
  /\ End(w, "error")
  /\ UNCHANGED tables

(* The random reference is one that a stored payment has. *)
ReferenceCollides(w) ==
  /\ pc[w] = "insert"
  /\ rows # {}
  /\ End(w, "error")
  /\ UNCHANGED tables

(* Debit, provider, refund of a refused payment, commit. *)
Settle(w) ==
  LET r == req[w]
  IN /\ pc[w] = "settle"
     /\ Affords(w)
     /\ rows' = rows \cup {[id |-> mine[w], user |-> r.user, key |-> r.key,
                            account |-> r.account, amount |-> r.amount,
                            status |-> OutcomeOf(r.account)]}
     /\ balance' = [balance EXCEPT ![r.user] = LeftOf(seen[w], r)]
     /\ End(w, mine[w])

(* INSUFFICIENT_BALANCE: nothing of the payment remains. *)
Refuse(w) ==
  /\ pc[w] = "settle"
  /\ ~Affords(w)
  /\ End(w, "error")
  /\ UNCHANGED tables
-----------------------------------------------------------------------------
(* reconcile_payment *)

Reconcile(w, r) ==
  /\ pc[w] = "idle"
  /\ req' = [req EXCEPT ![w] = [user |-> r.user, key |-> r.key,
                                account |-> r.account, amount |-> r.amount]]
  /\ mine' = [mine EXCEPT ![w] = r.id]
  /\ Goto(w, "read")
  /\ UNCHANGED <<tables, locked, seen, session, answer>>

(* The first read, without a lock, loads the row into the session; a settled *)
(* payment is returned as it is.                                             *)
ReadPayment(w) ==
  \E r \in rows :
     /\ pc[w] = "read" /\ r.id = mine[w]
     /\ IF r.status \in Terminal
          THEN End(w, r.id)
          ELSE /\ session' = [session EXCEPT ![w] = r.status]
               /\ Goto(w, "relock")
               /\ UNCHANGED <<locked, req, mine, seen, answer>>
     /\ UNCHANGED tables

LockForReconcile(w) ==
  /\ pc[w] = "relock"
  /\ Lock(w, req[w].user)
  /\ Goto(w, "finalize")
  /\ UNCHANGED <<tables, req, mine, session, answer>>

(* The re-check.  The row is selected again FOR UPDATE, but without          *)
(* populate_existing: the session keeps the status it has.  It is never      *)
(* terminal here, so the early return of the code is never taken.  Only an   *)
(* account that stays PENDING gets here, and PENDING now means success.      *)
Finalize(w) ==
  \E r \in rows :
     /\ pc[w] = "finalize" /\ r.id = mine[w]
     /\ session[w] \notin Terminal
     /\ rows' = (rows \ {r}) \cup {[r EXCEPT !.status = "Completed"]}
     /\ End(w, r.id)
     /\ UNCHANGED balance

(* An exception anywhere, a failed commit or the death of the process. *)
Abort(w) ==
  /\ pc[w] # "idle"
  /\ End(w, "error")
  /\ UNCHANGED tables
-----------------------------------------------------------------------------
Request(w) ==
  \/ \E u \in Users, k \in Keys \cup {None}, s \in Accounts, a \in Amounts :
        Pay(w, u, k, s, a)
  \/ \E r \in rows : Reconcile(w, r)

Work(w) ==
  \/ FindRepeat(w) \/ (\E p \in Payments : Insert(w, p)) \/ DuplicateKey(w)
  \/ Settle(w) \/ Refuse(w) \/ ReadPayment(w) \/ Finalize(w)

(* A collision nobody is owed, unless all references of the model are used.  *)
OutOfReferences(w) ==
  /\ \A p \in Payments : ~IsFresh(p)
  /\ ~KeyIsStored(req[w].key)
  /\ ReferenceCollides(w)

Next == \E w \in Threads : \/ Request(w) \/ Work(w) \/ Abort(w) \/ ReferenceCollides(w)
                           \/ LockForPayment(w) \/ LockForReconcile(w)

Spec == Init /\ [][Next]_vars

(* A request that was started is carried on; a wallet row, or a claimed key, *)
(* that is freed again and again is given to every thread that waits for it. *)
Fairness ==
  \A w \in Threads : /\ SF_vars(Work(w))
                     /\ SF_vars(OutOfReferences(w))
                     /\ SF_vars(LockForPayment(w))
                     /\ SF_vars(LockForReconcile(w))

FairSpec == Spec /\ Fairness
-----------------------------------------------------------------------------
(* Safety. *)

(* However often and from wherever a request is repeated, one key has at     *)
(* most one payment, stored or about to be (idempotency_key: 'instead of     *)
(* debiting the wallet a second time').                                      *)
OnePaymentPerKey ==
  /\ \A r, t \in rows : r.key # None /\ r.key = t.key => r = t
  /\ \A w \in Threads : pc[w] = "settle" =>
        /\ ~KeyIsStored(req[w].key)
        /\ ~KeyIsClaimed(w, req[w].key)

(* The payments that u is charged for: all but the refunded ones.            *)
Paid(u) == {r \in rows : r.user = u /\ r.status # "Refunded"}

(* A wallet has paid exactly for its payments that were not refunded: no     *)
(* debit is lost, doubled or left behind by a refused or failed request.     *)
SpendingIsExplained == \A u \in Users : balance[u] + Worth(Paid(u)) = Opening[u]

(* What a request works with: a user and an amount throughout, and from the  *)
(* INSERT on a reference that is its own, or that of the payment it settles. *)
RequestsMakeSense ==
  \A w \in Threads :
     /\ pc[w] # "idle" => /\ req[w].user \in Users
                          /\ req[w].account \in Accounts
                          /\ req[w].amount \in Amounts
     /\ pc[w] = "settle" => /\ mine[w] \in Payments
                            /\ \A r \in rows : r.id # mine[w]
                            /\ \A x \in Threads \ {w} :
                                  pc[x] = "settle" => mine[x] # mine[w]
     /\ pc[w] \in {"read", "relock", "finalize"} =>
           \E r \in rows : /\ r.id = mine[w]
                           /\ r.user = req[w].user /\ r.key = req[w].key

(* A payment reference names one payment. *)
ReferencesDiffer == \A r, t \in rows : r.id = t.id => r = t

IInv == TypeOK /\ RequestsMakeSense /\ ReferencesDiffer /\ OnePaymentPerKey

(* Where a thread holds the wallet of its request.                           *)
Holding == {"insert", "settle", "finalize"}

(* A thread that has locked its wallet keeps it to the end of its request,   *)
(* and the balance it read is the balance still.                             *)
WalletsHeld ==
  \A w \in Threads : pc[w] \in Holding =>
     locked[req[w].user] = w /\ seen[w] = balance[req[w].user]

(* A wallet is locked for a request that is about it and has not ended.      *)
WalletsOwned ==
  \A w \in Threads, u \in Users : locked[u] = w => pc[w] \in Holding /\ req[w].user = u

(* w waits for what x has: the row of its wallet, or the key of its payment. *)
WaitsFor(w, x) ==
  \/ pc[w] \in {"lock", "relock"} /\ locked[req[w].user] = x
  \/ pc[w] = "insert" /\ x # w /\ req[w].key # None /\ Claims(x, req[w].key)

(* Nobody waits for a thread that is done, and no chain of waits is longer   *)
(* than two: who waits for a wallet may wait for one who waits for a key,    *)
(* and that one waits for one who waits for nobody.  So no ring of waiting   *)
(* requests can close over wallets and keys, however many there are          *)
(* (initiate_payment: the wallet is locked before the INSERT is flushed).    *)
WaitsEnd ==
  \A w, x \in Threads : WaitsFor(w, x) =>
     /\ pc[x] # "idle"
     /\ \A y, z \in Threads : ~(WaitsFor(x, y) /\ WaitsFor(y, z))

(* Whoever is answered with a payment made it: a key that another user chose *)
(* as well never returns that user's payment (ServicePayment.query.filter_by *)
(* user_id).                                                                 *)
AnswerIsOwn ==
  [][\A w \in Threads : answer'[w] # answer[w] =>
       \A r \in rows' : r.id = answer'[w] =>
          r.user = req[w].user /\ r.key = req[w].key]_vars

(* While a reconciliation works on a payment it stays Pending or becomes     *)
(* Completed: it is never refunded, so finalizing it twice moves no money.   *)
ReconciledIsPaid ==
  \A w \in Threads, r \in rows :
     pc[w] \in {"relock", "finalize"} /\ r.id = mine[w] =>
        r.status \in {"Pending", "Completed"}

(* A row as the bill it records: of the account only the outcome matters.    *)
BillOf(r) == [id |-> r.id, user |-> r.user, key |-> r.key,
              amount |-> r.amount, status |-> r.status]

BillsOf == INSTANCE Bills WITH money <- balance, bills <- {BillOf(r) : r \in rows}

(* However requests interleave, repeat and fail, what others can see of them *)
(* is that bills are charged once, declined for nothing and completed for    *)
(* nothing, one at a time, and that no bill is lost or altered               *)
(* (ServicePaymentService: initiate_payment, reconcile_payment).             *)
ImplementsBills == BillsOf!Spec
-----------------------------------------------------------------------------
(* Liveness. *)

(* Every request is answered, also when requests wait for each other's       *)
(* wallet rows and for each other's keys.                                    *)
RequestsEnd == \A w \in Threads : pc[w] # "idle" ~> pc[w] = "idle"
-----------------------------------------------------------------------------
(* A claim of the repository's texts that the code does not keep. *)

(* Comment in initiate_payment: a request whose key was taken meanwhile      *)
(* returns the surviving row.                                                *)
DuplicateGetsSurvivor ==
  [][\A w \in Threads : DuplicateKey(w) /\ OwnPayment(req[w].user, req[w].key) # {} =>
       \E r \in OwnPayment(req[w].user, req[w].key) : answer'[w] = r.id]_vars
=============================================================================
