------------------------------ MODULE Transfer ------------------------------
(***************************************************************************)
(* Wallets, their ledger and the requests that move money:                 *)
(* app/services/transaction_service.py and wallet_service.py.  A thread    *)
(* serves a transfer between two users, or one of the movements that touch *)
(* a single wallet under get_locked_wallet: a confirmed deposit (no payer, *)
(* see Deposit) and a service payment (no payee; its row names the payer   *)
(* as receiver, and its refund is in ServicePayment).                      *)
(*                                                                         *)
(* One step is one statement, or the end of a transaction, that another    *)
(* thread can observe.  SELECT ... ORDER BY id FOR UPDATE locks the wallet *)
(* rows one after the other; all other writes are published by the commit. *)
(***************************************************************************)
EXTENDS Integers, Sequences, FiniteSets, Sums

CONSTANTS Wallets,    \* wallets, by wallets.id
          Opening,    \* Opening[u]: the balance wallet u was created with
          Threads,    \* request threads of all server processes
          Codes,      \* tx_codes; bound: at most this many movements commit
          Amounts,    \* amounts that pass validate_money_amount
          MaxBalance, \* what the Numeric(12, 2) balance column can hold
          None        \* no wallet, no thread

ASSUME WalletsAssumption == Wallets \subseteq Nat /\ IsFiniteSet(Wallets)
ASSUME OpeningAssumption == Opening \in [Wallets -> Nat]
ASSUME AmountsAssumption == Amounts \subseteq Nat \ {0}
ASSUME MaxBalanceAssumption == MaxBalance \in Nat
ASSUME NoneAssumption == None \notin Wallets \cup Threads

VARIABLES
  active,       \* users whose account is_account_active
  balance,      \* wallets.balance
  ledger,       \* wallet_ledger entries of each wallet, in id order
  transactions, \* rows of transactions
  locked,       \* the thread that holds a wallet row
  pc,           \* where a thread is
  job,          \* the movement it serves
  seen          \* seen[w][u]: the balance thread w read when it locked u

tableVars  == <<balance, ledger, transactions>>
threadVars == <<locked, pc, job, seen>>
vars       == <<active, tableVars, threadVars>>

Parties == Wallets \cup {None}
Jobs    == [from : Parties, to : Parties, amount : Amounts \cup {0}]
NoJob   == [from |-> None, to |-> None, amount |-> 0]
Entries == [kind : {"CREDIT", "DEBIT"}, amount : Amounts,
            before : Nat, after : Nat, code : Codes]
Rows    == [code : Codes, from : Parties, to : Parties, amount : Amounts]

TypeOK ==
  /\ active \in SUBSET Wallets
  /\ balance \in [Wallets -> Nat]
  /\ ledger \in [Wallets -> Seq(Entries)]
  /\ transactions \in SUBSET Rows
  /\ locked \in [Wallets -> Threads \cup {None}]
  /\ pc \in [Threads -> {"idle", "check", "locking", "move"}]
  /\ job \in [Threads -> Jobs]
  /\ seen \in [Threads -> [Wallets -> Nat]]

Init ==
  /\ active = Wallets
  /\ balance = Opening
  /\ ledger = [u \in Wallets |-> <<>>]
  /\ transactions = {}
  /\ locked = [u \in Wallets |-> None]
  /\ pc = [w \in Threads |-> "idle"]
  /\ job = [w \in Threads |-> NoJob]
  /\ seen = [w \in Threads |-> [u \in Wallets |-> 0]]
-----------------------------------------------------------------------------
(* Helpers. *)

Goto(w, l) == pc' = [pc EXCEPT ![w] = l]

(* The request ends: commit or rollback frees every row the thread holds. *)
End(w) ==
  /\ Goto(w, "idle")
  /\ job' = [job EXCEPT ![w] = NoJob]
  /\ seen' = [seen EXCEPT ![w] = [u \in Wallets |-> 0]]
  /\ locked' = [u \in Wallets |-> IF locked[u] = w THEN None ELSE locked[u]]

Missing(w) == {u \in {job[w].from, job[w].to} \ {None} : locked[u] # w}

(* fault: the payer's wallet is locked first, whatever its id *)
PayerFirst(w, u) == /\ u \in Missing(w)
                    /\ u = job[w].from \/ job[w].from \notin Missing(w)

(* The rows are locked in wallets.id order. *)
IsNext(w, u) == u \in Missing(w) /\ \A v \in Missing(w) : u <= v

(* fault: the row is read without FOR UPDATE *)
AlwaysFree(u) == TRUE

IsFree(u) == locked[u] = None

Taken(c) == \E t \in transactions : t.code = c

PaidBy(u, j)     == IF u = j.from THEN j.amount ELSE 0
ReceivedBy(u, j) == IF u = j.to THEN j.amount ELSE 0
-----------------------------------------------------------------------------
(* Requests. *)

(* The JWT's user is active and asks to pay another user. *)
RequestTransfer(w, s, r, a) ==
  /\ pc[w] = "idle"
  /\ s \in active
  /\ r # s
  /\ job' = [job EXCEPT ![w] = [from |-> s, to |-> r, amount |-> a]]
  /\ Goto(w, "check")
  /\ UNCHANGED <<active, tableVars, locked, seen>>

(* is_account_active(receiver), read before any lock. *)
CheckReceiver(w) ==
  /\ pc[w] = "check"
  /\ IF job[w].to \in active
       THEN Goto(w, "locking") /\ UNCHANGED <<locked, job, seen>>
       ELSE End(w)
  /\ UNCHANGED <<active, tableVars>>

(* initiate_payment: the JWT's user is active; the money leaves the system. *)
RequestPayment(w, s, a) ==
  /\ pc[w] = "idle"
  /\ s \in active
  /\ job' = [job EXCEPT ![w] = [from |-> s, to |-> None, amount |-> a]]
  /\ Goto(w, "locking")
  /\ UNCHANGED <<active, tableVars, locked, seen>>

(* A confirmed deposit: whether the account is active is not looked at.      *)
RequestCredit(w, r, a) ==
  /\ pc[w] = "idle"
  /\ job' = [job EXCEPT ![w] = [from |-> None, to |-> r, amount |-> a]]
  /\ Goto(w, "locking")
  /\ UNCHANGED <<active, tableVars, locked, seen>>

(* An administrator freezes or reactivates an account. *)
ToggleFreeze(u) ==
  /\ active' = IF u \in active THEN active \ {u} ELSE active \cup {u}
  /\ UNCHANGED <<tableVars, threadVars>>

(* get_locked_wallets: one row, once it is free; its balance is read now. *)
LockNext(w, u) ==
  /\ pc[w] = "locking"
  /\ IsNext(w, u)
  /\ IsFree(u)
  /\ locked' = [locked EXCEPT ![u] = w]
  /\ seen' = [seen EXCEPT ![w][u] = balance[u]]
  /\ Goto(w, IF Missing(w) = {u} THEN "move" ELSE "locking")
  /\ UNCHANGED <<active, tableVars, job>>
-----------------------------------------------------------------------------
(* The movement. *)

(* fault: the balance is not checked *)
AlwaysAffordable(w) == TRUE

(* WalletService.debit refuses what the balance does not cover. *)
Affordable(w) == \A u \in Wallets : PaidBy(u, job[w]) <= seen[w][u]

Fits(w) == \A u \in Wallets : seen[w][u] + ReceivedBy(u, job[w]) <= MaxBalance

Entry(w, u, c) ==
  LET j == job[w]
  IN [kind   |-> IF u = j.from THEN "DEBIT" ELSE "CREDIT",
      amount |-> j.amount,
      before |-> seen[w][u],
      after  |-> (seen[w][u] - PaidBy(u, j)) + ReceivedBy(u, j),
      code   |-> c]

Row(w, c) == [code |-> c, from |-> job[w].from, to |-> job[w].to,
              amount |-> job[w].amount]

Touched(w) == {job[w].from, job[w].to} \cap Wallets

(* fault: the debit is committed on its own and the process dies *)
CommitDebitAlone(w, c) ==
  /\ pc[w] = "move"
  /\ Affordable(w) /\ Fits(w)
  /\ ~Taken(c)
  /\ transactions' = transactions \cup {Row(w, c)}
  /\ ledger' = [u \in Wallets |->
       IF u = job[w].from THEN Append(ledger[u], Entry(w, u, c)) ELSE ledger[u]]
  /\ balance' = [u \in Wallets |->
       IF u = job[w].from THEN Entry(w, u, c).after ELSE balance[u]]
  /\ End(w)
  /\ UNCHANGED active

(* Debit, credit, both ledger entries and the transaction row are committed  *)
(* together, under a fresh tx_code.                                          *)
Commit(w, c) ==
  /\ pc[w] = "move"
  /\ Affordable(w) /\ Fits(w)
  /\ ~Taken(c)
  /\ transactions' = transactions \cup {Row(w, c)}
  /\ ledger' = [u \in Wallets |->
       IF u \in Touched(w) THEN Append(ledger[u], Entry(w, u, c)) ELSE ledger[u]]
  /\ balance' = [u \in Wallets |->
       IF u \in Touched(w) THEN Entry(w, u, c).after ELSE balance[u]]
  /\ End(w)
  /\ UNCHANGED active

(* INSUFFICIENT_BALANCE, a balance the column cannot hold, or a tx_code that *)
(* generate_unique_tx_code did not find free and the constraint refuses.     *)
RollBack(w) ==
  /\ pc[w] = "move"
  /\ ~Affordable(w) \/ ~Fits(w) \/ (\E c \in Codes : Taken(c))
  /\ End(w)
  /\ UNCHANGED <<active, tableVars>>

(* An exception anywhere, a failed commit or the death of the process. *)
Abort(w) ==
  /\ pc[w] # "idle"
  /\ End(w)
  /\ UNCHANGED <<active, tableVars>>
-----------------------------------------------------------------------------
Request(w) ==
  \E u \in Wallets, a \in Amounts :
     \/ \E r \in Wallets : RequestTransfer(w, u, r, a)
     \/ RequestPayment(w, u, a)
     \/ RequestCredit(w, u, a)

Settle(w) == (\E c \in Codes : Commit(w, c)) \/ RollBack(w)

Next == \/ \E u \in Wallets : ToggleFreeze(u)
        \/ \E w \in Threads : \/ Request(w) \/ CheckReceiver(w)
                              \/ \E u \in Wallets : LockNext(w, u)
                              \/ Settle(w) \/ Abort(w)

Spec == Init /\ [][Next]_vars
-----------------------------------------------------------------------------
(* Safety. *)

(* The ledger of a wallet is an unbroken account of its balance: the first   *)
(* entry starts from the opening balance, each next one where the one before *)
(* it ended, and the last one ends at the balance.  Two requests that both   *)
(* read the same balance would break it (wallet_ledger: 'audit trail of      *)
(* every wallet balance change').                                            *)
LedgerChains ==
  \A u \in Wallets :
     LET l == ledger[u]
     IN /\ l = <<>> => balance[u] = Opening[u]
        /\ l # <<>> => l[1].before = Opening[u] /\ balance[u] = l[Len(l)].after
        /\ \A i \in 1 .. Len(l) - 1 : l[i + 1].before = l[i].after

(* Every transaction has its debit in the payer's ledger and its credit in   *)
(* the payee's, once and for the same amount, and no entry has no transaction *)
(* (TransactionService.transfer: committed together or rolled back together). *)
BooksAgree ==
  LET Count(u, k, t) ==
        Cardinality({i \in DOMAIN ledger[u] :
                       /\ ledger[u][i].code = t.code
                       /\ ledger[u][i].kind = k
                       /\ ledger[u][i].amount = t.amount})
  IN /\ \A t \in transactions, u \in Wallets :
          /\ Count(u, "DEBIT", t) = IF u = t.from THEN 1 ELSE 0
          /\ Count(u, "CREDIT", t) = IF u = t.to THEN 1 ELSE 0
     /\ \A u \in Wallets : \A i \in DOMAIN ledger[u] : Taken(ledger[u][i].code)

(* Money is neither made nor lost: what the wallets hold is what they opened *)
(* with, plus what came in from outside, minus what left.                    *)
MoneyConserved ==
  SumOf(balance, Wallets) + Worth({t \in transactions : t.to = None})
    = SumOf(Opening, Wallets) + Worth({t \in transactions : t.from = None})

(* Thread w waits for wallet u. *)
Waits(w, u) == pc[w] = "locking" /\ IsNext(w, u)

(* Whoever is waited for waits, if at all, for a wallet with a higher id: no *)
(* ring of waiting threads can close, in whatever directions users pay each  *)
(* other (get_locked_wallets: deterministic order prevents deadlocks).       *)
WaitsAscend ==
  \A w, x \in Threads, u, v \in Wallets :
     Waits(w, u) /\ locked[u] = x /\ Waits(x, v) => u < v
-----------------------------------------------------------------------------
(* The inductive invariant behind them. *)

(* Rows are held by the threads whose movement they belong to, in order, and *)
(* all of them are held before money moves.                                  *)
LocksHeld ==
  /\ \A w \in Threads, u \in Wallets :
        locked[u] = w => /\ pc[w] \in {"locking", "move"}
                         /\ u \in Touched(w)
                         /\ \A v \in Missing(w) : u < v
  /\ \A w \in Threads : pc[w] = "locking" => Missing(w) # {}
  /\ \A w \in Threads : pc[w] = "move" => Missing(w) = {}

(* A balance that was read under a lock is the balance still. *)
SeenIsCurrent ==
  \A w \in Threads, u \in Wallets : locked[u] = w => seen[w][u] = balance[u]

(* A thread that serves a request has two different parties and an amount. *)
JobsMakeSense ==
  \A w \in Threads : pc[w] # "idle" =>
     job[w].from # job[w].to /\ job[w].amount \in Amounts

IInv == TypeOK /\ LocksHeld /\ SeenIsCurrent /\ JobsMakeSense /\ LedgerChains
-----------------------------------------------------------------------------
(* Refinement. *)

BankOf == INSTANCE Bank WITH money <- balance, moved <- transactions

(* With its locks, reads and aborts, every request is one atomic movement of *)
(* Bank or nothing at all.                                                   *)
ImplementsBank == BankOf!Spec
=============================================================================
