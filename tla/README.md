# Vyloc backend: TLA+ models, checks and proofs

This directory is the verification development of the Vyloc money-transfer
backend (Flask, SQLAlchemy, PostgreSQL, Safaricom Daraja): TLA+ modules of the
parts that move money or decide about it, TLC configurations that model-check
them, and TLAPS proofs of what matters most.  Every definition that models code
names the lines it stands for in `PROJECT.json` under `map`.

Run everything from this directory:

    tlc -workers 2 -config deposit_races.cfg MCDeposit.tla
    tlapm DepositProofs.tla

Paths below are relative to `src/`.

## 1. The system

Several server processes, each with several request threads and one sweeper
thread, share one PostgreSQL database at READ COMMITTED. There is no other
shared state between processes. Inside one process the threads share the token
cache of the Daraja client and a table of running callback queries. Daraja, the
M-Pesa customer and the clients of the API are the environment.

    client --HTTP--> routes --> services --> tables (row locks, unique indexes)
    Daraja --callback--> mpesa_routes --> MpesaService
    sweeper thread --> MpesaService._recover_one --> Daraja
    MpesaService --> DarajaTokenCache, daraja_throttle --> Daraja

### Components

**M-Pesa deposits** (`app/services/mpesa_service.py`, `app/routes/mpesa_routes.py`,
`app/models/mpesa_transaction.py`).
State: the rows of `mpesa_transactions` (status, checkout id, attempts, time of
the last attempt), advisory locks per deposit, the in-process table of callback
queries. Operations: `initiate_deposit`, `process_callback`, `_recover_one` (for
the sweeper, administrators and the owner), `_credit_confirmed_deposit`,
`_transition_to_manual_review`. It calls Daraja through the client below and
writes wallet, ledger and transaction rows in the transaction of its own row.
Hard: an answer is applied long after it was asked for, by any of several
threads that work on one deposit; notifications are lost, repeated, early;
processes die between Daraja's step and the database's; the session of an
advisory lock ends while its owner waits for Daraja, or outlives a failed unlock. Correct when: a deposit
is credited at most once and exactly when it is Completed; its outcome agrees
with what the customer did; terminal statuses are final; no row is locked while
the network is waited for; the budget of attempts is respected; a deposit does
not stay open for ever.

**Wallets, ledger and transfers** (`app/services/wallet_service.py`,
`app/services/transaction_service.py`, models `wallet`, `wallet_ledger`,
`transaction`). State: balances, ledger entries, transaction rows. Operations:
`get_locked_wallets`, `debit`, `credit`, `transfer`. Called by deposits and
service payments. Hard: balances are read, computed in Python and written back;
a transfer needs two row locks; limits of the balance column. Correct when: the
ledger accounts for every balance, transactions and ledger agree, money is
neither made nor lost, and waiting threads never form a ring.

**Service payments** (`app/services/service_payment_service.py`,
`app/services/providers/`). State: rows of `service_payments`, with a payment
reference and an idempotency key, both unique. Operations: `initiate_payment`,
`reconcile_payment`. Hard: repeats of a request that is still running; unlocked
lookups; indexes that span all users while lookups are per user; a refund in the
transaction of the debit. Correct when: one key is paid once, wallets have paid
exactly what was not refunded, nobody is answered with another user's payment,
every request ends.

**Daraja limiter** (`daraja_throttle` and the limiter part of
`mpesa_service.py`). State: one row with tokens, time of the last refill and a
cooldown. Operations: acquire a permit, raise a cooldown, look whether one
lasts. Hard: `now()` is the start of the statement, and statements reach the row
in another order. Correct when: the rate is bounded, a cooldown admits nobody
and is never shortened.

**Sweeper and its leader** (`start_reconciliation_sweeper`, `_sweeper_cycle`,
`recover_deposits`). State: a session-level advisory lock and the session that
holds it. Hard: the session can be lost unnoticed, the unlock can fail on a
session that then returns to the pool, processes die. Correct when: two
processes sweep together only after a lost session, no cycle leaves its session
behind, every open deposit is tried again and again.

**Daraja client and token cache** (`DarajaTokenCache`, `get_access_token`,
`_authed_request`, `_request_json`). State: one token and its end per process.
Hard: other threads come between a 401, the invalidation and the refresh; slow
answers. Correct when: one call acts at Daraja at most once, a refused token
does not return to the cache, a retry has a newer token.

**Accounts, authentication and administration** (`auth_service`, `user_service`,
`admin_routes`, `utils/decorators.py`). State: rows of `users` (email, phone
number, status) and the one wallet of each. Operations: `register_user`, the
administrator's creation, `update_user`, `update_user_admin`, the freeze toggle,
`delete_user` after `has_financial_history`. It shares users and wallets with
everything that moves money. Hard: every check is an unlocked read (is the email
free, is there a history, what was the status), the write comes in a later
transaction, and only unique indexes and foreign keys stand between; a deletion
cascades over payees and the ledger. Correct when: user and wallet appear and
disappear together; emails and phone numbers are unique; an edit never undoes a
freeze it has not seen; a deletion leaves no orphan and destroys no record.

**Beneficiaries** (`beneficiary_service`). State: pairs of an owner and a payee,
unique. Operations: save, remove. Hard only where it meets a deletion: a payee
saved after the cascade was loaded. Correct when: every pair has both users.

**Analytics; schemas and validators; configuration, factory and errors; seeding
and migrations; in-process rate limiter; tests and documents**: not modelled,
for the reasons in section 7.

## 2. Plan

The order puts first what moves money under the hardest interleavings.

1. `DepositContract`, `Deposit`: the promise of a deposit and its
   implementation (done).
2. `Bank`, `Transfer`: atomic movements and the locked, logged ones (done).
3. `Bills`, `ServicePayment`: the promise of a bill and the two requests that keep
   it (done).
4. `Throttle`, `Sweeper`, `DarajaClient`: what deposits rest on (done).
5. `Registry`, `Accounts`: the promise to who audits the records, and users,
   wallets, payees and deletions with all their races (done).
6. A composition of `Deposit` and `Sweeper`, with the fairness of `Deposit`
   derived from `Sweeper` by refinement instead of by the argument of section 5
   (open).
7. A composition of `Deposit`, `Transfer` and `ServicePayment` over one wallet
   (open). What it could show beyond its parts is an order of waiting: a deposit
   holds its row when it asks for a wallet, a transfer and a payment hold wallets
   when they ask for an index, and nobody asks back. Each part of that order is
   proved: `NoRingOfWorkers`, `NoRing`, `NoRingOfRequests`.
8. Proofs of every property the prover can reach (done, section 6).

Abstract specifications: `DepositContract` (a deposit is settled once, truly,
and moves its amount with its outcome), `Bank` (a movement is atomic and
recorded once), `Bills` (a bill is charged once and with its record, declined and
completed for nothing, never lost) and `Registry` (an account is closed once and
without a record; a record is never removed). Each has a run (the abstract specification as a PROPERTY) and a
proof.

## 3. Modules and the code

All modules share one style: every thread is a member of a constant set with a
program counter `pc`; one step is what another thread can observe (a database
statement, a commit or rollback, an answer of Daraja); a transaction's writes
are published at once by its commit, and `SELECT ... FOR UPDATE` is a guard on
a lock function. `End` or `Return` is the end of a request or transaction, when
locks become free. `Abort` is an exception, a failed commit or the death of the
process at any point. `MC*` modules give constants their values and nothing else.

| Module | Models | Extends, instantiates |
|---|---|---|
| `Sums` | sums of amounts over finite sets | |
| `DepositContract` | the promise of a deposit | |
| `Deposit` | `initiate_deposit`, `process_callback`, `_recover_one`, the credit | `Sums`, `DepositContract` |
| `Bank` | the promise of a movement | |
| `Transfer` | every balance change: transfers, payments, credits | `Sums`, `Bank` |
| `Bills` | the promise of a service payment | |
| `ServicePayment` | `initiate_payment`, `reconcile_payment` | `Sums`, `Bills` |
| `Registry` | the promise of accounts to an audit | |
| `Accounts` | registration, edits, freeze, payees, deletion | `Registry` |
| `Throttle` | the PostgreSQL limiter row | |
| `Sweeper` | leader lock, cycle, loop over candidates | |
| `DarajaClient` | token cache, authorized request, single retry | |
| `SumTheorems` | laws of those sums | `Sums`, TLAPS |
| `*Proofs` | theorems of the module they extend | `SumTheorems` (three of them), TLAPS |

**Deposit.** `push` is where the request of `initiate_deposit` is, `payment`
what the customer did. `status = "absent"` means that no row exists: the row is
inserted after Daraja accepted (`PersistPending`), with a checkout id or with
NULL (`matched`). A refused or timed-out push stores a `Failed` row without
checkout id (`PersistFailedAttempt`); the process may also die before any row
(`RequestLost`). A callback handler goes idle - query - apply - decide - credit;
a second callback of the process that finds a query running waits and returns
what it reads (`CallbackReturnsLatest`). A recoverer goes idle - meta - tryLock -
query - apply - decide - credit, or meta - review - hold when its unlocked read
says that the budget is used up. A read that raises (`ReadMetaFails`) lets it pass
the budget and the backoff, as the code does with `meta = None`. `advisory` is who
holds the per-deposit lock on a connection of its own. That connection is idle
while Daraja is asked: `LockSessionEnds` frees the lock behind the back of its
owner, who goes on and is in `lost` until it returns. `Unlock`, part of every
return, may fail: then `close()` gives the session back to the pool with the lock
on it (`stranded`), and everyone is refused, except a recoverer that draws this
very session, until it ends. `KeepRecoverable`, `FailDeposit`,
`AmountMismatch`, `LockWallet`/`CommitCredit` and `SkipSettled` are the branches
of the code under the row lock, with `RecordAttempt` where the code counts.
`CreditRolledBack` is the IntegrityError or overflow, which also undoes the
counted attempt. `opening` is what the wallet held before, any of `Openings`.
`opening`, `unread` and `lost` are history: no guard reads them but the bound of
`ReadMetaFails`. INITIATED and PROCESSING are never committed, so they are not
statuses here. The transaction row that the credit also writes is not kept: it
is written in the same commit and with the same reference as the ledger entry.

**Transfer.** A `job` has a payer and a payee; `None` as payer is a credit from
outside (a deposit), `None` as payee a payment that leaves. `LockNext` takes rows
in wallet id order and reads the balance that the movement will be computed
from (`seen`). `Commit` writes balances, ledger entries and the transaction row
at once. `RollBack` is INSUFFICIENT_BALANCE, a balance that the column cannot
hold, or a code that is taken. `active` is what the freeze toggle changes.

**ServicePayment.** `rows` are the committed payments; a flushed INSERT is a
thread in "settle" with its reference in `mine`, which makes others with its key
wait (`KeyIsClaimed`). `session` is the copy of the row that SQLAlchemy keeps
in its identity map: `Finalize` decides on it, not on the row, since the second
select does not populate existing instances. The provider is a function of the
account number, as the simulated ones are; PENDING becomes SUCCESS when asked
again. `BillOf` is a row without its account number: the promise only tells what
the row came to. `WaitsFor` reads off the program counters and the locks what a
request waits for: its wallet, or a key that another one has flushed.

**Accounts.** A request goes idle - (unlocked reads) - one of `signup`, `update`,
`payee`, `move`, `push`, `cascade` - idle. `session` holds the columns its
SQLAlchemy session has loaded and `form` what it wants them to be; the UPDATE of
`CommitUpdate` names the columns in which the two differ (`ChangedColumns`), and
that is why a stale edit cannot undo a freeze. A flushed INSERT of a user (pc =
`wallet`) claims its email and phone number in the unique indexes (`Claimed`)
before it is committed. `MayReference` and `StillReferenced` are the two sides
of the foreign keys: a row is refused without its user and wallet, a user and
wallet while a row names them. `LoadCascade` is `session.delete`, which loads
what the cascades will delete; `DeleteUser` is the flush and commit. Movements of
money appear with what a deletion can see of them: the records, their parties
and the ledger entries. The balance is in `Transfer`, the deposit in `Deposit`.

**Throttle.** Tokens are counted in integer parts. `stmt` is the time at which
the UPDATE was sent; `Grant` and `RaiseCooldown` happen later, when it gets the
row, and still use that time, so that `Level` may even sink. `FailOpen` is a
database error, after which the code calls Daraja anyway.

**Sweeper.** `holder` and `depth` are PostgreSQL's lock, `conn` the program's
`leader_state["conn"]`. `SessionLost` ends a session unnoticed; `ReleaseFails` is
an unlock error on a living session, after which the lock is stranded in the
pool until that session ends (`PooledSessionEnds`) or its owner draws the same
session (`Lockable`). `Recover` abstracts `_recover_one` to the deposit staying
open or being closed: its inside is `Deposit`.

**DarajaClient.** Tokens are numbered as Daraja issues them. `get` - `fetch` -
`fetched` - `send` - `sent` is the path of `get_access_token` and
`_authed_request`; `done` and `stale` are what Daraja did with the request.
`spent` holds the tokens whose 401 the call has already reacted to, so that
`Forced` and `MayRetry` read off it. Daraja may refuse a token at any time.

## 4. Runs

Sizes are distinct states, times on two cores.

| Run | Question | States |
|---|---|---|
| `deposit_races` | Is one deposit credited once, truthfully and finally, whatever two callbacks and two recoverers do in whatever order, with crashes? | 4.6 million, 2 min |
| `deposit_contract` | Do two deposits into one wallet implement the contract, with a balance column that can hold both or only one of them? | 2.6 million, 2.5 min |
| `deposit_liveness` | Is every deposit with a checkout id settled or held in the end, and is a credit that does not fit the only one that never is? | 25 400, 1 min |
| `deposit_failed_definitive` | Violated: is Failed established definitively? | stops at the violation |
| `transfer_books` | Do ledger, transactions and balances agree after every interleaving of transfers, payments, credits and freezes, and does every request implement `Bank`? | 718 000, 60 s |
| `payment_races` | Is a repeated payment paid once, by whomever and whenever it is repeated or reconciled, does every request implement `Bills`, and can requests wait in a ring? | 427 000, 40 s |
| `payment_liveness` | Is every payment request answered? | 14 600, 23 s |
| `payment_survivor` | Violated: is a duplicate answered with the surviving payment? | stops at the violation |
| `accounts_races` | Do users, wallets, payees and records stay together, and does a freeze stay, whatever registrations, edits, movements and deletions overlap? | 649 000, 27 s |
| `throttle_bucket` | Do rate and cooldown hold with statements that arrive out of order? | 1.8 million, 20 s |
| `sweeper` | Can two leaders overlap, is a session kept, is every deposit retried? | 7 100, 2 s |
| `daraja_token` | Is a call carried out once, with a token that is alive and was not refused? | 479 000, 7 s |

`deposit_races` also checks that the advisory lock excludes recoverers
(`RecoverersExcluded`), the budget of attempts (`AttemptBudget`), that throttles
are free (`ThrottleIsFree`) and that the unique reference of the ledger is never
what stops a second credit (`BackstopUnused`).

Each property is also checked against a mutant of the code, a plausible bug in
one definition, and TLC finds it violated: the definitions marked `fault:` in
the modules, each placed before the definition it replaces. No specification
uses them.

### Bounds, and why they are enough

- *Deposits*: one deposit with two callback threads of one process and two
  recoverers has every pair of roles that can meet on a row. Two deposits are
  needed for two credits of one wallet only, with one worker of each kind
  (`deposit_contract`). `MaxAttempts` 2 (races) lets an attempt be counted
  between a recoverer's read and its hold. `CallbackBound` 2 gives a repeated
  notification; further ones find the states that two already reached; in
  `deposit_liveness` one is enough, since none has to come. `UnreadBound` 1 lets one
  read of the attempts fail (0 in `deposit_contract`, which does not count them).
  In `deposit_contract` the amounts are 1 and 2 and `MaxBalance` is 3: an empty
  wallet takes both, so that a lost update would show, and one with an opening
  balance of 1 takes either, so that the other overflows. In `deposit_races` and
  `deposit_liveness` the deposit of 1 fits into an empty wallet and not into the
  full one (`MaxBalance` 1).
- *Transfers*: two wallets that pay each other in both directions are the
  smallest possible ring; three codes allow three movements, so that ledgers
  have inner links. Overflow is reached: a credit of 2 to the wallet that
  opened with 2 exceeds `MaxBalance` 3. The proof of `NoRing` covers any number of wallets.
- *Payments*: two users who use the same key, two threads and two rows: a key is
  repeated by its owner, chosen by another user, and reconciled while it is
  repeated. Only the reference set bounds the number of payments. Two threads can
  close the smallest ring of waits; `NoRingOfRequests` excludes the longer ones.
- *Accounts*: two users are a payer and a payee, an owner and a payee, or two
  registrations with one email; two threads let a deletion, an edit or a second
  registration come between any two steps of a request. Two records are a push
  and its deposit, or two movements. Two emails of which one is the lower case
  of the other tell registration and the administrator's creation apart, and
  one phone number is enough to collide.
- *Throttle*: a bucket of three tokens and half a token per tick; two callers are
  enough for a statement that overtakes another, and three tokens for it to be
  granted after the one that overtook it, so that `last_refill` moves back (in
  a bucket of two the older statement always finds too little). `MaxTime` 4 lets
  two tokens of the bucket be refilled.
- *Sweeper*: two processes and three faults: a lost session, a failed unlock and
  a crash in one behaviour.
- *DarajaClient*: two threads, three tokens; `Timeout` (2) exceeds `Skew` (1) so
  that an answer can be slower than the margin covers.

Deadlock checking is on in the payment, throttle, transfer and account runs. It is off
where the system really stops: when all deposits of the model are settled and
all notifications sent, or when the clock of the client has reached its bound.

Symmetry is used for threads, callers and codes in safety runs only, where
neither the specification nor the property tells them apart.

## 5. Fairness, and why the code justifies it

`Deposit!Fairness`: the sweep comes back every
`MPESA_RECONCILE_INTERVAL_SECONDS`, for which reason each step of a recoverer
has strong fairness: one attempt may be aborted, throttled or find the row
locked, but not every one for ever. The backoff elapses. A notification that
arrived is handled or aborted; no notification has to arrive, and neither users
nor administrators owe anything. That the sweep does return is itself checked
in `sweeper` (`OpenIsRetried`), under the fairness below.

`SettledEventually` has one premise and one exception, and TLC finds a
counterexample without either. Nothing makes a pooled session end, so the
premise is that the lock of the deposit is not stranded for ever. The exception,
`Unpayable`, is a paid deposit that the balance column cannot hold: its credit is
rolled back with its attempt, at every sweep.

`Sweeper!Fairness`: a free lock is taken by one of the threads that wake up every
interval; a cycle goes on (weak fairness); the snapshot query does not fail for
ever (strong); a process that died is restarted. Nothing makes a pooled session
end, so `OpenIsRetried` has the premise that the lock is not stranded for ever.
The premise is needed: without it TLC finds the failed unlock as a counterexample.

`ServicePayment!Fairness`: a started request is carried on, and PostgreSQL queues
the waiters of a row, so that one which is freed again and again is granted to
every waiter (strong fairness of the two lock steps and of the index wait). The
collision of a random reference is owed only when the model has run out of
references, `OutOfReferences`, an artefact of the bound.

`Transfer`, `Accounts`, `Throttle` and `DarajaClient` have safety properties only.

## 6. Proofs

42 theorems are listed in `PROJECT.json`; they hold for all values of the
constants that satisfy the ASSUMEs of their modules (sets of any size, natural
bounds, `None` outside of the sets it stands beside, owners and amounts of the
right kind, and, where money is summed over all wallets, finitely many of them).
Each proof module extends the module it is about and follows one
pattern: `Init => IInv`, `IInv /\ [Next]_vars => IInv'`, with one step per action and
below it one per conjunct that the action disturbs, and a temporal theorem by
PTL. Steps that free locks, or that touch nothing but program counters, are
lemmas that several actions share.

**Sums.** `SumOf` is a recursive function over the subsets of a finite set
(`MapThenSumSet` of the library), and the library's induction theorems cannot be
instantiated by the provers. `SumTheorems` therefore argues by the smallest
counterexample: if a law fails for some subset of `S`, the set of the subsets for
which it fails has a member without a smaller one (`SmallestSubset`, from
`WFMin` and the well-foundedness of strict inclusion), which is not empty and
whose rest obeys the law. So are shown that a function that sums exists
(the library defines it by CHOOSE), that sums over integers are integers, that
the order does not matter, and from these the laws that the components cite: an
element more (`WorthWith`), one element swapped for another of the same amount
(`WorthSwapped`), and the value of one element shifted (`SumShifted`).

**Deposit.** `IInv` adds four facts to the properties. `LocksHeld`: who holds a row
or a wallet is read off the program counters. `CreditReady`: what a worker in
"credit" has read (not terminal, answer paid, the balance) is still so - it is
what the row and wallet lock buy. `AnswerIsTrue`: a definite answer stays true
while it is applied. `RowLifecycle`: a row appears once, and only a row with a
checkout id is worked on. Without `CreditReady` the step `CommitCredit` could
not be shown to keep `CreditedOnce`; without `LocksHeld` no other step could be
shown to keep `CreditReady`. Theorems: `TypeCorrect`, `CreditedAtMostOnce`,
`OutcomesAreTrue`, `HeldAreExhausted`, `BackstopNeverUsed`, `NoLockWhileWaiting`,
`TerminalStaysFinal`, and `DepositImplementsContract`: every step of `Deposit` is a
step of `DepositContract` or leaves its variables alone. `NoRingOfWorkers` (nobody
waits for a worker that is done, and a chain of waits has at most two links: for
a row, then for a wallet) follows from `LocksHeld`. Four more have arguments
of their own. `OneRecovererAtATime` rests on `AdvisoryHeld`: whoever is between the
query and its return holds the advisory lock of its deposit or is in `lost`. So of
two recoverers that work on one deposit, one has lost the session of its lock:
a failed unlock or a lock left in the pool never lets a second one in. That two
are at work after a lost session costs no money, since neither `CreditedAtMostOnce`
nor `BackstopNeverUsed` needs `AdvisoryHeld`: the row lock and the re-read carry them. `ThrottlesAreFree`
rests on `AttemptCounters`: only a worker that has an answer and returns changes
`attempts`. `AttemptsWithinBudget` rests on `BudgetKept`, which charges in advance
the callbacks at work on a deposit and the recoverers that found its budget
unspent: a recoverer that passes the check finds at most `MaxAttempts - 1` attempts
made, and no more recoverers than there are can be past it; one whose read failed
is past it on account of `unread`. It needs
`FiniteAssumption`: the threads are finitely many and somebody recovers.
`BalancesAreExplained` rests on `CreditWriters` (no step but `CommitCredit` changes a
balance or the set of Completed deposits) and on
`CreditReady`: the new balance is the one the sum explained, plus the amount of a
deposit that was not in the sum. Only credited deposits are summed, and the
proof carries along that they are finitely many, so that the set of deposits
need not be.

**Transfer.** `LocksHeld` (rows belong to the movement of their holder, are taken
in order, and are complete before money moves), `SeenIsCurrent` (a balance read
under a lock is the balance still), `JobsMakeSense`. From these follow
`LedgersChain`, `NoRing` (whoever is waited for waits, if at all, for a higher
id; ids are numbers, so no ring can close) and `TransferImplementsBank`.
`BothSidesBooked` goes through `Booked`, which says of each wallet's ledger that the
entries of a transaction are one position or none: an appended entry is one more
match for its own transaction and none for any other, as its code is fresh.
`MoneyIsConserved` compares the sum of all balances with the opening sum and with
what credits brought in and payments took out. `CommitTotal` is its one hard
step: what a commit changes in the sum, with one wallet, two, or two of which
one is outside. It uses `SeenIsCurrent`, since the code writes balances that it
computed earlier, and it is the only result that needs finitely many wallets.

**ServicePayment.** `RequestsMakeSense` (references of running requests differ
from each other and from stored ones) and `ReferencesDiffer` support
`KeyPaidOnce` and `AnswersAreOwn`. `ReconcilingPaysOnce` adds that a new payment has a
new reference, so that nothing but `Finalize` changes a payment once it is found
Pending. `SpendingExplained` adds `WalletsHeld` (who has locked a wallet keeps it,
and the balance that was read is the balance still): a commit adds a payment to
the sum and takes its amount from that balance, or adds a refunded one and takes
nothing; `Finalize` swaps a payment for one of the same amount, because of
`ReconciledIsPaid`. The same two facts carry `ServicePaymentImplementsBills`: with
them `Settle` is a `Charge` or a `Decline` of a new bill, and `Finalize` completes a
pending bill or, when another request was faster, nothing. `NoRingOfRequests`
rests on `WalletsOwned`, the converse of `WalletsHeld`: a wallet is locked for a
request that is about it and has not ended.

**Accounts.** `IInv` adds two facts to the properties. `FlushedIsNew`: a user that is
flushed but not committed has an id, an email and a phone number that no row
and no other flushed user has - what the claim in the unique indexes buys, and
without it `CreateWallet` could not be shown to keep emails unique.
`SubjectKnown`: a request in progress is about a user, a payee is another user,
and a cascade has loaded ledger entries of its own wallet only, without which
`DeleteUser` might take those of a record. Theorems: `AccountsStayComplete`,
`NothingOrphaned`, `FreezeStays` (from the step lemma `StepFreeze`: the written
status is the committed one unless session and form differ in it) and
`RegistryImplemented`.

**Throttle.** `Accounted`: what is left in the bucket after any stretch of grants is
at most what a full bucket and the refill since the stretch's first statement
leave after that many tokens, counted with the statement times and not with the
times of the grants, so that a time that goes back needs no case of its own.
It yields `GrantsAreBounded`; `CooldownsHold` is a step property.

**Sweeper.** `LockIsHeld` (an open leader session holds the lock; the depth counts
the grants that were not given back) with `NothingKept` gives `OverlapNeedsLoss`.

**DarajaClient.** `InTransitIsPrivate` (a token on its way into the cache is known
to its thread alone) is why a late `StoreToken` cannot bring back a refused
token; `LivesAreClose` bounds by `Timeout` how far the cache overrates a token's
life. Theorems: `CallsActOnce`, `RetriesAreFresh`, `RefusedStaysGone`,
`HandOutsAreAlive`.

### Only model-checked

- Liveness: `SettledEventually`, `RequestsEnd`, `OpenIsRetried`. Fairness and
  ENABLED are out of the prover's reach.

## 7. Not modelled, and why

- *SQLite and other databases*: row locks and advisory locks are no-ops there;
  the models are of the PostgreSQL deployment. The in-process limiter belongs
  to that branch; it is the arithmetic of `Throttle` under one lock and one
  clock. Only the lazy creation of its bucket can race, which is listed as a
  hazard. Foreign keys are not enforced by SQLite unless a pragma asks for it,
  and none does: `NoOrphans` is a property of the PostgreSQL deployment.
- *Connection pools*: a checkout waits for the pool's timeout and then raises,
  which `Abort`, `RecoverFails` and `CycleFails` cover. How many connections a
  sweep needs at once is listed as a hazard.
- *Accounts*: names, passwords, roles and the lifetime of login tokens: a token
  only names a user, and every request loads the row (`Active`). The statements
  of one flush are one step, so that the waits inside a deletion (for the row of
  a payee or a wallet that another transaction is inserting a reference to) and
  a ring of such waits, which PostgreSQL ends by aborting one transaction
  (`GiveUp`), have no steps of their own. SQLite gives the id of a deleted last
  user out again; PostgreSQL does not, and the model follows PostgreSQL.
- *Schemas, validators, formatting, logging, analytics, configuration*: no state.
  Amounts are positive integers (of cents), the rounding of NUMERIC(12, 4)
  tokens in the limiter is not modelled.
- *Seeding and migrations*: run before the servers start; their constraints are
  in the models.
- *Retry-After parsing*: a cooldown is any of the configured lengths.
- *Branches that cannot be reached*: recovery of a row without checkout id (it is
  never selected), the FAILED branch of `reconcile_payment` (a failed account
  never leaves a Pending row), the IntegrityError handler around the final
  commit of `initiate_payment` (the flush before it raises first).
- *Token lifetimes below the assumed 50 minutes*: when Daraja does not say how long
  a token lives, it is taken to live at least as long as the client assumes.
- *Slow answers*: `Timeout` in `DarajaClient` bounds the whole answer, while the
  timeout of `requests` is per read: an answer that trickles in can take longer,
  and the token it carries is overrated by as much.
- *Repeated tokens*: Daraja is taken to issue a new token at every request. If it
  gave out an unexpired one again, a retry could carry the token just refused.

## 8. Where the code and its texts differ

Two runs expect a violation; each is listed under `findings`.

- `deposit_failed_definitive`: a push that times out after Daraja took it is stored
  as Failed while the customer can still pay; `models/mpesa_transaction.py`
  says that Failed is established definitively.
- `payment_survivor`: the request that loses the race for an idempotency key fails
  at the flush, outside of the try that would return the surviving payment, and
  is answered with an error.

The following were confirmed with TLC while the models were written. They are
not kept as runs: they are weaker, or follow from the same lines.

- A paid deposit whose answers stay inconclusive until the budget of attempts is
  used up is held for review (`mpesa_service.py:2104`), and no path credits it
  later; the docstring of `start_reconciliation_sweeper` (`2435`) says a genuine
  payment is always credited eventually. `SettledEventually` is what does hold.
- A deposit's row is inserted only after Daraja accepted the push
  (`mpesa_service.py:1143`, `1226`): a notification that comes first is dropped, and
  after a crash in between there is no row to recover.
- Two processes, or a callback and a recoverer, may both ask Daraja about one
  checkout (`1388`, `1575`): the table of running queries is per process.
- `docs/M-PESA-DARAJA-GUIDE.md:21` has the row locked before Daraja is asked; the
  code asks first and locks afterwards, which is what `NoLockAcrossNetwork` is
  about.
- An account can be frozen between the check of the receiver and the transfer
  (`transaction_service.py:55`), and deposits never look at the status.
- `reconcile_payment` re-checks the status of a payment on the session's old copy
  (`service_payment_service.py:250-258`); `ReconciledIsPaid` shows why this moves
  no money.
- Overflow of the balance column rolls back the counted attempt together with
  the credit, so such a deposit is tried again at every sweep and never held
  (`Unpayable` in `SettledEventually`).
- The comments at `mpesa_service.py:1879` and `1920` say that the advisory lock
  is held until the state update commits. It is, as long as its session lives:
  after a lost session a second recoverer locks and asks Daraja about the same
  deposit (`RecoverersExcluded` names this case).
- A read of the attempts that raises is taken for no attempts
  (`mpesa_service.py:1844-1850`), so that `MPESA_MAX_RECONCILIATION_ATTEMPTS` and
  the backoff can be passed; `AttemptBudget` counts such reads.
- The sweeper's docstring says that one process runs the sweep; after a lost
  session two do (`LeadersOverlapAfterLoss`). The deposits stay safe, since
  `Deposit` does not rely on a single recoverer.
- A failed unlock returns the session with the leader lock to the pool, and no
  process leads until that session ends. With the lock of one deposit it is the
  same (`1936`): nobody recovers this deposit until the session ends, except
  whoever draws it.
- A second 401 ends the call and leaves the token it refused in the cache, for
  the next call to run into.
- An administrator's opening balance (`admin_routes.py:80-82`) writes no ledger
  entry, although `wallet_service.py:3-4` has every change recorded; `Opening` in
  `Transfer` is that balance.
- `user_service.py:17` calls the email "matched case-insensitively" and
  "guaranteed unique", but the administrator's creation stores it as it was typed
  (`schemas/user_schema.py:15`): two accounts can differ in case only, the lookup
  of a payee then picks either, and an account with a capital letter cannot log
  in, since the login looks for lower case (`auth_service.py:62`). `AccountsComplete`
  says what the index guarantees: different texts.
- `ilike` takes `_` and `%` in a submitted email for wildcards
  (`user_service.py:26`).
- Phone numbers are unique as texts (`models/user.py:13`), while a payee is looked
  up by the normalised number: `07...` and `254...` of one number may be two
  accounts.
- An administrator cannot remove a phone number: the schema turns the empty text
  into None (`schemas/user_schema.py:93`), which `update_user_admin` takes for
  "not given", so that its own `phone_number or None` (line 94) never removes one.
- The registration's and the profile's lookups answer with 409 and 400, the
  unique index with a 500 where the commit is not inside a try
  (`user_service.py:65`, `99`).
- A user deleted between a push and its row leaves a prompt that can be paid and
  no row (`mpesa_service.py:1226`), although the deletion found no history.
- A deletion destroys an opening balance: it is no record, so it does not count
  as history.
