------------------------------ MODULE Accounts ------------------------------
(***************************************************************************)
(* Accounts and what hangs on them: registration and creation by an        *)
(* administrator, edits of a profile, the freeze toggle, saved payees, and *)
(* the deletion of an account while transfers, payments and deposits of    *)
(* its owner are under way.                                                *)
(*                                                                         *)
(* One step is one unlocked read or one transaction's writes with its      *)
(* commit.  A flushed INSERT of a user is a step of its own, because it    *)
(* claims email and phone number in the unique indexes.  Every other       *)
(* INSERT waits for nothing but a deletion, which is one step here: what   *)
(* it locks, it locks inside its flush.  Balances are left to Transfer.    *)
(***************************************************************************)
EXTENDS Naturals, FiniteSets

CONSTANTS Users,   \* user ids, each given out once; bound on registrations
          Threads, \* request threads of all server processes
          Records, \* bound on the rows of transactions and mpesa_transactions
          Emails,  \* email addresses, as texts
          Lower,   \* Lower[e]: the text e in lower case
          Phones,  \* phone numbers, as texts
          None     \* no phone number, email or user

ASSUME LowerAssumption == /\ Lower \in [Emails -> Emails]
                          /\ \A e \in Emails : Lower[Lower[e]] = Lower[e]
ASSUME NoneAssumption == None \notin Users \cup Emails \cup Phones

VARIABLES
  users,   \* committed rows of users
  gone,    \* ids of deleted users
  account, \* the columns of a user
  wallets, \* users with a row of wallets
  payees,  \* beneficiaries: <<owner, payee>>
  records, \* rows of transactions and of mpesa_transactions
  entries, \* rows of wallet_ledger: <<record, wallet>>
  pc,      \* where a thread is
  subject, \* the user its request is about
  other,   \* the other user of a transfer or a saved payee
  session, \* the columns its session loaded
  form,    \* the columns it wants
  loaded   \* the rows its cascade will delete

people == <<users, gone, account, wallets>>
money  == <<records, entries>>
locals == <<pc, subject, other, session, form, loaded>>
vars   == <<people, payees, money, locals>>

Statuses == {"Active", "Frozen"}

Rows == [email : Emails \cup {None}, phone : Phones \cup {None}, status : Statuses]

(* A new user is Active. *)
NewRow(e, p) == [email |-> e, phone |-> p, status |-> "Active"]
NoRow == NewRow(None, None)

Kinds == {"transfer", "payment", "push", "deposit"}

Books == [id : Records, kind : Kinds, parties : (SUBSET Users) \ {{}}]

Pairs == {p \in Users \X Users : p[1] # p[2]}

Cascades == [payees : SUBSET Pairs, entries : SUBSET (Records \X Users)]
NoCascade == [payees |-> {}, entries |-> {}]

TypeOK ==
  /\ users \in SUBSET Users /\ gone \in SUBSET (Users \ users)
  /\ account \in [Users -> Rows]
  /\ wallets \in SUBSET Users
  /\ payees \in SUBSET Pairs
  /\ records \in SUBSET Books
  /\ entries \in SUBSET (Records \X Users)
  /\ pc \in [Threads -> {"idle", "signup", "wallet", "update", "payee", "move",
                         "push", "cascade", "delete"}]
  /\ subject \in [Threads -> Users \cup {None}]
  /\ other \in [Threads -> Users \cup {None}]
  /\ session \in [Threads -> Rows]
  /\ form \in [Threads -> Rows]
  /\ loaded \in [Threads -> Cascades]

Init ==
  /\ users = {} /\ gone = {} /\ wallets = {}
  /\ account = [u \in Users |-> NoRow]
  /\ payees = {} /\ records = {} /\ entries = {}
  /\ pc = [w \in Threads |-> "idle"]
  /\ subject = [w \in Threads |-> None]
  /\ other = [w \in Threads |-> None]
  /\ session = [w \in Threads |-> NoRow]
  /\ form = [w \in Threads |-> NoRow]
  /\ loaded = [w \in Threads |-> NoCascade]
-----------------------------------------------------------------------------
(* Helpers. *)

Goto(w, l) == pc' = [pc EXCEPT ![w] = l]

(* The request about u is being served; its session has loaded u. *)
Begin(w, l, u) ==
  /\ pc[w] = "idle"
  /\ Goto(w, l)
  /\ subject' = [subject EXCEPT ![w] = u]
  /\ session' = [session EXCEPT ![w] = account[u]]

(* The request is answered: whatever was not committed is rolled back. *)
End(w) ==
  /\ Goto(w, "idle")
  /\ subject' = [subject EXCEPT ![w] = None]
  /\ other' = [other EXCEPT ![w] = None]
  /\ session' = [session EXCEPT ![w] = NoRow]
  /\ form' = [form EXCEPT ![w] = NoRow]
  /\ loaded' = [loaded EXCEPT ![w] = NoCascade]

(* _load_authenticated_user and is_account_active; is_active never changes. *)
Active(u) == u \in users /\ account[u].status = "Active"

EmailStored(e) == \E u \in users : account[u].email = e

(* Another user than u has the phone number p. *)
PhoneStored(p, u) == p # None /\ \E v \in users \ {u} : account[v].phone = p

(* A statement that wants the email e or the phone number p waits for the    *)
(* transaction that flushed them before it.                                  *)
Claimed(w, e, p) ==
  \E x \in Threads \ {w} :
     pc[x] = "wallet" /\ (form[x].email = e \/ (p # None /\ form[x].phone = p))

IsNewId(u) == u \notin users \cup gone /\ \A x \in Threads : subject[x] # u

(* A transfer writes to two wallets, a payment or a deposit to one, a push   *)
(* to none.                                                                  *)
EntriesOf(r) == IF r.kind = "push" THEN {} ELSE {r.id} \X r.parties

(* The foreign keys of the new rows: without user or wallet no INSERT. *)
MayReference(r) == r.parties \subseteq users /\ r.parties \subseteq wallets

Store(r) == /\ \A b \in records : b.id # r.id
            /\ records' = records \cup {r}
            /\ entries' = entries \cup EntriesOf(r)
-----------------------------------------------------------------------------
(* register_user and the administrator's POST /users *)

(* Email and phone number are looked up without a lock.  Only registration   *)
(* puts the email into lower case.                                           *)
LookUp(w, e, p) ==
  /\ pc[w] = "idle"
  /\ ~EmailStored(e) /\ ~PhoneStored(p, None)
  /\ Goto(w, "signup")
  /\ form' = [form EXCEPT ![w] = NewRow(e, p)]
  /\ UNCHANGED <<people, payees, money, subject, other, session, loaded>>

Register(w) == \E e \in Emails, p \in Phones \cup {None} : LookUp(w, Lower[e], p)

AdminCreate(w) == \E e \in Emails, p \in Phones \cup {None} : LookUp(w, e, p)

(* fault: the user is committed before the wallet is created *)
CommitUser(w, u) == /\ users' = users \cup {u}
                    /\ account' = [account EXCEPT ![u] = form[w]]
                    /\ UNCHANGED <<gone, wallets>>

(* The user is flushed, not committed. *)
StageUser(w, u) == UNCHANGED people

(* The unique indexes of users. *)
IsTaken(w) == EmailStored(form[w].email) \/ PhoneStored(form[w].phone, None)

FlushUser(w) ==
  /\ pc[w] = "signup"
  /\ ~Claimed(w, form[w].email, form[w].phone)
  /\ \/ /\ IsTaken(w)
        /\ End(w)
        /\ UNCHANGED people
     \/ /\ ~IsTaken(w)
        /\ \E u \in Users : /\ IsNewId(u)
                            /\ subject' = [subject EXCEPT ![w] = u]
                            /\ StageUser(w, u)
        /\ Goto(w, "wallet")
        /\ UNCHANGED <<other, session, form, loaded>>
  /\ UNCHANGED <<payees, money>>

(* User and wallet are committed together. *)
CreateWallet(w) ==
  /\ pc[w] = "wallet"
  /\ users' = users \cup {subject[w]}
  /\ account' = [account EXCEPT ![subject[w]] = form[w]]
  /\ wallets' = wallets \cup {subject[w]}
  /\ End(w)
  /\ UNCHANGED <<gone, payees, money>>
-----------------------------------------------------------------------------
(* update_user, update_user_admin, toggle-freeze *)

Request(w, u, row) ==
  /\ Begin(w, "update", u)
  /\ form' = [form EXCEPT ![w] = row]
  /\ UNCHANGED <<people, payees, money, other, loaded>>

(* The owner chooses another phone number, looked up without a lock. *)
EditProfile(w, u) ==
  /\ Active(u)
  /\ \E p \in Phones : /\ ~PhoneStored(p, u)
                       /\ Request(w, u, [account[u] EXCEPT !.phone = p])

(* An administrator sets phone number and status.  An empty phone number     *)
(* reaches the service as None, which means: leave it as it is.              *)
AdminEdit(w, u) ==
  /\ u \in users
  /\ \E p \in Phones \cup {account[u].phone}, s \in Statuses :
        /\ ~PhoneStored(p, u)
        /\ Request(w, u, [account[u] EXCEPT !.phone = p, !.status = s])

(* The status is read here and its opposite written later. *)
ToggleFreeze(w, u) ==
  /\ u \in users
  /\ Request(w, u, [account[u] EXCEPT
        !.status = IF @ = "Active" THEN "Frozen" ELSE "Active"])

(* fault: the UPDATE writes every column of the session's copy *)
EveryColumn(w, row) == [row EXCEPT !.phone = form[w].phone, !.status = form[w].status]

(* The UPDATE names the columns that differ from what the session loaded. *)
ChangedColumns(w, row) ==
  [row EXCEPT !.phone  = IF form[w].phone # session[w].phone THEN form[w].phone ELSE @,
              !.status = IF form[w].status # session[w].status THEN form[w].status ELSE @]

(* A phone number that was taken meanwhile and a user that was deleted end   *)
(* the request with an error.                                                *)
CommitUpdate(w) ==
  LET u == subject[w]
      row == ChangedColumns(w, account[u])
  IN /\ pc[w] = "update"
     /\ u \in users => ~Claimed(w, None, row.phone)
     /\ IF u \in users /\ ~PhoneStored(row.phone, u)
        THEN account' = [account EXCEPT ![u] = row]
        ELSE UNCHANGED account
     /\ End(w)
     /\ UNCHANGED <<users, gone, wallets, payees, money>>
-----------------------------------------------------------------------------
(* Beneficiaries. *)

(* fault: an owner may choose the own account *)
AnyPayee(u, v) == <<u, v>> \notin payees

MayChoose(u, v) == u # v /\ <<u, v>> \notin payees

(* BeneficiaryService.create: the payee is resolved and checked. *)
ChoosePayee(w, u, v) ==
  /\ Active(u) /\ Active(v)
  /\ MayChoose(u, v)
  /\ Begin(w, "payee", u)
  /\ other' = [other EXCEPT ![w] = v]
  /\ UNCHANGED <<people, payees, money, form, loaded>>

(* The unique pair and the foreign keys decide; both refusals are answered   *)
(* with a 409.                                                               *)
InsertPayee(w) ==
  LET p == <<subject[w], other[w]>>
  IN /\ pc[w] = "payee"
     /\ payees' = IF {subject[w], other[w]} \subseteq users THEN payees \cup {p}
                  ELSE payees
     /\ End(w)
     /\ UNCHANGED <<people, money>>

(* BeneficiaryService.delete, by the owner: the row and its primary key are  *)
(* gone, also for a cascade that has loaded it.                              *)
RemovePayee(p) ==
  /\ p \in payees
  /\ Active(p[1])
  /\ payees' = payees \ {p}
  /\ loaded' = [w \in Threads |-> [loaded[w] EXCEPT !.payees = @ \ {p}]]
  /\ UNCHANGED <<people, money, pc, subject, other, session, form>>
-----------------------------------------------------------------------------
(* Money that moves or is asked for. *)

(* transfer checks sender and receiver without a lock. *)
CheckReceiver(w, u, v) ==
  /\ Active(u) /\ Active(v)
  /\ u # v
  /\ Begin(w, "move", u)
  /\ other' = [other EXCEPT ![w] = v]
  /\ UNCHANGED <<people, payees, money, form, loaded>>

(* initiate_payment: the transaction has its owner on both sides. *)
CheckPayer(w, u) ==
  /\ Active(u)
  /\ Begin(w, "move", u)
  /\ other' = [other EXCEPT ![w] = u]
  /\ UNCHANGED <<people, payees, money, form, loaded>>

(* The wallets are locked, or missing, and everything is committed at once.  *)
MoveMoney(w) ==
  LET parties == {subject[w], other[w]}
      kind == IF subject[w] = other[w] THEN "payment" ELSE "transfer"
  IN /\ pc[w] = "move"
     /\ \E i \in Records :
           LET r == [id |-> i, kind |-> kind, parties |-> parties]
           IN MayReference(r) /\ Store(r)
     /\ End(w)
     /\ UNCHANGED <<people, payees>>

(* initiate_deposit reads the wallet and calls Daraja without a transaction. *)
SendPush(w, u) ==
  /\ Active(u) /\ u \in wallets
  /\ Begin(w, "push", u)
  /\ UNCHANGED <<people, payees, money, other, form, loaded>>

(* The accepted or refused push gets its row, if the user still exists. *)
PersistPush(w) ==
  /\ pc[w] = "push"
  /\ \E i \in Records :
        LET r == [id |-> i, kind |-> "push", parties |-> {subject[w]}]
        IN MayReference(r) /\ Store(r)
  /\ End(w)
  /\ UNCHANGED <<people, payees>>

(* The rows of one kind about the same users as r. *)
Like(r, k) == {b \in records : b.kind = k /\ b.parties = r.parties}

(* The deposit of a push is credited (modelled in Deposit), each push once. *)
CreditDeposit(r) ==
  /\ r \in records
  /\ Cardinality(Like(r, "deposit")) < Cardinality(Like(r, "push"))
  /\ \E i \in Records :
        LET c == [id |-> i, kind |-> "deposit", parties |-> r.parties]
        IN MayReference(c) /\ Store(c)
  /\ UNCHANGED <<people, payees, locals>>
-----------------------------------------------------------------------------
(* The administrator's DELETE /users/<id> *)

HasFinancialHistory(u) == \E r \in records : u \in r.parties

CheckHistory(w, u) ==
  /\ u \in users /\ ~HasFinancialHistory(u)
  /\ Begin(w, "cascade", u)
  /\ UNCHANGED <<people, payees, money, other, form, loaded>>

(* fault: an INSERT of a payee after the cascade was loaded goes unnoticed *)
ByMoneyOnly(w, u) == HasFinancialHistory(u)

(* fault: transactions and pushes do not reference the user *)
ByPayeesOnly(w, u) == \E p \in payees \ loaded[w].payees : u \in {p[1], p[2]}

(* The foreign keys that refuse the DELETE of user u and of the wallet. *)
StillReferenced(w, u) ==
  \/ HasFinancialHistory(u)
  \/ \E p \in payees \ loaded[w].payees : u \in {p[1], p[2]}
  \/ \E e \in entries \ loaded[w].entries : e[2] = u

(* session.delete loads what the cascades delete, ledger entries included. *)
LoadCascade(w) ==
  LET u == subject[w]
  IN /\ pc[w] = "cascade"
     /\ Goto(w, "delete")
     /\ loaded' = [loaded EXCEPT ![w] =
           [payees  |-> {p \in payees : u \in {p[1], p[2]}},
            entries |-> {e \in entries : e[2] = u}]]
     /\ UNCHANGED <<people, payees, money, subject, other, session, form>>

(* The flush deletes ledger entries, payees, wallet and user, and is         *)
(* committed, or refused as a whole.  A user that was deleted meanwhile is   *)
(* only a warning.                                                           *)
DeleteUser(w) ==
  LET u == subject[w]
  IN /\ pc[w] = "delete"
     /\ u \in users /\ ~StillReferenced(w, u)
     /\ users' = users \ {u}
     /\ gone' = gone \cup {u}
     /\ account' = [account EXCEPT ![u] = NoRow]
     /\ wallets' = wallets \ {u}
     /\ payees' = payees \ loaded[w].payees
     /\ entries' = entries \ loaded[w].entries
     /\ End(w)
     /\ UNCHANGED records

(* Any request ends without a trace: refused, failed, or its process died. *)
GiveUp(w) ==
  /\ pc[w] # "idle"
  /\ End(w)
  /\ UNCHANGED <<people, payees, money>>
-----------------------------------------------------------------------------
SignUp(w) == Register(w) \/ AdminCreate(w) \/ FlushUser(w) \/ CreateWallet(w)

Edit(w) == \/ \E u \in users : EditProfile(w, u) \/ AdminEdit(w, u) \/ ToggleFreeze(w, u)
           \/ CommitUpdate(w)

Choose(w) == \/ \E u, v \in users : ChoosePayee(w, u, v)
             \/ InsertPayee(w)

Move(w) == \/ \E u, v \in users : CheckReceiver(w, u, v)
           \/ \E u \in users : CheckPayer(w, u) \/ SendPush(w, u)
           \/ MoveMoney(w) \/ PersistPush(w)

Delete(w) == \/ \E u \in users : CheckHistory(w, u)
             \/ LoadCascade(w) \/ DeleteUser(w)

Next == \/ \E w \in Threads : \/ SignUp(w) \/ Edit(w) \/ Choose(w)
                              \/ Move(w) \/ Delete(w) \/ GiveUp(w)
        \/ \E p \in payees : RemovePayee(p)
        \/ \E r \in records : CreditDeposit(r)

Spec == Init /\ [][Next]_vars
-----------------------------------------------------------------------------
(* Safety. *)

(* A user and the wallet exist together, and no two users share an email or  *)
(* a phone number, however registrations and edits interleave                *)
(* (AuthService.register_user: one transaction; unique constraints decide).  *)
AccountsComplete ==
  /\ wallets = users
  /\ \A u, v \in users : u # v =>
        /\ account[u].email # account[v].email
        /\ account[u].phone = account[v].phone => account[u].phone = None

(* Whatever a deletion raced with, every saved payee, every record of money  *)
(* and every ledger entry still has its users and wallet, and no record has  *)
(* lost its ledger entries to the cascade (the history is checked without a  *)
(* lock, and the wallet's cascade would delete the ledger).                  *)
NoOrphans ==
  /\ \A p \in payees : {p[1], p[2]} \subseteq users
  /\ \A r \in records : r.parties \subseteq users /\ r.parties \subseteq wallets
  /\ entries = UNION {EntriesOf(r) : r \in records}
-----------------------------------------------------------------------------
(* The inductive invariant behind the safety properties. *)

(* A flushed user has an id, an email and a phone number of its own. *)
FlushedIsNew ==
  \A w \in Threads : pc[w] = "wallet" =>
     /\ subject[w] \in Users \ (users \cup gone)
     /\ ~IsTaken(w)
     /\ ~Claimed(w, form[w].email, form[w].phone)
     /\ \A x \in Threads \ {w} : subject[x] # subject[w]

(* A request in progress is about a user, a payee is another user, and a     *)
(* cascade has loaded the ledger of its own wallet only.                     *)
SubjectKnown ==
  \A w \in Threads :
     /\ pc[w] \notin {"idle", "signup"} => subject[w] \in Users
     /\ pc[w] = "payee" => other[w] # subject[w]
     /\ pc[w] = "delete" => \A e \in loaded[w].entries : e[2] = subject[w]

IInv == TypeOK /\ AccountsComplete /\ NoOrphans /\ FlushedIsNew /\ SubjectKnown
-----------------------------------------------------------------------------
(* An action property. *)

(* An account is thawed only by a request whose session has seen it frozen:  *)
(* an edit of the profile, or an administrator's, that loaded the account    *)
(* before it was frozen never undoes the freeze.                             *)
FreezeIsKept ==
  [][\A u \in users \cap users' :
       account[u].status = "Frozen" /\ account'[u].status = "Active"
         => \E w \in Threads : /\ pc[w] = "update" /\ pc'[w] = "idle"
                                /\ subject[w] = u /\ session[w].status = "Frozen"]_vars
-----------------------------------------------------------------------------
(* Refinement. *)

R == INSTANCE Registry WITH open <- users, closed <- gone, book <- records

(* Accounts implement Registry: one registration opens one account, one      *)
(* deletion closes one account that no record names, and no record of money  *)
(* is changed or removed, although nothing is locked between the check of    *)
(* the history and the deletion.                                             *)
ImplementsRegistry == R!Spec
=============================================================================
