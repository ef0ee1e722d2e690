--------------------------- MODULE AccountsProofs ---------------------------
(***************************************************************************)
(* Safety of Accounts, for any users, threads, records, emails and phone   *)
(* numbers.                                                                *)
(*                                                                         *)
(* That accounts stay complete rests on the claims of a flushed INSERT     *)
(* (FlushedIsNew): nobody else commits its email, phone number or id       *)
(* before it does.  That nothing is orphaned rests on the foreign keys,    *)
(* and on a cascade having loaded no ledger but its own (SubjectKnown).    *)
(***************************************************************************)
EXTENDS Accounts, TLAPS

LEMMA InitIInv == Init => IInv
<1> SUFFICES ASSUME Init PROVE IInv
  OBVIOUS
<1>1. TypeOK
  BY DEF Init, TypeOK, Rows, NoRow, NewRow, Statuses, Cascades, NoCascade
<1>2. AccountsComplete /\ NoOrphans /\ FlushedIsNew /\ SubjectKnown
  BY DEF Init, AccountsComplete, NoOrphans, FlushedIsNew, SubjectKnown
<1> QED
  BY <1>1, <1>2 DEF IInv

(* A request that loads a user and stops before its commit disturbs nothing. *)
LEMMA BeginIInv ==
  ASSUME IInv, NEW w \in Threads, NEW u \in users,
         NEW l \in {"update", "payee", "move", "push", "cascade"},
         Begin(w, l, u), UNCHANGED <<people, payees, money, loaded>>,
         NEW v \in Users \cup {None}, other' = [other EXCEPT ![w] = v],
         l = "payee" => v # u,
         NEW row \in Rows, form' = [form EXCEPT ![w] = row]
  PROVE  IInv'
<1> USE DEF Begin, Goto, people, money
<1>1. TypeOK'
  BY DEF IInv, TypeOK
<1>2. AccountsComplete' /\ NoOrphans'
  BY DEF IInv, AccountsComplete, NoOrphans
<1>3. FlushedIsNew'
  BY DEF IInv, TypeOK, FlushedIsNew, IsTaken, EmailStored, PhoneStored, Claimed
<1>4. SubjectKnown'
  BY DEF IInv, TypeOK, SubjectKnown
<1> QED
  BY <1>1, <1>2, <1>3, <1>4 DEF IInv

(* A request that ends without a commit disturbs nothing. *)
LEMMA EndIInv ==
  ASSUME IInv, NEW w \in Threads, End(w), UNCHANGED <<people, payees, money>>
  PROVE  IInv'
<1> USE DEF End, Goto, people, money
<1>1. TypeOK'
  BY DEF IInv, TypeOK, Rows, NoRow, NewRow, Statuses, Cascades, NoCascade
<1>2. AccountsComplete' /\ NoOrphans'
  BY DEF IInv, AccountsComplete, NoOrphans
<1>3. FlushedIsNew'
  BY NoneAssumption
     DEF IInv, TypeOK, FlushedIsNew, IsTaken, EmailStored, PhoneStored, Claimed
<1>4. SubjectKnown'
  BY DEF IInv, TypeOK, SubjectKnown
<1> QED
  BY <1>1, <1>2, <1>3, <1>4 DEF IInv

LEMMA SignUpIInv ==
  ASSUME IInv, NEW w \in Threads, SignUp(w) PROVE IInv'
<1> USE DEF Goto
<1>1. ASSUME NEW e \in Emails, NEW p \in Phones \cup {None}, LookUp(w, e, p)
      PROVE  IInv'
  <2> USE <1>1 DEF LookUp, people, money
  <2>1. TypeOK'
    BY DEF IInv, TypeOK, Rows, NewRow, Statuses
  <2>2. AccountsComplete' /\ NoOrphans'
    BY DEF IInv, AccountsComplete, NoOrphans
  <2>3. FlushedIsNew'
    BY DEF IInv, TypeOK, FlushedIsNew, IsTaken, EmailStored, PhoneStored, Claimed
  <2>4. SubjectKnown'
    BY DEF IInv, TypeOK, SubjectKnown
  <2> QED
    BY <2>1, <2>2, <2>3, <2>4 DEF IInv
<1>2. CASE FlushUser(w) /\ IsTaken(w)
  BY <1>2, EndIInv DEF FlushUser
<1>3. CASE FlushUser(w) /\ ~IsTaken(w)
  <2> PICK u \in Users : /\ IsNewId(u)
                        /\ subject' = [subject EXCEPT ![w] = u]
                        /\ UNCHANGED people
    BY <1>3 DEF FlushUser, StageUser
  <2>1. /\ ~Claimed(w, form[w].email, form[w].phone)
        /\ pc[w] = "signup"
        /\ pc' = [pc EXCEPT ![w] = "wallet"]
        /\ UNCHANGED <<other, session, form, loaded, payees, money>>
    BY <1>3 DEF FlushUser
  <2> USE <2>1 DEF people, money
  <2>2. TypeOK'
    BY DEF IInv, TypeOK
  <2>3. AccountsComplete' /\ NoOrphans'
    BY DEF IInv, AccountsComplete, NoOrphans
  <2>4. FlushedIsNew'
    <3> SUFFICES ASSUME NEW x \in Threads, pc'[x] = "wallet"
                 PROVE  /\ subject'[x] \in Users \ (users' \cup gone')
                        /\ ~IsTaken(x)'
                        /\ ~Claimed(x, form[x].email, form[x].phone)'
                        /\ \A y \in Threads \ {x} : subject'[y] # subject'[x]
      BY DEF FlushedIsNew
    <3>1. CASE x = w
      BY <3>1, <1>3 DEF IInv, TypeOK, IsNewId, IsTaken, EmailStored, PhoneStored, Claimed
    <3>2. CASE x # w
      BY <3>2 DEF IInv, TypeOK, FlushedIsNew, IsNewId, IsTaken, EmailStored,
                  PhoneStored, Claimed
    <3> QED
      BY <3>1, <3>2
  <2>5. SubjectKnown'
    BY DEF IInv, TypeOK, SubjectKnown
  <2> QED
    BY <2>2, <2>3, <2>4, <2>5 DEF IInv
<1>4. CASE CreateWallet(w)
  <2> DEFINE u == subject[w]
  <2>1. /\ u \in Users \ (users \cup gone)
        /\ ~IsTaken(w)
        /\ ~Claimed(w, form[w].email, form[w].phone)
        /\ \A x \in Threads \ {w} : subject[x] # u
    BY <1>4 DEF IInv, FlushedIsNew, CreateWallet
  <2>2. /\ users' = users \cup {u}
        /\ account' = [account EXCEPT ![u] = form[w]]
        /\ wallets' = wallets \cup {u}
        /\ UNCHANGED <<gone, payees, money>>
    BY <1>4 DEF CreateWallet
  <2>3. /\ pc' = [pc EXCEPT ![w] = "idle"]
        /\ subject' = [subject EXCEPT ![w] = None]
        /\ other' = [other EXCEPT ![w] = None]
        /\ session' = [session EXCEPT ![w] = NoRow]
        /\ form' = [form EXCEPT ![w] = NoRow]
        /\ loaded' = [loaded EXCEPT ![w] = NoCascade]
    BY <1>4 DEF CreateWallet, End
  <2> HIDE DEF u
  <2>4. TypeOK'
    BY <2>1, <2>2, <2>3 DEF IInv, TypeOK, money, Rows, NoRow, NewRow, Statuses,
                            Cascades, NoCascade
  <2>5. AccountsComplete'
    <3>1. \A v \in users : /\ account[v].email # form[w].email
                           /\ account[v].phone = form[w].phone => form[w].phone = None
      BY <2>1, NoneAssumption DEF IInv, TypeOK, IsTaken, EmailStored, PhoneStored
    <3>2. account'[u] = form[w] /\ \A v \in users : account'[v] = account[v]
      BY <2>1, <2>2 DEF IInv, TypeOK
    <3>3. wallets' = users'
      BY <2>2 DEF IInv, AccountsComplete
    <3>4. ASSUME NEW x \in users', NEW y \in users', x # y
          PROVE  /\ account'[x].email # account'[y].email
                 /\ account'[x].phone = account'[y].phone => account'[x].phone = None
      <4>1. CASE x \in users /\ y \in users
        BY <3>2, <3>4, <4>1 DEF IInv, AccountsComplete
      <4>2. CASE x \in users /\ y = u
        BY <3>1, <3>2, <4>2
      <4>3. CASE x = u /\ y \in users
        BY <3>1, <3>2, <4>3
      <4> QED
        BY <2>2, <3>4, <4>1, <4>2, <4>3
    <3> QED
      BY <3>3, <3>4 DEF AccountsComplete
  <2>6. NoOrphans'
    BY <2>2 DEF IInv, NoOrphans, money
  <2>7. FlushedIsNew'
    <3> SUFFICES ASSUME NEW x \in Threads, pc'[x] = "wallet"
                 PROVE  /\ subject'[x] \in Users \ (users' \cup gone')
                        /\ ~IsTaken(x)'
                        /\ ~Claimed(x, form[x].email, form[x].phone)'
                        /\ \A y \in Threads \ {x} : subject'[y] # subject'[x]
      BY DEF FlushedIsNew
    <3>1. x # w /\ pc[x] = "wallet" /\ UNCHANGED <<subject[x], form[x]>>
      BY <2>3 DEF IInv, TypeOK
    <3>2. /\ form[x].email # form[w].email
          /\ form[x].phone = form[w].phone => form[x].phone = None
      BY <2>1, <3>1 DEF Claimed
    <3>3. /\ subject[x] \in Users \ (users \cup gone) /\ subject[x] # u
          /\ ~IsTaken(x)
          /\ ~Claimed(x, form[x].email, form[x].phone)
          /\ \A y \in Threads \ {x} : subject[y] # subject[x]
      BY <3>1, <2>1 DEF IInv, FlushedIsNew
    <3>4. ~IsTaken(x)'
      BY <2>1, <2>2, <3>1, <3>2, <3>3 DEF IInv, TypeOK, IsTaken, EmailStored, PhoneStored
    <3>5. ~Claimed(x, form[x].email, form[x].phone)'
      BY <2>3, <3>1, <3>3 DEF IInv, TypeOK, Claimed
    <3> QED
      BY <2>2, <2>3, <3>1, <3>3, <3>4, <3>5, NoneAssumption DEF IInv, TypeOK
  <2>8. SubjectKnown'
    BY <2>3 DEF IInv, TypeOK, SubjectKnown
  <2> QED
    BY <2>4, <2>5, <2>6, <2>7, <2>8 DEF IInv
<1> QED
  BY <1>1, <1>2, <1>3, <1>4, LowerAssumption DEF SignUp, Register, AdminCreate

LEMMA EditIInv ==
  ASSUME IInv, NEW w \in Threads, Edit(w) PROVE IInv'
<1>1. ASSUME NEW u \in users, NEW row \in Rows, Request(w, u, row) PROVE IInv'
  <2>1. /\ other[w] \in Users \cup {None}
        /\ other' = [other EXCEPT ![w] = other[w]]
    BY <1>1 DEF IInv, TypeOK, Request
  <2> QED
    BY <1>1, <2>1, BeginIInv DEF Request
<1>2. ASSUME NEW u \in users, EditProfile(w, u) \/ AdminEdit(w, u) \/ ToggleFreeze(w, u)
      PROVE  IInv'
  <2>1. account[u] \in Rows
    BY DEF IInv, TypeOK
  <2> QED
    BY <1>1, <1>2, <2>1 DEF EditProfile, AdminEdit, ToggleFreeze, Rows, Statuses
<1>3. CASE CommitUpdate(w)
  <2> DEFINE u == subject[w]
             row == ChangedColumns(w, account[u])
  <2>1. /\ pc[w] = "update"
        /\ u \in users => ~Claimed(w, None, row.phone)
        /\ IF u \in users /\ ~PhoneStored(row.phone, u)
           THEN account' = [account EXCEPT ![u] = row]
           ELSE UNCHANGED account
        /\ End(w)
        /\ UNCHANGED <<users, gone, wallets, payees, money>>
    BY <1>3 DEF CommitUpdate
  <2>2. CASE UNCHANGED account
    BY <2>1, <2>2, EndIInv DEF people
  <2>3. CASE /\ u \in users /\ ~PhoneStored(row.phone, u)
             /\ account' = [account EXCEPT ![u] = row]
    <3>1. row \in Rows /\ row.email = account[u].email
      <4>1. account[u] \in Rows /\ form[w] \in Rows /\ session[w] \in Rows
        BY <2>3 DEF IInv, TypeOK
      <4> QED
        BY <4>1 DEF ChangedColumns, Rows
    <3> HIDE DEF u, row
    <3> USE DEF End, Goto
    <3>2. TypeOK'
      BY <2>1, <2>3, <3>1 DEF IInv, TypeOK, money, Rows, NoRow, NewRow, Statuses,
                              Cascades, NoCascade
    <3>3. AccountsComplete'
      BY <2>1, <2>3, <3>1 DEF IInv, TypeOK, AccountsComplete, PhoneStored
    <3>4. NoOrphans'
      BY <2>1 DEF IInv, NoOrphans, money
    <3>5. FlushedIsNew'
      <4> SUFFICES ASSUME NEW x \in Threads, pc'[x] = "wallet"
                   PROVE  /\ subject'[x] \in Users \ (users' \cup gone')
                          /\ ~IsTaken(x)'
                          /\ ~Claimed(x, form[x].email, form[x].phone)'
                          /\ \A y \in Threads \ {x} : subject'[y] # subject'[x]
        BY DEF FlushedIsNew
      <4>1. x # w /\ pc[x] = "wallet" /\ UNCHANGED <<subject[x], form[x]>>
        BY <2>1 DEF IInv, TypeOK
      <4>2. row.phone = form[x].phone => form[x].phone = None
        BY <2>1, <2>3, <4>1 DEF Claimed
      <4>3. /\ subject[x] \in Users \ (users \cup gone)
            /\ ~IsTaken(x)
            /\ ~Claimed(x, form[x].email, form[x].phone)
            /\ \A y \in Threads \ {x} : subject[y] # subject[x]
        BY <4>1 DEF IInv, FlushedIsNew
      <4>4. ~IsTaken(x)'
        BY <2>1, <2>3, <3>1, <4>1, <4>2, <4>3
           DEF IInv, TypeOK, IsTaken, EmailStored, PhoneStored
      <4>5. ~Claimed(x, form[x].email, form[x].phone)'
        BY <2>1, <4>1, <4>3 DEF IInv, TypeOK, Claimed
      <4> QED
        BY <2>1, <4>1, <4>3, <4>4, <4>5, NoneAssumption DEF IInv, TypeOK
    <3>6. SubjectKnown'
      BY <2>1 DEF IInv, TypeOK, SubjectKnown
    <3> QED
      BY <3>2, <3>3, <3>4, <3>5, <3>6 DEF IInv
  <2> QED
    BY <2>1, <2>2, <2>3
<1> QED
  BY <1>2, <1>3 DEF Edit

LEMMA ChooseIInv ==
  ASSUME IInv, NEW w \in Threads, Choose(w) PROVE IInv'
<1>1. ASSUME NEW u \in users, NEW v \in users, ChoosePayee(w, u, v) PROVE IInv'
  <2>1. form[w] \in Rows /\ form' = [form EXCEPT ![w] = form[w]] /\ v \in Users
    BY <1>1 DEF IInv, TypeOK, ChoosePayee
  <2> QED
    BY <1>1, <2>1, BeginIInv DEF ChoosePayee, MayChoose
<1>2. CASE InsertPayee(w)
  <2> DEFINE p == <<subject[w], other[w]>>
  <2>1. /\ pc[w] = "payee"
        /\ payees' = IF {subject[w], other[w]} \subseteq users THEN payees \cup {p}
                     ELSE payees
        /\ End(w)
        /\ UNCHANGED <<people, money>>
    BY <1>2 DEF InsertPayee
  <2>2. CASE payees' = payees
    BY <2>1, <2>2, EndIInv
  <2>3. CASE {subject[w], other[w]} \subseteq users /\ payees' = payees \cup {p}
    <3> USE DEF End, Goto, people, money
    <3>1. p \in Pairs
      BY <2>1, <2>3 DEF IInv, TypeOK, SubjectKnown, Pairs
    <3>2. TypeOK'
      <4>1. payees' \subseteq Pairs
        BY <2>3, <3>1 DEF IInv, TypeOK
      <4> HIDE DEF p
      <4> QED
        BY <2>1, <4>1 DEF IInv, TypeOK, Rows, NoRow, NewRow, Statuses, Cascades, NoCascade
    <3>3. AccountsComplete' /\ NoOrphans'
      BY <2>1, <2>3 DEF IInv, AccountsComplete, NoOrphans
    <3>4. FlushedIsNew'
      BY <2>1, NoneAssumption
         DEF IInv, TypeOK, FlushedIsNew, IsTaken, EmailStored, PhoneStored, Claimed
    <3>5. SubjectKnown'
      BY <2>1 DEF IInv, TypeOK, SubjectKnown
    <3> QED
      BY <3>2, <3>3, <3>4, <3>5 DEF IInv
  <2> QED
    BY <2>1, <2>2, <2>3
<1> QED
  BY <1>1, <1>2 DEF Choose

LEMMA RemoveIInv ==
  ASSUME IInv, NEW p \in payees, RemovePayee(p) PROVE IInv'
<1> USE DEF RemovePayee, people, money
<1>1. TypeOK'
  BY DEF IInv, TypeOK, Cascades
<1>2. AccountsComplete' /\ NoOrphans'
  BY DEF IInv, AccountsComplete, NoOrphans
<1>3. FlushedIsNew'
  BY DEF IInv, FlushedIsNew, IsTaken, EmailStored, PhoneStored, Claimed
<1>4. SubjectKnown'
  BY DEF IInv, TypeOK, SubjectKnown, Cascades
<1> QED
  BY <1>1, <1>2, <1>3, <1>4 DEF IInv

(* A stored record brings its ledger entries and names users with wallets. *)
LEMMA StoreKeepsOrder ==
  ASSUME IInv, NEW i \in Records, NEW k \in Kinds, NEW P \in SUBSET Users, P # {},
         MayReference([id |-> i, kind |-> k, parties |-> P]),
         Store([id |-> i, kind |-> k, parties |-> P]), UNCHANGED <<people, payees>>
  PROVE  /\ records' \subseteq Books /\ entries' \subseteq Records \X Users
         /\ NoOrphans'
<1> DEFINE r == [id |-> i, kind |-> k, parties |-> P]
<1>1. r \in Books
  BY DEF Books
<1>2. EntriesOf(r) \subseteq Records \X Users
  BY DEF EntriesOf
<1>3. /\ records' = records \cup {r} /\ entries' = entries \cup EntriesOf(r)
      /\ r.parties \subseteq users /\ r.parties \subseteq wallets
      /\ UNCHANGED <<people, payees>>
  BY DEF Store, MayReference
<1> HIDE DEF r
<1>4. entries' = UNION {EntriesOf(b) : b \in records'}
  BY <1>3 DEF IInv, NoOrphans
<1> QED
  BY <1>1, <1>2, <1>3, <1>4 DEF IInv, TypeOK, NoOrphans, people

(* Storing a record disturbs nothing else. *)
LEMMA StoreIInv ==
  ASSUME IInv, NEW w \in Threads, End(w), UNCHANGED <<people, payees>>,
         records' \subseteq Books, entries' \subseteq Records \X Users, NoOrphans'
  PROVE  IInv'
<1> USE DEF End, Goto, people
<1>1. TypeOK'
  BY DEF IInv, TypeOK, Rows, NoRow, NewRow, Statuses, Cascades, NoCascade
<1>2. AccountsComplete'
  BY DEF IInv, AccountsComplete
<1>3. FlushedIsNew'
  BY NoneAssumption
     DEF IInv, TypeOK, FlushedIsNew, IsTaken, EmailStored, PhoneStored, Claimed
<1>4. SubjectKnown'
  BY DEF IInv, TypeOK, SubjectKnown
<1> QED
  BY <1>1, <1>2, <1>3, <1>4 DEF IInv

LEMMA MoveIInv ==
  ASSUME IInv, NEW w \in Threads, Move(w) PROVE IInv'
<1>1. ASSUME NEW u \in users, NEW v \in users, CheckReceiver(w, u, v) PROVE IInv'
  <2>1. form[w] \in Rows /\ form' = [form EXCEPT ![w] = form[w]] /\ v \in Users
    BY <1>1 DEF IInv, TypeOK, CheckReceiver
  <2> QED
    BY <1>1, <2>1, BeginIInv DEF CheckReceiver
<1>2. ASSUME NEW u \in users, CheckPayer(w, u) PROVE IInv'
  <2>1. form[w] \in Rows /\ form' = [form EXCEPT ![w] = form[w]] /\ u \in Users
    BY <1>2 DEF IInv, TypeOK, CheckPayer
  <2> QED
    BY <1>2, <2>1, BeginIInv DEF CheckPayer
<1>3. ASSUME NEW u \in users, SendPush(w, u) PROVE IInv'
  <2>1. /\ form[w] \in Rows /\ form' = [form EXCEPT ![w] = form[w]]
        /\ other[w] \in Users \cup {None} /\ other' = [other EXCEPT ![w] = other[w]]
    BY <1>3 DEF IInv, TypeOK, SendPush
  <2> QED
    BY <1>3, <2>1, BeginIInv DEF SendPush
<1>4. CASE MoveMoney(w)
  <2> DEFINE P == {subject[w], other[w]}
             k == IF subject[w] = other[w] THEN "payment" ELSE "transfer"
  <2>1. k \in Kinds
    BY DEF Kinds
  <2>2. PICK i \in Records : /\ MayReference([id |-> i, kind |-> k, parties |-> P])
                            /\ Store([id |-> i, kind |-> k, parties |-> P])
    BY <1>4 DEF MoveMoney
  <2>3. P \in SUBSET Users /\ P # {}
    BY <2>2 DEF MayReference, IInv, TypeOK
  <2>4. End(w) /\ UNCHANGED <<people, payees>>
    BY <1>4 DEF MoveMoney
  <2> HIDE DEF P, k
  <2> QED
    BY <2>1, <2>2, <2>3, <2>4, StoreKeepsOrder, StoreIInv
<1>5. CASE PersistPush(w)
  <2> DEFINE P == {subject[w]}
  <2>1. "push" \in Kinds
    BY DEF Kinds
  <2>2. PICK i \in Records : /\ MayReference([id |-> i, kind |-> "push", parties |-> P])
                            /\ Store([id |-> i, kind |-> "push", parties |-> P])
    BY <1>5 DEF PersistPush
  <2>3. P \in SUBSET Users /\ P # {}
    BY <2>2 DEF MayReference, IInv, TypeOK
  <2>4. End(w) /\ UNCHANGED <<people, payees>>
    BY <1>5 DEF PersistPush
  <2> HIDE DEF P
  <2> QED
    BY <2>1, <2>2, <2>3, <2>4, StoreKeepsOrder, StoreIInv
<1> QED
  BY <1>1, <1>2, <1>3, <1>4, <1>5 DEF Move

LEMMA CreditIInv ==
  ASSUME IInv, NEW r \in records, CreditDeposit(r) PROVE IInv'
<1> DEFINE P == r.parties
<1>1. "deposit" \in Kinds
  BY DEF Kinds
<1>2. PICK i \in Records : /\ MayReference([id |-> i, kind |-> "deposit", parties |-> P])
                          /\ Store([id |-> i, kind |-> "deposit", parties |-> P])
  BY DEF CreditDeposit
<1>3. P \in SUBSET Users /\ P # {}
  BY DEF IInv, TypeOK, Books
<1>4. UNCHANGED <<people, payees, locals>>
  BY DEF CreditDeposit
<1> HIDE DEF P
<1>5. records' \subseteq Books /\ entries' \subseteq Records \X Users /\ NoOrphans'
  BY <1>1, <1>2, <1>3, <1>4, StoreKeepsOrder
<1> USE DEF people, locals
<1>6. TypeOK' /\ AccountsComplete'
  BY <1>4, <1>5 DEF IInv, TypeOK, AccountsComplete
<1>7. FlushedIsNew' /\ SubjectKnown'
  BY <1>4 DEF IInv, FlushedIsNew, SubjectKnown, IsTaken, EmailStored, PhoneStored, Claimed
<1> QED
  BY <1>5, <1>6, <1>7 DEF IInv

LEMMA DeleteIInv ==
  ASSUME IInv, NEW w \in Threads, Delete(w) PROVE IInv'
<1>1. ASSUME NEW u \in users, CheckHistory(w, u) PROVE IInv'
  <2>1. /\ form[w] \in Rows /\ form' = [form EXCEPT ![w] = form[w]]
        /\ other[w] \in Users \cup {None} /\ other' = [other EXCEPT ![w] = other[w]]
    BY <1>1 DEF IInv, TypeOK, CheckHistory
  <2> QED
    BY <1>1, <2>1, BeginIInv DEF CheckHistory
<1>2. CASE LoadCascade(w)
  <2> USE <1>2 DEF LoadCascade, Goto, people, money
  <2>1. TypeOK'
    BY DEF IInv, TypeOK, Cascades
  <2>2. AccountsComplete' /\ NoOrphans'
    BY DEF IInv, AccountsComplete, NoOrphans
  <2>3. FlushedIsNew'
    BY DEF IInv, TypeOK, FlushedIsNew, IsTaken, EmailStored, PhoneStored, Claimed
  <2>4. SubjectKnown'
    BY DEF IInv, TypeOK, SubjectKnown
  <2> QED
    BY <2>1, <2>2, <2>3, <2>4 DEF IInv
<1>3. CASE DeleteUser(w)
  <2> DEFINE u == subject[w]
  <2>1. /\ pc[w] = "delete" /\ u \in users
        /\ users' = users \ {u} /\ gone' = gone \cup {u}
        /\ account' = [account EXCEPT ![u] = NoRow]
        /\ wallets' = wallets \ {u}
        /\ payees' = payees \ loaded[w].payees
        /\ entries' = entries \ loaded[w].entries
        /\ UNCHANGED records
    BY <1>3 DEF DeleteUser
  <2>2. /\ \A r \in records : u \notin r.parties
        /\ \A p \in payees' : u \notin {p[1], p[2]}
    BY <1>3, <2>1 DEF DeleteUser, StillReferenced, HasFinancialHistory
  <2>3. \A e \in loaded[w].entries : e[2] = u
    BY <2>1 DEF IInv, SubjectKnown
  <2>4. End(w)
    BY <1>3 DEF DeleteUser
  <2> HIDE DEF u
  <2> USE DEF End, Goto
  <2>5. TypeOK'
    BY <2>1, <2>4 DEF IInv, TypeOK, Rows, NoRow, NewRow, Statuses, Cascades, NoCascade
  <2>6. AccountsComplete'
    BY <2>1 DEF IInv, TypeOK, AccountsComplete
  <2>7. NoOrphans'
    <3>1. \A e \in entries : e[2] # u
      BY <2>2 DEF IInv, NoOrphans, EntriesOf
    <3>2. entries' = entries
      BY <2>1, <2>3, <3>1
    <3> QED
      BY <2>1, <2>2, <3>2 DEF IInv, NoOrphans
  <2>8. FlushedIsNew'
    <3> SUFFICES ASSUME NEW x \in Threads, pc'[x] = "wallet"
                 PROVE  /\ subject'[x] \in Users \ (users' \cup gone')
                        /\ ~IsTaken(x)'
                        /\ ~Claimed(x, form[x].email, form[x].phone)'
                        /\ \A y \in Threads \ {x} : subject'[y] # subject'[x]
      BY DEF FlushedIsNew
    <3>1. x # w /\ pc[x] = "wallet" /\ UNCHANGED <<subject[x], form[x]>>
      BY <2>4 DEF IInv, TypeOK
    <3>2. /\ subject[x] \in Users \ (users \cup gone)
          /\ ~IsTaken(x)
          /\ ~Claimed(x, form[x].email, form[x].phone)
          /\ \A y \in Threads \ {x} : subject[y] # subject[x]
      BY <3>1 DEF IInv, FlushedIsNew
    <3>3. ~IsTaken(x)'
      BY <2>1, <3>1, <3>2 DEF IInv, TypeOK, IsTaken, EmailStored, PhoneStored
    <3>4. ~Claimed(x, form[x].email, form[x].phone)'
      BY <2>4, <3>1, <3>2 DEF IInv, TypeOK, Claimed
    <3> QED
      BY <2>1, <2>4, <3>1, <3>2, <3>3, <3>4, NoneAssumption DEF IInv, TypeOK
  <2>9. SubjectKnown'
    BY <2>4 DEF IInv, TypeOK, SubjectKnown
  <2> QED
    BY <2>5, <2>6, <2>7, <2>8, <2>9 DEF IInv
<1> QED
  BY <1>1, <1>2, <1>3 DEF Delete

LEMMA StepIInv == IInv /\ [Next]_vars => IInv'
<1> SUFFICES ASSUME IInv, [Next]_vars PROVE IInv'
  OBVIOUS
<1>1. ASSUME NEW w \in Threads, GiveUp(w) PROVE IInv'
  BY <1>1, EndIInv DEF GiveUp
<1>2. CASE UNCHANGED vars
  BY <1>2 DEF IInv, TypeOK, AccountsComplete, NoOrphans, FlushedIsNew, SubjectKnown,
              IsTaken, EmailStored, PhoneStored, Claimed, vars, people, money, locals
<1> QED
  BY <1>1, <1>2, SignUpIInv, EditIInv, ChooseIInv, MoveIInv, DeleteIInv, RemoveIInv,
     CreditIInv DEF Next

LEMMA Invariance == Spec => []IInv
<1> QED
  BY InitIInv, StepIInv, PTL DEF Spec

(* The tables and the sessions hold what their columns allow; a saved payee  *)
(* is never the owner.                                                       *)
THEOREM TypeCorrect == Spec => []TypeOK
<1>1. IInv => TypeOK
  BY DEF IInv
<1> QED
  BY <1>1, Invariance, PTL

(* Users and wallets exist together, and emails and phone numbers are        *)
(* unique, for any number of concurrent registrations and edits.             *)
THEOREM AccountsStayComplete == Spec => []AccountsComplete
<1>1. IInv => AccountsComplete
  BY DEF IInv
<1> QED
  BY <1>1, Invariance, PTL

(* No deletion leaves a payee, a record of money or a ledger entry without   *)
(* its user and wallet, and none takes a ledger entry of a record away.      *)
THEOREM NothingOrphaned == Spec => []NoOrphans
<1>1. IInv => NoOrphans
  BY DEF IInv
<1> QED
  BY <1>1, Invariance, PTL

(* A step that thaws an account is the commit of a request that saw it frozen. *)
LEMMA StepFreeze ==
  ASSUME IInv, [Next]_vars, NEW u \in users \cap users',
         account[u].status = "Frozen", account'[u].status = "Active"
  PROVE  \E w \in Threads : /\ pc[w] = "update" /\ pc'[w] = "idle"
                            /\ subject[w] = u /\ session[w].status = "Frozen"
<1>1. account'[u] # account[u]
  OBVIOUS
<1>2. ASSUME NEW w \in Threads, CreateWallet(w) PROVE FALSE
  BY <1>1, <1>2 DEF CreateWallet, IInv, TypeOK, FlushedIsNew
<1>3. ASSUME NEW w \in Threads, DeleteUser(w) PROVE FALSE
  BY <1>1, <1>3 DEF DeleteUser, IInv, TypeOK
<1>4. ASSUME NEW w \in Threads, CommitUpdate(w)
      PROVE  /\ pc[w] = "update" /\ pc'[w] = "idle"
             /\ subject[w] = u /\ session[w].status = "Frozen"
  <2>1. /\ subject[w] = u /\ account'[u] = ChangedColumns(w, account[u])
        /\ pc[w] = "update" /\ pc'[w] = "idle"
    BY <1>1, <1>4 DEF CommitUpdate, IInv, TypeOK, End, Goto
  <2>2. account[u] \in Rows /\ session[w] \in Rows
    BY DEF IInv, TypeOK
  <2>3. account'[u].status = IF form[w].status # session[w].status
                             THEN form[w].status ELSE account[u].status
    BY <2>1, <2>2 DEF ChangedColumns, Rows
  <2> QED
    BY <2>1, <2>2, <2>3 DEF Rows, Statuses
<1>5. CASE UNCHANGED account
  BY <1>1, <1>5
<1>6. ASSUME NEW w \in Threads, SignUp(w) \/ Edit(w) PROVE UNCHANGED account
                              \/ CreateWallet(w) \/ CommitUpdate(w)
  BY <1>6 DEF SignUp, Register, AdminCreate, LookUp, FlushUser, StageUser, people, Edit,
              EditProfile, AdminEdit, ToggleFreeze, Request
<1>7. ASSUME NEW w \in Threads, Choose(w) \/ Move(w) \/ GiveUp(w) PROVE UNCHANGED account
  BY <1>7 DEF Choose, ChoosePayee, InsertPayee, Move, CheckReceiver, CheckPayer,
              SendPush, MoveMoney, PersistPush, GiveUp, people
<1>8. ASSUME NEW w \in Threads, Delete(w) PROVE UNCHANGED account \/ DeleteUser(w)
  BY <1>8 DEF Delete, CheckHistory, LoadCascade, people
<1>9. ASSUME (\E p \in payees : RemovePayee(p)) \/ (\E r \in records : CreditDeposit(r))
             \/ UNCHANGED vars
      PROVE  UNCHANGED account
  BY <1>9 DEF RemovePayee, CreditDeposit, people, vars
<1> QED
  BY <1>2, <1>3, <1>4, <1>5, <1>6, <1>7, <1>8, <1>9 DEF Next

(* No stale edit undoes a freeze. *)
THEOREM FreezeStays == Spec => FreezeIsKept
<1>1. IInv /\ [Next]_vars =>
        [\A u \in users \cap users' :
           account[u].status = "Frozen" /\ account'[u].status = "Active"
             => \E w \in Threads : /\ pc[w] = "update" /\ pc'[w] = "idle"
                                    /\ subject[w] = u
                                    /\ session[w].status = "Frozen"]_vars
  BY StepFreeze
<1> QED
  BY <1>1, Invariance, PTL DEF Spec, FreezeIsKept

(* Accounts implement Registry. *)
LEMMA InitRegistry == Init => R!Init
BY DEF Init, R!Init

LEMMA StoreRecords ==
  ASSUME IInv, NEW i \in Records, NEW k \in Kinds, NEW P \in SUBSET Users, P # {},
         MayReference([id |-> i, kind |-> k, parties |-> P]),
         Store([id |-> i, kind |-> k, parties |-> P]), UNCHANGED people
  PROVE  R!Next
<1> DEFINE r == [id |-> i, kind |-> k, parties |-> P]
<1>1. r \in R!Entries
  BY DEF R!Entries
<1>2. R!Record(r)
  BY DEF R!Record, Store, MayReference, people
<1> QED
  BY <1>1, <1>2 DEF R!Next

LEMMA StepRegistry == IInv /\ [Next]_vars => [R!Next]_(R!registryVars)
<1> SUFFICES ASSUME IInv, [Next]_vars PROVE R!Next \/ UNCHANGED R!registryVars
  OBVIOUS
<1> USE DEF R!registryVars, people, money
<1>1. ASSUME NEW w \in Threads, SignUp(w) PROVE R!Next \/ UNCHANGED R!registryVars
  <2>1. CASE CreateWallet(w)
    <3>1. subject[w] \in Users /\ subject[w] \notin users \cup gone
      BY <2>1 DEF CreateWallet, IInv, FlushedIsNew
    <3>2. R!Open(subject[w])
      BY <2>1, <3>1 DEF CreateWallet, R!Open
    <3> QED
      BY <3>1, <3>2 DEF R!Next
  <2>2. CASE Register(w) \/ AdminCreate(w) \/ FlushUser(w)
    BY <2>2 DEF Register, AdminCreate, LookUp, FlushUser, StageUser
  <2> QED
    BY <1>1, <2>1, <2>2 DEF SignUp
<1>2. ASSUME NEW w \in Threads, Delete(w) PROVE R!Next \/ UNCHANGED R!registryVars
  <2>1. CASE DeleteUser(w)
    <3>1. subject[w] \in Users
      BY <2>1 DEF DeleteUser, IInv, TypeOK
    <3>2. R!Close(subject[w])
      BY <2>1 DEF DeleteUser, StillReferenced, HasFinancialHistory, R!Close
    <3> QED
      BY <3>1, <3>2 DEF R!Next
  <2>2. CASE LoadCascade(w) \/ \E u \in users : CheckHistory(w, u)
    BY <2>2 DEF LoadCascade, CheckHistory
  <2> QED
    BY <1>2, <2>1, <2>2 DEF Delete
<1>3. ASSUME NEW w \in Threads, Edit(w) \/ Choose(w) \/ GiveUp(w)
      PROVE  UNCHANGED R!registryVars
  BY <1>3 DEF Edit, EditProfile, AdminEdit, ToggleFreeze, Request, CommitUpdate,
              Choose, ChoosePayee, InsertPayee, GiveUp
<1>4. ASSUME NEW w \in Threads, Move(w) PROVE R!Next \/ UNCHANGED R!registryVars
  <2>1. CASE MoveMoney(w)
    <3> DEFINE P == {subject[w], other[w]}
               k == IF subject[w] = other[w] THEN "payment" ELSE "transfer"
    <3>1. k \in Kinds
      BY DEF Kinds
    <3>2. PICK i \in Records : /\ MayReference([id |-> i, kind |-> k, parties |-> P])
                              /\ Store([id |-> i, kind |-> k, parties |-> P])
      BY <2>1 DEF MoveMoney
    <3>3. P \in SUBSET Users /\ P # {} /\ UNCHANGED people
      BY <2>1, <3>2 DEF MayReference, MoveMoney, IInv, TypeOK
    <3> HIDE DEF P, k
    <3> QED
      BY <3>1, <3>2, <3>3, StoreRecords
  <2>2. CASE PersistPush(w)
    <3> DEFINE P == {subject[w]}
    <3>1. "push" \in Kinds
      BY DEF Kinds
    <3>2. PICK i \in Records : /\ MayReference([id |-> i, kind |-> "push", parties |-> P])
                              /\ Store([id |-> i, kind |-> "push", parties |-> P])
      BY <2>2 DEF PersistPush
    <3>3. P \in SUBSET Users /\ P # {} /\ UNCHANGED people
      BY <2>2, <3>2 DEF MayReference, PersistPush, IInv, TypeOK
    <3> HIDE DEF P
    <3> QED
      BY <3>1, <3>2, <3>3, StoreRecords
  <2>3. CASE \/ \E u, v \in users : CheckReceiver(w, u, v)
             \/ \E u \in users : CheckPayer(w, u) \/ SendPush(w, u)
    BY <2>3 DEF CheckReceiver, CheckPayer, SendPush
  <2> QED
    BY <1>4, <2>1, <2>2, <2>3 DEF Move
<1>5. ASSUME NEW r \in records, CreditDeposit(r) PROVE R!Next
  <2> DEFINE P == r.parties
  <2>1. "deposit" \in Kinds /\ P \in SUBSET Users /\ P # {}
    BY DEF Kinds, IInv, TypeOK, Books
  <2>2. PICK i \in Records : /\ MayReference([id |-> i, kind |-> "deposit", parties |-> P])
                            /\ Store([id |-> i, kind |-> "deposit", parties |-> P])
    BY <1>5 DEF CreditDeposit
  <2>3. UNCHANGED people
    BY <1>5 DEF CreditDeposit
  <2> HIDE DEF P
  <2> QED
    BY <2>1, <2>2, <2>3, StoreRecords
<1>6. ASSUME (\E p \in payees : RemovePayee(p)) \/ UNCHANGED vars
      PROVE  UNCHANGED R!registryVars
  BY <1>6 DEF RemovePayee, vars
<1> QED
  BY <1>1, <1>2, <1>3, <1>4, <1>5, <1>6 DEF Next

(* Every registration, deletion and movement of money is one step of         *)
(* Registry: no account with a record is ever closed, no record removed.     *)
THEOREM RegistryImplemented == Spec => ImplementsRegistry
<1> QED
  BY InitRegistry, StepRegistry, Invariance, PTL DEF Spec, ImplementsRegistry, R!Spec
=======
