--------------------------- MODULE SweeperProofs ----------------------------
(***************************************************************************)
(* Safety of Sweeper, for any processes, deposits and number of faults.    *)
(*                                                                         *)
(* That two sweeps overlap only after a lost session is not inductive: it  *)
(* needs that a session is kept exactly during a cycle (NothingKept) and   *)
(* that an open session is the one that holds the lock (LockIsHeld), which *)
(* is in turn preserved by reuse, failed unlocks and crashes only because  *)
(* the lock's depth is zero exactly when nobody holds it.                  *)
(***************************************************************************)
EXTENDS Sweeper, TLAPS

LEMMA InitIInv == Init => IInv
BY MaxFaultsAssumption DEF Init, IInv, TypeOK, NothingKept, LockIsHeld, InCycle

(* One step for each action; SessionEnds and Unlock are what the lock's      *)
(* actions share.                                                            *)
LEMMA StepIInv == IInv /\ [Next]_vars => IInv'
<1> SUFFICES ASSUME IInv, [Next]_vars PROVE IInv'
  OBVIOUS
<1> USE MaxFaultsAssumption, NoneAssumption DEF InCycle, Goto, Fault
<1>1. ASSUME NEW p \in Processes, Lead(p) PROVE IInv'
  <2>1. TypeOK'
    BY <1>1 DEF IInv, TypeOK, Lead, Lockable
  <2>2. NothingKept'
    BY <1>1 DEF IInv, TypeOK, NothingKept, Lead
  <2>3. LockIsHeld'
    BY <1>1 DEF IInv, TypeOK, LockIsHeld, Lead, Lockable, Stranded
  <2> QED
    BY <2>1, <2>2, <2>3 DEF IInv
<1>2. ASSUME NEW p \in Processes, LeadUnanswered(p) PROVE IInv'
  <2>1. TypeOK' /\ NothingKept'
    BY <1>2 DEF IInv, TypeOK, NothingKept, LeadUnanswered
  <2>2. LockIsHeld'
    BY <1>2 DEF IInv, TypeOK, LockIsHeld, LeadUnanswered
  <2> QED
    BY <2>1, <2>2 DEF IInv
<1>3. ASSUME NEW p \in Processes, Snapshot(p) \/ SweepEnds(p) \/ Alert(p) \/ CycleFails(p)
      PROVE  IInv'
  BY <1>3 DEF IInv, TypeOK, NothingKept, LockIsHeld, Snapshot, SweepEnds, Alert,
              CycleFails, lockVars
<1>4. ASSUME NEW p \in Processes, NEW d \in Deposits, Recover(p, d) \/ RecoverFails(p, d)
      PROVE  IInv'
  BY <1>4 DEF IInv, TypeOK, NothingKept, LockIsHeld, Recover, RecoverFails, lockVars
<1>5. ASSUME NEW p \in Processes, Release(p) PROVE IInv'
  <2>1. TypeOK'
    BY <1>5 DEF IInv, TypeOK, LockIsHeld, Release, Unlock, SessionEnds
  <2>2. NothingKept'
    BY <1>5 DEF IInv, TypeOK, NothingKept, Release
  <2>3. LockIsHeld'
    BY <1>5 DEF IInv, TypeOK, LockIsHeld, Release, Unlock, SessionEnds
  <2> QED
    BY <2>1, <2>2, <2>3 DEF IInv
<1>6. ASSUME NEW p \in Processes, ReleaseFails(p) PROVE IInv'
  BY <1>6 DEF IInv, TypeOK, NothingKept, LockIsHeld, ReleaseFails
<1>7. ASSUME NEW p \in Processes, SessionLost(p) PROVE IInv'
  <2>1. TypeOK' /\ NothingKept'
    BY <1>7 DEF IInv, TypeOK, NothingKept, SessionLost, SessionEnds
  <2>2. LockIsHeld'
    BY <1>7 DEF IInv, TypeOK, LockIsHeld, SessionLost, SessionEnds
  <2> QED
    BY <2>1, <2>2 DEF IInv
<1>8. ASSUME NEW p \in Processes, PooledSessionEnds(p) PROVE IInv'
  BY <1>8 DEF IInv, TypeOK, NothingKept, LockIsHeld, PooledSessionEnds, SessionEnds, Stranded
<1>9. ASSUME NEW p \in Processes, Crash(p) PROVE IInv'
  <2>1. TypeOK' /\ NothingKept'
    BY <1>9 DEF IInv, TypeOK, NothingKept, Crash, SessionEnds
  <2>2. LockIsHeld'
    BY <1>9 DEF IInv, TypeOK, LockIsHeld, Crash, SessionEnds
  <2> QED
    BY <2>1, <2>2 DEF IInv
<1>10. ASSUME NEW p \in Processes, Restart(p) PROVE IInv'
  BY <1>10 DEF IInv, TypeOK, NothingKept, LockIsHeld, Restart, lockVars
<1>11. ASSUME NEW d \in Deposits, DepositOpens(d) \/ DepositCloses(d) PROVE IInv'
  BY <1>11 DEF IInv, TypeOK, NothingKept, LockIsHeld, DepositOpens, DepositCloses, lockVars
<1>12. CASE UNCHANGED vars
  BY <1>12 DEF IInv, TypeOK, NothingKept, LockIsHeld, vars, lockVars
<1> QED
  BY <1>1, <1>2, <1>3, <1>4, <1>5, <1>6, <1>7, <1>8, <1>9, <1>10, <1>11, <1>12
  DEF Next, Cycle, Around

LEMMA AlwaysIInv == Spec => []IInv
BY InitIInv, StepIInv, PTL DEF Spec

(* Every reachable state is well typed: no lost, failed or repeated unlock   *)
(* brings the lock's depth below zero (_release_sweeper_leadership).         *)
THEOREM TypeCorrect == Spec => []TypeOK
<1>1. IInv => TypeOK
  BY DEF IInv
<1> QED
  BY AlwaysIInv, <1>1, PTL

(* A thread keeps a leader session during its cycle only, also when the      *)
(* cycle raises (the finally of _sweeper_cycle).                             *)
THEOREM NothingIsKept == Spec => []NothingKept
<1>1. IInv => NothingKept
  BY DEF IInv
<1> QED
  BY AlwaysIInv, <1>1, PTL

(* However many processes there are, two of them are in a cycle at once only *)
(* if one has lost the session of its lock (_acquire_sweeper_leadership).    *)
THEOREM OverlapNeedsLoss == Spec => []LeadersOverlapAfterLoss
<1>1. IInv => LeadersOverlapAfterLoss
  BY DEF IInv, TypeOK, NothingKept, LockIsHeld, LeadersOverlapAfterLoss
<1> QED
  BY AlwaysIInv, <1>1, PTL
=============================================================================
