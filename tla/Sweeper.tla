------------------------------ MODULE Sweeper -------------------------------
(***************************************************************************)
(* The background sweep of all server processes, and its leader: start_    *)
(* reconciliation_sweeper, _sweeper_cycle, _acquire_ and _release_sweeper_ *)
(* leadership and recover_deposits in app/services/mpesa_service.py.       *)
(*                                                                         *)
(* The leader is whose database session holds one advisory lock of         *)
(* PostgreSQL.  A session may hold it more than once and frees it with as  *)
(* many unlocks, or by ending.  close() gives a session back to the pool   *)
(* and does not end it, so a lock whose unlock failed stays with a session *)
(* that nobody uses: the lock is stranded.  What happens to one deposit is *)
(* in Deposit; here it is closed or still open after an attempt.           *)
(***************************************************************************)
EXTENDS Integers, FiniteSets

CONSTANTS Processes, \* server processes, one sweeper thread each
          Deposits,  \* deposits with a checkout id, by mpesa_transactions.id
          MaxFaults, \* bound: crashes, lost sessions and failed unlocks
          None       \* no process

ASSUME DepositsAssumption == Deposits \subseteq Nat
ASSUME MaxFaultsAssumption == MaxFaults \in Nat
ASSUME NoneAssumption == None \notin Processes

VARIABLES
  pc,     \* where the sweeper thread of a process is
  conn,   \* leader_state["conn"]: none, or a session that is open or dead
  holder, \* the process whose session holds the leader lock
  depth,  \* how many times that session holds it
  left,   \* candidates a sweep has yet to try
  status, \* absent, open (Pending or ReconciliationPending) or closed
  faults

lockVars == <<conn, holder, depth>>
vars     == <<pc, lockVars, left, status, faults>>

InCycle == {"snapshot", "sweep", "alert", "release"}

TypeOK ==
  /\ pc \in [Processes -> InCycle \cup {"asleep", "down"}]
  /\ conn \in [Processes -> {"none", "open", "dead"}]
  /\ holder \in Processes \cup {None}
  /\ depth \in Nat
  /\ left \in [Processes -> SUBSET Deposits]
  /\ status \in [Deposits -> {"absent", "open", "closed"}]
  /\ faults \in 0 .. MaxFaults

Init ==
  /\ pc = [p \in Processes |-> "asleep"]
  /\ conn = [p \in Processes |-> "none"]
  /\ holder = None /\ depth = 0
  /\ left = [p \in Processes |-> {}]
  /\ status = [d \in Deposits |-> "absent"]
  /\ faults = 0
-----------------------------------------------------------------------------
(* Helpers. *)

Goto(p, l) == pc' = [pc EXCEPT ![p] = l]

Fault == faults < MaxFaults /\ faults' = faults + 1

(* The lock is held, and its holder does not know. *)
Stranded == holder # None /\ conn[holder] = "none"

(* fault: the answer of pg_try_advisory_lock is not looked at *)
AlwaysLockable(p) == TRUE

(* Nobody holds the lock, or the very session that p draws from its pool.    *)
Lockable(p) == holder = None \/ (holder = p /\ Stranded)

(* The lock as it is after p's session has ended. *)
SessionEnds(p) ==
  IF holder = p THEN holder' = None /\ depth' = 0
                ELSE UNCHANGED <<holder, depth>>

(* fault: every unlock is counted, also one on a session that is gone *)
UnlockUnchecked(p) == depth' = depth - 1 /\ UNCHANGED holder

(* pg_advisory_unlock, sent on an open session. *)
Unlock(p) ==
  IF conn[p] = "open" /\ depth > 1
    THEN depth' = depth - 1 /\ UNCHANGED holder
    ELSE SessionEnds(p)
-----------------------------------------------------------------------------
(* A cycle of process p. *)

(* _acquire_sweeper_leadership.  A process that does not get the lock, or an *)
(* error instead of an answer, sleeps on.                                    *)
Lead(p) ==
  /\ pc[p] = "asleep"
  /\ Lockable(p)
  /\ holder' = p /\ depth' = depth + 1
  /\ conn' = [conn EXCEPT ![p] = "open"]
  /\ Goto(p, "snapshot")
  /\ UNCHANGED <<left, status, faults>>

(* The lock is granted and the answer lost: the thread sees an error. *)
LeadUnanswered(p) ==
  /\ pc[p] = "asleep"
  /\ holder = None
  /\ Fault
  /\ holder' = p /\ depth' = 1
  /\ UNCHANGED <<pc, conn, left, status>>

(* _recoverable_candidates: read once, without a lock. *)
Snapshot(p) ==
  /\ pc[p] = "snapshot"
  /\ left' = [left EXCEPT ![p] = {d \in Deposits : status[d] = "open"}]
  /\ Goto(p, "sweep")
  /\ UNCHANGED <<lockVars, status, faults>>

(* The candidates are tried in id order. *)
IsNext(p, d) == d \in left[p] /\ \A e \in left[p] : d <= e

(* _recover_one: it leaves the deposit open (inconclusive, backoff, throttle, *)
(* another recoverer's lock), closes it, or finds it closed.                 *)
Recover(p, d) ==
  /\ pc[p] = "sweep"
  /\ IsNext(p, d)
  /\ left' = [left EXCEPT ![p] = @ \ {d}]
  /\ \/ UNCHANGED status
     \/ status[d] = "open" /\ status' = [status EXCEPT ![d] = "closed"]
  /\ UNCHANGED <<pc, lockVars, faults>>

(* fault: an exception ends the sweep *)
RecoverFailsForAll(p, d) ==
  /\ pc[p] = "sweep"
  /\ IsNext(p, d)
  /\ left' = [left EXCEPT ![p] = {}]
  /\ UNCHANGED <<pc, lockVars, status, faults>>

(* _recover_one raises: this deposit is rolled back, and the sweep goes on. *)
RecoverFails(p, d) ==
  /\ pc[p] = "sweep"
  /\ IsNext(p, d)
  /\ left' = [left EXCEPT ![p] = @ \ {d}]
  /\ UNCHANGED <<pc, lockVars, status, faults>>

SweepEnds(p) ==
  /\ pc[p] = "sweep" /\ left[p] = {}
  /\ Goto(p, "alert")
  /\ UNCHANGED <<lockVars, left, status, faults>>

(* _alert_stuck_deposits only reads. *)
Alert(p) ==
  /\ pc[p] = "alert"
  /\ Goto(p, "release")
  /\ UNCHANGED <<lockVars, left, status, faults>>

(* The snapshot or the alert raises: _sweeper_cycle's finally releases, and  *)
(* the loop logs SWEEPER_ERROR and goes on.                                  *)
CycleFails(p) ==
  /\ pc[p] \in {"snapshot", "alert"}
  /\ Goto(p, "release")
  /\ UNCHANGED <<lockVars, left, status, faults>>

(* _release_sweeper_leadership; on a dead session the unlock's error is only *)
(* logged.                                                                   *)
Release(p) ==
  /\ pc[p] = "release"
  /\ Unlock(p)
  /\ conn' = [conn EXCEPT ![p] = "none"]
  /\ Goto(p, "asleep")
  /\ UNCHANGED <<left, status, faults>>

(* The unlock fails on a session that lives on: close() gives it back to the *)
(* pool with the lock.                                                       *)
ReleaseFails(p) ==
  /\ pc[p] = "release" /\ conn[p] = "open"
  /\ Fault
  /\ conn' = [conn EXCEPT ![p] = "none"]
  /\ Goto(p, "asleep")
  /\ UNCHANGED <<holder, depth, left, status>>
-----------------------------------------------------------------------------
(* What happens around the sweep. *)

(* The server or the network ends the session; the thread does not notice. *)
SessionLost(p) ==
  /\ conn[p] = "open"
  /\ Fault
  /\ SessionEnds(p)
  /\ conn' = [conn EXCEPT ![p] = "dead"]
  /\ UNCHANGED <<pc, left, status>>

(* A session that was given back with the lock ends, for whatever reason. *)
PooledSessionEnds(p) ==
  /\ holder = p /\ Stranded
  /\ SessionEnds(p)
  /\ UNCHANGED <<pc, conn, left, status, faults>>

Crash(p) ==
  /\ pc[p] # "down"
  /\ Fault
  /\ SessionEnds(p)
  /\ conn' = [conn EXCEPT ![p] = "none"]
  /\ left' = [left EXCEPT ![p] = {}]
  /\ Goto(p, "down")
  /\ UNCHANGED status

Restart(p) ==
  /\ pc[p] = "down"
  /\ Goto(p, "asleep")
  /\ UNCHANGED <<lockVars, left, status, faults>>

(* A deposit is requested, or settled by a callback, a user or an            *)
(* administrator, none of whom looks at the leader lock.                     *)
DepositOpens(d) ==
  /\ status[d] = "absent"
  /\ status' = [status EXCEPT ![d] = "open"]
  /\ UNCHANGED <<pc, lockVars, left, faults>>

DepositCloses(d) ==
  /\ status[d] = "open"
  /\ status' = [status EXCEPT ![d] = "closed"]
  /\ UNCHANGED <<pc, lockVars, left, faults>>
-----------------------------------------------------------------------------
Cycle(p) ==
  \/ Lead(p) \/ LeadUnanswered(p) \/ Snapshot(p)
  \/ \E d \in Deposits : Recover(p, d) \/ RecoverFails(p, d)
  \/ SweepEnds(p) \/ Alert(p) \/ CycleFails(p)
  \/ Release(p) \/ ReleaseFails(p)

Around(p) ==
  SessionLost(p) \/ PooledSessionEnds(p) \/ Crash(p) \/ Restart(p)

Next ==
  \/ \E p \in Processes : Cycle(p) \/ Around(p)
  \/ \E d \in Deposits : DepositOpens(d) \/ DepositCloses(d)

Spec == Init /\ [][Next]_vars

(* A free lock is taken by one of the threads that wake up every interval; a *)
(* cycle goes on; the snapshot does not fail for ever; processes are         *)
(* restarted.  Nobody owes a settled deposit, and nothing ends a pooled      *)
(* session.                                                                  *)
Fairness ==
  /\ WF_vars(holder = None /\ \E p \in Processes : Lead(p))
  /\ \A p \in Processes :
        /\ SF_vars(Snapshot(p))
        /\ WF_vars(\E d \in Deposits : Recover(p, d) \/ RecoverFails(p, d))
        /\ WF_vars(SweepEnds(p) \/ Alert(p))
        /\ WF_vars(Release(p))
        /\ WF_vars(Restart(p))

FairSpec == Spec /\ Fairness
-----------------------------------------------------------------------------
(* Safety. *)

(* Two processes sweep at the same time only after one of them lost the      *)
(* session of its lock without noticing (the lock is never asked for again   *)
(* during a cycle).                                                          *)
LeadersOverlapAfterLoss ==
  \A p, q \in Processes :
     pc[p] \in InCycle /\ pc[q] \in InCycle /\ p # q => "dead" \in {conn[p], conn[q]}

(* A thread outside of a cycle keeps no leader session: however its cycle    *)
(* ended, finally gave the session back.                                     *)
NothingKept ==
  \A p \in Processes : pc[p] \in InCycle <=> conn[p] # "none"

(* Who leads on an open session holds the lock, and a lock is held once per  *)
(* grant that was not given back.                                            *)
LockIsHeld ==
  /\ \A p \in Processes : conn[p] = "open" => holder = p
  /\ holder = None <=> depth = 0

IInv == TypeOK /\ NothingKept /\ LockIsHeld
-----------------------------------------------------------------------------
(* Liveness. *)

(* A deposit that stays open is tried again and again, whatever the attempts *)
(* on other deposits do, through crashes and lost sessions, unless the lock  *)
(* is stranded for ever ("a single bad deposit or transient error can never  *)
(* stop recovery for the others", start_reconciliation_sweeper).             *)
OpenIsRetried ==
  \A d \in Deposits :
     <>[](status[d] = "open" /\ ~Stranded)
       => []<><<\E p \in Processes : Recover(p, d) \/ RecoverFails(p, d)>>_vars
=============================================================================
