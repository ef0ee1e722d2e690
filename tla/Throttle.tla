------------------------------ MODULE Throttle ------------------------------
(***************************************************************************)
(* The limiter every Daraja call passes (_request_json and the daraja_     *)
(* throttle row in app/services/mpesa_service.py): a token bucket and a    *)
(* cooldown, shared by all processes through one row of PostgreSQL.        *)
(*                                                                         *)
(* now() of a statement is the time it started at.  An UPDATE that had to  *)
(* wait for the row goes on with that time, which may lie before the       *)
(* last_refill another caller has meanwhile written.  Tokens are counted   *)
(* in parts, so that a tick refills a whole number of them.                *)
(***************************************************************************)
EXTENDS Integers, Sequences

CONSTANTS Callers,   \* threads of all processes that call Daraja
          Token,     \* parts of one token
          Capacity,  \* DARAJA_RATE_LIMIT_CAPACITY, in parts
          Refill,    \* DARAJA_RATE_LIMIT_REFILL_PER_SEC: parts per tick
          Cooldowns, \* seconds a 429, 403 or 5xx asks for, as configured
          MaxTime    \* bound: the clock stops here

ASSUME TokenAssumption == Token \in Nat \ {0}
ASSUME CapacityAssumption == Capacity \in Nat
ASSUME RefillAssumption == Refill \in Nat
ASSUME CooldownsAssumption == Cooldowns \subseteq Nat
ASSUME MaxTimeAssumption == MaxTime \in Nat

VARIABLES
  now,           \* the database's clock
  tokens,        \* daraja_throttle.tokens
  lastRefill,    \* daraja_throttle.last_refill
  cooldownUntil, \* daraja_throttle.cooldown_until; 0 for NULL
  pc,            \* where a caller is
  stmt,          \* when the statement it waits for was started
  secs,          \* the cooldown it is about to raise
  grants         \* history: the statement times of the grants, as committed

row  == <<tokens, lastRefill, cooldownUntil>>
vars == <<now, row, pc, stmt, secs, grants>>

TypeOK ==
  /\ now \in 0 .. MaxTime
  /\ tokens \in 0 .. Capacity
  /\ lastRefill \in 0 .. now
  /\ cooldownUntil \in Nat
  /\ pc \in [Callers -> {"idle", "ask", "asked", "call", "cool"}]
  /\ stmt \in [Callers -> 0 .. now]
  /\ secs \in [Callers -> Nat]
  /\ grants \in Seq(Nat)

(* _pg_ensure_throttle_row: a full bucket. *)
Init ==
  /\ now = 0
  /\ tokens = Capacity /\ lastRefill = 0 /\ cooldownUntil = 0
  /\ pc = [w \in Callers |-> "idle"]
  /\ stmt = [w \in Callers |-> 0]
  /\ secs = [w \in Callers |-> 0]
  /\ grants = <<>>
-----------------------------------------------------------------------------
(* Helpers. *)

Goto(w, l) == pc' = [pc EXCEPT ![w] = l]

LesserOf(a, b)  == IF a <= b THEN a ELSE b
GreaterOf(a, b) == IF a <= b THEN b ELSE a

(* fault: the bucket has no bottom *)
AlwaysHasToken(n) == TRUE

(* What the bucket holds for a statement of time n. *)
Level(n) == LesserOf(Capacity, tokens + (n - lastRefill) * Refill)

HasToken(n) == Level(n) >= Token

IsCool(n) == cooldownUntil > n

(* fault: last_refill is not written *)
RefillTimeKept(n) == lastRefill

RefillTime(n) == n

(* fault: a later, shorter cooldown replaces a longer one *)
CooldownReplaced(w) == stmt[w] + secs[w]

Cooldown(w) == GreaterOf(cooldownUntil, stmt[w] + secs[w])
-----------------------------------------------------------------------------
(* A call. *)

Tick == now < MaxTime /\ now' = now + 1 /\ UNCHANGED <<row, pc, stmt, secs, grants>>

(* _daraja_cooldown_remaining is zero, or cannot be read; while a cooldown   *)
(* lasts the call is skipped.                                                *)
CheckCooldown(w, unreadable) ==
  /\ pc[w] = "idle"
  /\ ~IsCool(now) \/ unreadable
  /\ Goto(w, "ask")
  /\ UNCHANGED <<now, row, stmt, secs, grants>>

(* _pg_acquire_permit sends its UPDATE. *)
Ask(w) ==
  /\ pc[w] = "ask"
  /\ stmt' = [stmt EXCEPT ![w] = now]
  /\ Goto(w, "asked")
  /\ UNCHANGED <<now, row, secs, grants>>

(* The UPDATE gets the row; its WHERE is evaluated on what it finds there.   *)
Grant(w) ==
  /\ pc[w] = "asked"
  /\ ~IsCool(stmt[w]) /\ HasToken(stmt[w])
  /\ tokens' = Level(stmt[w]) - Token
  /\ lastRefill' = RefillTime(stmt[w])
  /\ grants' = Append(grants, stmt[w])
  /\ Goto(w, "call")
  /\ UNCHANGED <<now, cooldownUntil, stmt, secs>>

(* DarajaThrottled *)
Deny(w) ==
  /\ pc[w] = "asked"
  /\ IsCool(stmt[w]) \/ ~HasToken(stmt[w])
  /\ Goto(w, "idle")
  /\ UNCHANGED <<now, row, stmt, secs, grants>>

(* The database fails: the call is admitted without a token. *)
FailOpen(w) ==
  /\ pc[w] = "asked"
  /\ Goto(w, "call")
  /\ UNCHANGED <<now, row, stmt, secs, grants>>

(* Daraja answers, or does not; only 429, 403 and 5xx matter here. *)
Answered(w) ==
  /\ pc[w] = "call"
  /\ Goto(w, "idle")
  /\ UNCHANGED <<now, row, stmt, secs, grants>>

(* _pg_set_cooldown sends its UPDATE. *)
Refused(w, s) ==
  /\ pc[w] = "call"
  /\ stmt' = [stmt EXCEPT ![w] = now]
  /\ secs' = [secs EXCEPT ![w] = s]
  /\ Goto(w, "cool")
  /\ UNCHANGED <<now, row, grants>>

(* The UPDATE gets the row, *)
RaiseCooldown(w) ==
  /\ pc[w] = "cool"
  /\ cooldownUntil' = Cooldown(w)
  /\ Goto(w, "idle")
  /\ UNCHANGED <<now, tokens, lastRefill, stmt, secs, grants>>

(* or fails, which is only logged. *)
CooldownLost(w) ==
  /\ pc[w] = "cool"
  /\ Goto(w, "idle")
  /\ UNCHANGED <<now, row, stmt, secs, grants>>
-----------------------------------------------------------------------------
Call(w) ==
  \/ \E unreadable \in BOOLEAN : CheckCooldown(w, unreadable)
  \/ Ask(w) \/ Grant(w) \/ Deny(w) \/ FailOpen(w) \/ Answered(w)
  \/ \E s \in Cooldowns : Refused(w, s)
  \/ RaiseCooldown(w) \/ CooldownLost(w)

Next == Tick \/ \E w \in Callers : Call(w)

Spec == Init /\ [][Next]_vars
-----------------------------------------------------------------------------
(* Safety. *)

(* Any stretch of consecutive grants fits into one full bucket plus what is  *)
(* refilled between its first and its last statement, although statements    *)
(* may reach the row in another order than they were started in              *)
(* ('_pg_acquire_permit: atomically consume one token').                     *)
RateBound ==
  \A i, j \in 1 .. Len(grants) : i <= j =>
     ((j - i) + 1) * Token <= Capacity + (grants[j] - grants[i]) * Refill

(* No token is handed out while a cooldown lasts, not even to a caller that  *)
(* had passed the check before the cooldown was raised; and a cooldown that  *)
(* was raised is never cut short by a later, shorter one (GREATEST in        *)
(* _pg_set_cooldown).                                                        *)
CooldownsKept ==
  [][/\ grants' # grants => cooldownUntil <= now
     /\ cooldownUntil' >= cooldownUntil]_vars

(* The inductive invariant behind the bound: what is left after a stretch of *)
(* grants is what a full bucket and the refill leave after that many tokens. *)
Accounted ==
  /\ grants # <<>> => lastRefill = grants[Len(grants)]
  /\ \A i \in 1 .. Len(grants) :
        tokens + ((Len(grants) - i) + 1) * Token
          <= Capacity + (lastRefill - grants[i]) * Refill

IInv == TypeOK /\ Accounted /\ RateBound
=============================================================================
