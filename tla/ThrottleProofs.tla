--------------------------- MODULE ThrottleProofs ---------------------------
(***************************************************************************)
(* Proofs about Throttle, for any callers, bucket, refill and cooldowns:   *)
(* grants never exceed what the bucket and its refill allow, none is given *)
(* while a cooldown lasts, and cooldowns are never cut short.              *)
(***************************************************************************)
EXTENDS Throttle, TLAPS

USE TokenAssumption, CapacityAssumption, RefillAssumption, CooldownsAssumption,
    MaxTimeAssumption

LEMMA LevelFacts ==
  ASSUME TypeOK, NEW n \in 0 .. now
  PROVE  /\ Level(n) \in Int
         /\ Level(n) <= Capacity
         /\ Level(n) <= tokens + (n - lastRefill) * Refill
<1>1. (n - lastRefill) * Refill \in Int
  BY DEF TypeOK
<1>2. tokens + (n - lastRefill) * Refill \in Int
  BY <1>1 DEF TypeOK
<1> QED
  BY <1>2 DEF Level, LesserOf

(* A grant is well typed. *)
LEMMA GrantType ==
  ASSUME TypeOK, NEW w \in Callers, Grant(w)
  PROVE  TypeOK'
<1>1. stmt[w] \in 0 .. now /\ now' = now
  BY DEF TypeOK, Grant
<1>2. tokens' \in 0 .. Capacity
  <2>1. Level(stmt[w]) \in Int /\ Level(stmt[w]) <= Capacity
    BY <1>1, LevelFacts
  <2> QED
    BY <2>1 DEF Grant, HasToken
<1>3. grants' \in Seq(Nat)
  BY <1>1 DEF TypeOK, Grant
<1>4. lastRefill' \in 0 .. now
  BY <1>1 DEF Grant, RefillTime
<1> QED
  BY <1>1, <1>2, <1>3, <1>4 DEF TypeOK, Grant, Goto

(* A grant keeps the account of the tokens, and with it the bound.           *)
LEMMA GrantAccounted ==
  ASSUME TypeOK, Accounted, RateBound, NEW w \in Callers, Grant(w)
  PROVE  Accounted' /\ RateBound'
<1> DEFINE n == stmt[w]
           k == Len(grants)
<1>1. /\ n \in 0 .. now /\ n \in Int
      /\ grants \in Seq(Nat) /\ k \in Nat
      /\ lastRefill \in Int /\ tokens \in Int /\ now \in Int
  BY DEF TypeOK
<1>2. /\ grants' = Append(grants, n) /\ lastRefill' = n
      /\ tokens' = Level(n) - Token /\ Level(n) >= Token
  BY DEF Grant, HasToken, RefillTime
<1>3. /\ Level(n) \in Int
      /\ Level(n) <= Capacity
      /\ Level(n) <= tokens + (n - lastRefill) * Refill
  BY <1>1, LevelFacts
<1> HIDE DEF n
<1>4. /\ Len(grants') = k + 1
      /\ grants'[k + 1] = n
      /\ \A i \in 1 .. k : grants'[i] = grants[i] /\ grants[i] \in Int
  BY <1>1, <1>2
<1>5. \A i \in 1 .. k : tokens + ((k - i) + 1) * Token
                          <= Capacity + (lastRefill - grants[i]) * Refill
  BY DEF Accounted
<1>5b. \A i, j \in 1 .. k : i <= j =>
         ((j - i) + 1) * Token <= Capacity + (grants[j] - grants[i]) * Refill
  BY DEF RateBound
<1> HIDE DEF k
<1>6. ASSUME NEW i \in 1 .. k
      PROVE  tokens' + (((k + 1) - i) + 1) * Token <= Capacity + (n - grants'[i]) * Refill
  <2> DEFINE g == grants[i]
  <2>1. g \in Int /\ grants'[i] = g /\ i \in Int
    BY <1>1, <1>4
  <2>2. tokens + ((k - i) + 1) * Token <= Capacity + (lastRefill - g) * Refill
    BY <1>5
  <2> HIDE DEF g
  <2>3. (((k + 1) - i) + 1) * Token = ((k - i) + 1) * Token + Token
    BY <1>1, <2>1
  <2>4. (n - g) * Refill = (n - lastRefill) * Refill + (lastRefill - g) * Refill
    BY <1>1, <2>1
  <2>5. /\ ((k - i) + 1) * Token \in Int
        /\ (n - lastRefill) * Refill \in Int
        /\ (lastRefill - g) * Refill \in Int
    BY <1>1, <2>1
  <2> QED
    BY <1>1, <1>2, <1>3, <2>1, <2>2, <2>3, <2>4, <2>5
<1>7. tokens' + (((k + 1) - (k + 1)) + 1) * Token <= Capacity + (n - grants'[k + 1]) * Refill
  <2>1. ((k + 1) - (k + 1)) + 1 = 1 /\ n - grants'[k + 1] = 0
    BY <1>1, <1>4
  <2>2. 1 * Token = Token /\ 0 * Refill = 0
    OBVIOUS
  <2>3. tokens' + Token <= Capacity
    BY <1>2, <1>3
  <2> QED
    BY <2>1, <2>2, <2>3
<1>8. Accounted'
  <2>1. grants' # <<>> => lastRefill' = grants'[Len(grants')]
    BY <1>2, <1>4
  <2>2. \A i \in 1 .. k + 1 : i \in 1 .. k \/ i = k + 1
    BY <1>1
  <2>3. \A i \in 1 .. Len(grants') :
          tokens' + ((Len(grants') - i) + 1) * Token
            <= Capacity + (lastRefill' - grants'[i]) * Refill
    BY <1>2, <1>4, <1>6, <1>7, <2>2
  <2> QED
    BY <2>1, <2>3 DEF Accounted
<1>9. RateBound'
  <2> SUFFICES ASSUME NEW i \in 1 .. k + 1, NEW j \in 1 .. k + 1, i <= j
               PROVE  ((j - i) + 1) * Token
                        <= Capacity + (grants'[j] - grants'[i]) * Refill
    BY <1>4 DEF RateBound
  <2>1. CASE j \in 1 .. k
    <3>1. i \in 1 .. k
      BY <1>1, <2>1
    <3>2. grants'[i] = grants[i] /\ grants'[j] = grants[j]
      BY <1>4, <2>1, <3>1
    <3>3. ((j - i) + 1) * Token <= Capacity + (grants[j] - grants[i]) * Refill
      BY <1>5b, <2>1, <3>1
    <3> QED
      BY <3>2, <3>3
  <2>2. CASE j = k + 1
    <3>1. ((Len(grants') - i) + 1) * Token + tokens'
            <= Capacity + (lastRefill' - grants'[i]) * Refill
      <4>1. i \in 1 .. Len(grants')
        BY <1>4
      <4>2. tokens' + ((Len(grants') - i) + 1) * Token
              <= Capacity + (lastRefill' - grants'[i]) * Refill
        BY <1>8, <4>1 DEF Accounted
      <4>3. ((Len(grants') - i) + 1) * Token \in Int /\ tokens' \in Int
        BY <1>1, <1>2, <1>3, <1>4, <4>1
      <4> QED
        BY <4>2, <4>3
    <3>2. ((j - i) + 1) * Token \in Int /\ tokens' \in Nat
      BY <1>1, <1>2, <1>3
    <3>3. grants'[i] \in Int
      BY <1>1, <1>4
    <3>4. Capacity + (n - grants'[i]) * Refill \in Int
      BY <1>1, <3>3
    <3>5. j = Len(grants') /\ grants'[j] = lastRefill' /\ lastRefill' = n
      BY <1>2, <1>4, <2>2
    <3>6. ((j - i) + 1) * Token + tokens' <= Capacity + (n - grants'[i]) * Refill
      BY <3>1, <3>5
    <3>7. ((j - i) + 1) * Token <= Capacity + (n - grants'[i]) * Refill
      BY <3>2, <3>4, <3>6
    <3> QED
      BY <3>5, <3>7
  <2> QED
    BY <1>1, <2>1, <2>2
<1> QED
  BY <1>8, <1>9

LEMMA InitHolds == Init => IInv
<1> SUFFICES ASSUME Init PROVE IInv
  OBVIOUS
<1>1. TypeOK
  BY DEF Init, TypeOK
<1>2. Accounted /\ RateBound
  BY DEF Init, Accounted, RateBound
<1> QED
  BY <1>1, <1>2 DEF IInv

(* Every step keeps the invariant. *)
LEMMA Invariance == IInv /\ [Next]_vars => IInv'
<1> SUFFICES ASSUME TypeOK, Accounted, RateBound, [Next]_vars
             PROVE  TypeOK' /\ Accounted' /\ RateBound'
  BY DEF IInv
<1>1. ASSUME UNCHANGED <<tokens, lastRefill, grants>> PROVE Accounted' /\ RateBound'
  BY <1>1 DEF Accounted, RateBound
<1>2. CASE Tick
  <2>1. now' = now + 1 /\ now < MaxTime /\ UNCHANGED <<row, pc, stmt, secs, grants>>
    BY <1>2 DEF Tick
  <2>2. now \in Nat /\ 0 .. now \subseteq 0 .. now'
    BY <2>1 DEF TypeOK
  <2>3. TypeOK'
    BY <2>1, <2>2 DEF TypeOK, row
  <2> QED
    BY <1>1, <2>1, <2>3 DEF row
<1>3. ASSUME NEW w \in Callers, Grant(w) PROVE TypeOK' /\ Accounted' /\ RateBound'
  BY <1>3, GrantType, GrantAccounted
<1>4. ASSUME NEW w \in Callers, NEW u \in BOOLEAN, CheckCooldown(w, u)
      PROVE  TypeOK' /\ Accounted' /\ RateBound'
  BY <1>1, <1>4 DEF CheckCooldown, Goto, row, TypeOK
<1>5. ASSUME NEW w \in Callers, Ask(w) PROVE TypeOK' /\ Accounted' /\ RateBound'
  BY <1>1, <1>5 DEF Ask, Goto, row, TypeOK
<1>6. ASSUME NEW w \in Callers, Deny(w) \/ FailOpen(w) \/ Answered(w) \/ CooldownLost(w)
      PROVE  TypeOK' /\ Accounted' /\ RateBound'
  BY <1>1, <1>6 DEF Deny, FailOpen, Answered, CooldownLost, Goto, row, TypeOK
<1>7. ASSUME NEW w \in Callers, NEW s \in Cooldowns, Refused(w, s)
      PROVE  TypeOK' /\ Accounted' /\ RateBound'
  BY <1>1, <1>7 DEF Refused, Goto, row, TypeOK
<1>8. ASSUME NEW w \in Callers, RaiseCooldown(w) PROVE TypeOK' /\ Accounted' /\ RateBound'
  <2>1. cooldownUntil' \in Nat
    BY <1>8 DEF RaiseCooldown, Cooldown, GreaterOf, TypeOK
  <2> QED
    BY <1>1, <1>8, <2>1 DEF RaiseCooldown, Goto, TypeOK
<1>9. CASE UNCHANGED vars
  BY <1>1, <1>9 DEF vars, row, TypeOK
<1> QED
  BY <1>2, <1>3, <1>4, <1>5, <1>6, <1>7, <1>8, <1>9 DEF Next, Call

LEMMA Inductive == Spec => []IInv
<1>1. Init => IInv
  BY InitHolds
<1>2. IInv /\ [Next]_vars => IInv'
  BY Invariance
<1> QED
  BY <1>1, <1>2, PTL DEF Spec
-----------------------------------------------------------------------------
(* Every reachable state is well typed; the bucket neither overflows nor     *)
(* goes below empty (_pg_acquire_permit).                                    *)
THEOREM TypeCorrect == Spec => []TypeOK
<1>1. IInv => TypeOK
  BY DEF IInv
<1> QED
  BY <1>1, Inductive, PTL

(* Any stretch of grants fits into one full bucket plus the refill of its    *)
(* time, in whatever order statements reach the row (_pg_acquire_permit).    *)
THEOREM GrantsAreBounded == Spec => []RateBound
<1>1. IInv => RateBound
  BY DEF IInv
<1> QED
  BY <1>1, Inductive, PTL

(* No permit is granted while a cooldown lasts, and no cooldown is cut short *)
(* (MpesaService._pg_acquire_permit, _pg_set_cooldown).                      *)
THEOREM CooldownsHold == Spec => CooldownsKept
<1>1. IInv /\ [Next]_vars => [grants' # grants => cooldownUntil <= now]_vars
  <2> SUFFICES ASSUME TypeOK, Next, grants' # grants PROVE cooldownUntil <= now
    BY DEF IInv
  <2>1. PICK w \in Callers : Grant(w)
    BY DEF Next, Call, Tick, CheckCooldown, Ask, Deny, FailOpen, Answered, Refused,
           RaiseCooldown, CooldownLost
  <2>2. cooldownUntil <= stmt[w] /\ stmt[w] \in 0 .. now
    BY <2>1 DEF Grant, IsCool, TypeOK
  <2> QED
    BY <2>2 DEF TypeOK
<1>2. IInv /\ [Next]_vars => [cooldownUntil' >= cooldownUntil]_vars
  <2> SUFFICES ASSUME TypeOK, Next PROVE cooldownUntil' >= cooldownUntil
    BY DEF IInv
  <2>1. ASSUME NEW w \in Callers, RaiseCooldown(w) PROVE cooldownUntil' >= cooldownUntil
    BY <2>1 DEF RaiseCooldown, Cooldown, GreaterOf, TypeOK
  <2>2. ASSUME cooldownUntil' = cooldownUntil PROVE cooldownUntil' >= cooldownUntil
    BY <2>2 DEF TypeOK
  <2> QED
    BY <2>1, <2>2 DEF Next, Call, Tick, CheckCooldown, Ask, Grant, Deny, FailOpen,
                      Answered, Refused, CooldownLost, row
<1> QED
  BY <1>1, <1>2, Inductive, PTL DEF Spec, CooldownsKept
=============================================================================
