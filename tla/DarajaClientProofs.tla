------------------------- MODULE DarajaClientProofs -------------------------
(***************************************************************************)
(* Safety of DarajaClient, for any threads, margins, timeouts and          *)
(* lifetimes.                                                              *)
(*                                                                         *)
(* The argument follows a token.  Until it is stored only the thread that  *)
(* asked for it knows it (InTransitIsPrivate), so a refused token cannot   *)
(* return to the cache with somebody's late answer; and the numbers of     *)
(* the tokens in use never exceed those issued (StagesMakeSense), so that  *)
(* the token of a retry is newer than the one refused.                     *)
(***************************************************************************)
EXTENDS DarajaClient, TLAPS

USE SkewAssumption, TimeoutAssumption, LivesAssumption, FallbackAssumption,
    MaxTimeAssumption, MaxTokensAssumption, NoneAssumption

LEMMA NoneIsNoToken == None \notin Tokens
<1>1. Tokens \subseteq Nat
  BY DEF Tokens
<1> QED
  BY <1>1

LEMMA InitIInv == Init => IInv
BY DEF Init, IInv, TypeOK, StagesMakeSense, InTransitIsPrivate, LivesAreClose,
       OneFreshRetry, RefusedIsGone, Tokens

(* The end of a call: what every failing step has in common. *)
LEMMA EndIInv ==
  ASSUME IInv, NEW w \in Threads, End(w), UNCHANGED <<now, daraja, refused>>,
         UNCHANGED cache \/ Drop
  PROVE  IInv'
<1> USE DEF End, Goto, Drop, daraja, cache
<1>1. TypeOK'
  BY DEF IInv, TypeOK
<1>2. StagesMakeSense'
  BY DEF IInv, TypeOK, StagesMakeSense
<1>3. InTransitIsPrivate'
  BY DEF IInv, TypeOK, StagesMakeSense, InTransitIsPrivate, Tokens
<1>4. LivesAreClose'
  BY DEF IInv, TypeOK, LivesAreClose
<1>5. OneFreshRetry'
  BY DEF IInv, TypeOK, OneFreshRetry
<1>6. RefusedIsGone'
  BY NoneIsNoToken DEF IInv, TypeOK, RefusedIsGone
<1> QED
  BY <1>1, <1>2, <1>3, <1>4, <1>5, <1>6 DEF IInv

LEMMA StepIInv == IInv /\ [Next]_vars => IInv'
<1> SUFFICES ASSUME IInv, [Next]_vars PROVE IInv'
  OBVIOUS
<1> USE DEF Goto, daraja, cache
<1>1. ASSUME NEW w \in Threads, Call(w) PROVE IInv'
  BY <1>1 DEF IInv, TypeOK, StagesMakeSense, InTransitIsPrivate, LivesAreClose,
              OneFreshRetry, RefusedIsGone, Call
<1>2. ASSUME NEW w \in Threads, CacheHit(w) PROVE IInv'
  <2>1. TypeOK'
    BY <1>2 DEF IInv, TypeOK, CacheHit, Usable
  <2>2. StagesMakeSense'
    BY <1>2 DEF IInv, TypeOK, StagesMakeSense, CacheHit, Usable
  <2>3. InTransitIsPrivate'
    BY <1>2 DEF IInv, TypeOK, InTransitIsPrivate, CacheHit, Usable
  <2>4. LivesAreClose'
    BY <1>2 DEF IInv, TypeOK, LivesAreClose, CacheHit
  <2>5. OneFreshRetry' /\ RefusedIsGone'
    BY <1>2 DEF IInv, TypeOK, OneFreshRetry, RefusedIsGone, CacheHit, Forced
  <2> QED
    BY <2>1, <2>2, <2>3, <2>4, <2>5 DEF IInv
<1>3. ASSUME NEW w \in Threads, RequestToken(w) PROVE IInv'
  <2>1. TypeOK'
    BY <1>3 DEF IInv, TypeOK, RequestToken, Miss, Drop
  <2>2. StagesMakeSense'
    BY <1>3 DEF IInv, TypeOK, StagesMakeSense, RequestToken, Miss, Drop
  <2>3. InTransitIsPrivate'
    BY <1>3 DEF IInv, TypeOK, StagesMakeSense, InTransitIsPrivate, RequestToken, Miss, Drop
  <2>4. LivesAreClose'
    BY <1>3 DEF IInv, TypeOK, LivesAreClose, RequestToken, Miss, Drop
  <2>5. OneFreshRetry'
    BY <1>3 DEF IInv, TypeOK, OneFreshRetry, RequestToken
  <2>6. RefusedIsGone'
    BY <1>3, NoneIsNoToken DEF IInv, TypeOK, RefusedIsGone, RequestToken, Miss, Drop
  <2> QED
    BY <2>1, <2>2, <2>3, <2>4, <2>5, <2>6 DEF IInv
<1>4. ASSUME NEW w \in Threads, TokenNotRequested(w) PROVE IInv'
  BY <1>4, EndIInv DEF TokenNotRequested, Miss
<1>5. ASSUME NEW w \in Threads, NEW l \in Lives, NEW told \in {l, Fallback},
             IssueToken(w, l, told)
      PROVE  IInv'
  <2>1. told \in Nat /\ told <= l /\ l \in Nat
    BY <1>5 DEF IssueToken
  <2>2. issued + 1 \in Tokens
    BY <1>5 DEF IssueToken, IInv, TypeOK, Tokens
  <2>3. TypeOK'
    BY <1>5, <2>1, <2>2 DEF IInv, TypeOK, IssueToken, Tokens
  <2>4. StagesMakeSense'
    BY <1>5, <2>2 DEF IInv, TypeOK, StagesMakeSense, IssueToken, Tokens
  <2>5. InTransitIsPrivate'
    BY <1>5, <2>2 DEF IInv, TypeOK, StagesMakeSense, InTransitIsPrivate, IssueToken, Tokens
  <2>6. LivesAreClose'
    <3>1. \A t \in Tokens : t <= issued => ends'[t] = ends[t]
      BY <1>5, <2>2 DEF IInv, TypeOK, IssueToken, Tokens
    <3>2. cached' # None => expires' <= ends'[cached'] + Timeout
      BY <1>5, <3>1 DEF IInv, TypeOK, StagesMakeSense, LivesAreClose, IssueToken
    <3>3. ASSUME NEW v \in Threads, v # w, pc'[v] = "fetched"
          PROVE  since'[v] + life'[v] <= ends'[token'[v]]
      <4>1. /\ pc[v] = "fetched" /\ token'[v] = token[v]
            /\ since'[v] = since[v] /\ life'[v] = life[v]
        BY <1>5, <3>3 DEF IInv, TypeOK, IssueToken
      <4>2. token[v] \in Tokens /\ token[v] <= issued
        BY <4>1 DEF IInv, TypeOK, StagesMakeSense
      <4> QED
        BY <3>1, <4>1, <4>2 DEF IInv, LivesAreClose
    <3>4. since'[w] + life'[w] <= ends'[token'[w]]
      <4>1. /\ since'[w] = since[w] /\ life'[w] = told
            /\ token'[w] = issued + 1 /\ ends'[issued + 1] = now + l
        BY <1>5, <2>2 DEF IInv, TypeOK, IssueToken
      <4>2. since[w] \in Nat /\ now \in Nat /\ since[w] <= now
        BY DEF IInv, TypeOK
      <4> QED
        BY <2>1, <4>1, <4>2
    <3>5. \A v \in Threads : pc'[v] \in {"fetch", "fetched"} => now' <= since'[v] + Timeout
      BY <1>5 DEF IInv, TypeOK, LivesAreClose, IssueToken
    <3> QED
      BY <3>2, <3>3, <3>4, <3>5 DEF LivesAreClose
  <2>7. OneFreshRetry'
    <3>1. spent' = spent /\ \A v \in Threads : v # w => token'[v] = token[v]
      BY <1>5 DEF IInv, TypeOK, IssueToken
    <3>2. token'[w] = issued + 1 /\ \A t \in spent[w] : t \in Tokens /\ t <= issued
      BY <1>5 DEF IInv, TypeOK, StagesMakeSense, IssueToken
    <3>3. \A t \in spent'[w] : token'[w] > t
      BY <3>1, <3>2 DEF IInv, TypeOK, Tokens
    <3> QED
      BY <3>1, <3>3 DEF IInv, OneFreshRetry
  <2>8. RefusedIsGone'
    BY <1>5 DEF IInv, RefusedIsGone, IssueToken
  <2> QED
    BY <2>3, <2>4, <2>5, <2>6, <2>7, <2>8 DEF IInv
<1>6. ASSUME NEW w \in Threads, StoreToken(w) PROVE IInv'
  <2>1. token[w] \in Tokens
    BY <1>6 DEF IInv, TypeOK, StagesMakeSense, StoreToken
  <2>2. TypeOK'
    BY <1>6, <2>1 DEF IInv, TypeOK, StoreToken
  <2>3. StagesMakeSense'
    BY <1>6, <2>1 DEF IInv, TypeOK, StagesMakeSense, StoreToken
  <2>4. InTransitIsPrivate'
    BY <1>6, <2>1 DEF IInv, TypeOK, InTransitIsPrivate, StoreToken
  <2>5. LivesAreClose'
    BY <1>6, <2>1 DEF IInv, TypeOK, LivesAreClose, StoreToken
  <2>6. OneFreshRetry' /\ RefusedIsGone'
    BY <1>6 DEF IInv, TypeOK, InTransitIsPrivate, OneFreshRetry, RefusedIsGone, StoreToken
  <2> QED
    BY <2>2, <2>3, <2>4, <2>5, <2>6 DEF IInv
<1>7. ASSUME NEW w \in Threads, FetchFails(w) \/ NotSent(w) \/ Finish(w) PROVE IInv'
  BY <1>7, EndIInv DEF FetchFails, NotSent, Finish
<1>8. ASSUME NEW w \in Threads, Send(w) \/ Accept(w) \/ Unauthorized(w) PROVE IInv'
  <2>1. TypeOK'
    BY <1>8 DEF IInv, TypeOK, Send, Accept, Unauthorized
  <2>2. StagesMakeSense'
    BY <1>8 DEF IInv, TypeOK, StagesMakeSense, Send, Accept, Unauthorized
  <2>3. InTransitIsPrivate' /\ LivesAreClose'
    BY <1>8 DEF IInv, TypeOK, InTransitIsPrivate, LivesAreClose, Send, Accept, Unauthorized
  <2>4. OneFreshRetry' /\ RefusedIsGone'
    BY <1>8 DEF IInv, OneFreshRetry, RefusedIsGone, Send, Accept, Unauthorized
  <2> QED
    BY <2>1, <2>2, <2>3, <2>4 DEF IInv
<1>9. ASSUME NEW w \in Threads, Retry(w) PROVE IInv'
  <2>1. token[w] \in Tokens /\ token[w] <= issued /\ spent[w] = {} /\ pc[w] = "stale"
    BY <1>9 DEF IInv, TypeOK, StagesMakeSense, Retry, MayRetry
  <2>2. TypeOK'
    BY <1>9, <2>1 DEF IInv, TypeOK, Retry, Drop
  <2>3. StagesMakeSense'
    BY <1>9, <2>1 DEF IInv, TypeOK, StagesMakeSense, Retry, Drop
  <2>4. InTransitIsPrivate'
    BY <1>9, <2>1 DEF IInv, TypeOK, StagesMakeSense, InTransitIsPrivate, Retry, Drop, Tokens
  <2>5. LivesAreClose'
    BY <1>9, <2>1 DEF IInv, TypeOK, LivesAreClose, Retry, Drop
  <2>6. OneFreshRetry'
    BY <1>9, <2>1 DEF IInv, TypeOK, OneFreshRetry, Retry
  <2>7. RefusedIsGone'
    BY <1>9, <2>1, NoneIsNoToken DEF IInv, TypeOK, Retry, Drop, RefusedIsGone
  <2> QED
    BY <2>2, <2>3, <2>4, <2>5, <2>6, <2>7 DEF IInv
<1>10. CASE Tick
  <2>1. TypeOK'
    BY <1>10 DEF IInv, TypeOK, Tick, call
  <2>2. LivesAreClose'
    BY <1>10 DEF IInv, TypeOK, LivesAreClose, Tick, call
  <2>3. StagesMakeSense' /\ InTransitIsPrivate' /\ OneFreshRetry' /\ RefusedIsGone'
    BY <1>10 DEF IInv, StagesMakeSense, InTransitIsPrivate, OneFreshRetry, RefusedIsGone,
                 Tick, call
  <2> QED
    BY <2>1, <2>2, <2>3 DEF IInv
<1>11. CASE UNCHANGED vars
  BY <1>11 DEF IInv, TypeOK, StagesMakeSense, InTransitIsPrivate, LivesAreClose,
               OneFreshRetry, RefusedIsGone, vars, call
<1> QED
  BY <1>1, <1>2, <1>3, <1>4, <1>5, <1>6, <1>7, <1>8, <1>9, <1>10, <1>11
  DEF Next, GetToken

LEMMA AlwaysIInv == Spec => []IInv
BY InitIInv, StepIInv, PTL DEF Spec

(* Every reachable state is well typed, for any threads and tokens. *)
THEOREM TypeCorrect == Spec => []TypeOK
<1>1. IInv => TypeOK
  BY DEF IInv
<1> QED
  BY AlwaysIInv, <1>1, PTL

(* One call of _authed_request makes Daraja act once at most, timeouts and   *)
(* retries included.                                                         *)
THEOREM CallsActOnce == Spec => []CarriedOutOnce
<1>1. ASSUME IInv, NEW w \in Threads PROVE accepted[w] <= 1
  <2>1. accepted[w] = IF pc[w] = "done" THEN 1 ELSE 0
    BY <1>1 DEF IInv, StagesMakeSense
  <2> QED
    BY <2>1
<1>2. IInv => CarriedOutOnce
  BY <1>1 DEF CarriedOutOnce
<1> QED
  BY AlwaysIInv, <1>2, PTL

(* A call is retried at most once, with a token newer than the refused one,  *)
(* whatever other threads put into the cache (force_refresh).                *)
THEOREM RetriesAreFresh == Spec => []OneFreshRetry
<1>1. IInv => OneFreshRetry
  BY DEF IInv
<1> QED
  BY AlwaysIInv, <1>1, PTL

(* A token whose 401 was dealt with never returns to the cache.              *)
THEOREM RefusedStaysGone == Spec => []RefusedIsGone
<1>1. IInv => RefusedIsGone
  BY DEF IInv
<1> QED
  BY AlwaysIInv, <1>1, PTL

(* What the cache hands out ended at Daraja less than Timeout - Skew ago, if *)
(* at all, for any timeout, margin and lifetimes.                            *)
THEOREM HandOutsAreAlive == Spec => HandedOutAlive
<1>1. IInv /\ [Next]_vars =>
        [\A w \in Threads : pc[w] = "get" /\ pc'[w] = "send"
           => now < ends[token'[w]] + (Timeout - Skew)]_vars
  <2> SUFFICES ASSUME IInv, Next, NEW w \in Threads, pc[w] = "get", pc'[w] = "send"
               PROVE  now < ends[token'[w]] + (Timeout - Skew)
    OBVIOUS
  <2>1. CacheHit(w)
    BY DEF Next, GetToken, Call, CacheHit, RequestToken, TokenNotRequested, IssueToken,
           StoreToken, FetchFails, Send, NotSent, Accept, Unauthorized, Finish, Retry,
           MayRetry, Tick, call, Miss, End, Goto, IInv, TypeOK
  <2>2. token'[w] = cached /\ cached \in Tokens /\ now < expires - Skew
    BY <2>1 DEF CacheHit, Usable, IInv, TypeOK
  <2>3. expires <= ends[cached] + Timeout /\ ends[cached] \in Nat
        /\ expires \in Nat /\ now \in Nat
    BY <2>2 DEF IInv, TypeOK, LivesAreClose, Tokens
  <2> QED
    BY <2>2, <2>3
<1> QED
  BY AlwaysIInv, <1>1, PTL DEF Spec, HandedOutAlive
=============================================================================
