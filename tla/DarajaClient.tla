---------------------------- MODULE DarajaClient ----------------------------
(***************************************************************************)
(* Authorized calls of one server process to Daraja and the access token   *)
(* they share: DarajaTokenCache, get_access_token, _authed_request and the *)
(* requests of _request_json in app/services/mpesa_service.py.             *)
(*                                                                         *)
(* A call is an STK push or an STK query by a thread.  The cooldown and    *)
(* the permit before each HTTP request (Throttle) are here an outcome of   *)
(* the request.  The cache is locked for one read or write only, so other  *)
(* threads may come between a 401, the invalidation and the refresh.  A    *)
(* token lives at Daraja from when it is issued, and in the cache from     *)
(* when it has arrived.                                                    *)
(***************************************************************************)
EXTENDS Integers

CONSTANTS Threads,   \* threads of the process that call Daraja
          Skew,      \* the cache's safety margin, 10 seconds
          Timeout,   \* DARAJA_TIMEOUT: the longest an answer is waited for
          Lives,     \* lifetimes Daraja gives a token
          Fallback,  \* lifetime assumed without expires_in, 50 minutes
          MaxTime,   \* bound: the clock stops here
          MaxTokens, \* bound: Daraja issues no more tokens
          None       \* no token

ASSUME SkewAssumption == Skew \in Nat
ASSUME TimeoutAssumption == Timeout \in Nat
ASSUME LivesAssumption == Lives \subseteq Nat
ASSUME FallbackAssumption == Fallback \in Nat
ASSUME MaxTimeAssumption == MaxTime \in Nat
ASSUME MaxTokensAssumption == MaxTokens \in Nat
ASSUME NoneAssumption == None \notin Nat

VARIABLES
  now,
  issued,   \* number of tokens Daraja has issued; tokens are numbered
  ends,     \* when a token ends at Daraja
  cached,   \* the token of the cache's entry, or None
  expires,  \* the entry's expires_at
  pc,       \* where a thread's call is
  token,    \* the token the thread has
  life,     \* the lifetime that was told, or assumed, with it
  since,    \* when the thread asked for it
  spent,    \* tokens whose 401 the call has dealt with
  accepted, \* history: requests of this call Daraja has carried out
  refused   \* history: tokens whose 401 any call has dealt with

daraja == <<issued, ends>>
cache  == <<cached, expires>>
call   == <<pc, token, life, since, spent, accepted>>
vars   == <<now, daraja, cache, call, refused>>

Tokens == 1 .. MaxTokens

TypeOK ==
  /\ now \in 0 .. MaxTime
  /\ issued \in 0 .. MaxTokens
  /\ ends \in [Tokens -> Nat]
  /\ cached \in Tokens \cup {None}
  /\ expires \in Nat
  /\ pc \in [Threads -> {"idle", "get", "fetch", "fetched",
                         "send", "sent", "done", "stale"}]
  /\ token \in [Threads -> Tokens \cup {None}]
  /\ \A w \in Threads : token[w] = None <=> pc[w] \in {"idle", "get", "fetch"}
  /\ life \in [Threads -> Nat]
  /\ since \in [Threads -> 0 .. now]
  /\ spent \in [Threads -> SUBSET Tokens]
  /\ accepted \in [Threads -> Nat]
  /\ refused \in SUBSET Tokens

Init ==
  /\ now = 0
  /\ issued = 0 /\ ends = [t \in Tokens |-> 0]
  /\ cached = None /\ expires = 0
  /\ pc = [w \in Threads |-> "idle"]
  /\ token = [w \in Threads |-> None]
  /\ life = [w \in Threads |-> 0]
  /\ since = [w \in Threads |-> 0]
  /\ spent = [w \in Threads |-> {}]
  /\ accepted = [w \in Threads |-> 0]
  /\ refused = {}
-----------------------------------------------------------------------------
(* Helpers. *)

Goto(w, l) == pc' = [pc EXCEPT ![w] = l]

(* The call returns or raises. *)
End(w) ==
  /\ Goto(w, "idle")
  /\ token' = [token EXCEPT ![w] = None]
  /\ spent' = [spent EXCEPT ![w] = {}]
  /\ accepted' = [accepted EXCEPT ![w] = 0]
  /\ life' = [life EXCEPT ![w] = 0]
  /\ since' = [since EXCEPT ![w] = 0]

(* fault: an empty cache is not noticed *)
UsableEmpty == cached = None \/ now < expires - Skew

(* fault: the margin is forgotten *)
UsableToTheEnd == cached # None /\ now < expires

Usable == cached # None /\ now < expires - Skew

(* The entry of the cache is popped. *)
Drop == cached' = None /\ expires' = 0

(* fault: any failure is retried *)
AnyFailure(w) == pc[w] \in {"sent", "done", "stale"} /\ spent[w] = {}

(* Only an answered 401 is retried, and only once. *)
MayRetry(w) == pc[w] = "stale" /\ spent[w] = {}

(* fault: the second token may come from the cache again *)
NeverForced(w) == FALSE

(* force_refresh: the token after a 401 does not come from the cache. *)
Forced(w) == spent[w] # {}
-----------------------------------------------------------------------------
(* get_access_token. *)

Call(w) ==
  /\ pc[w] = "idle"
  /\ Goto(w, "get")
  /\ UNCHANGED <<now, daraja, cache, token, life, since, spent, accepted, refused>>

CacheHit(w) ==
  /\ pc[w] = "get"
  /\ ~Forced(w) /\ Usable
  /\ token' = [token EXCEPT ![w] = cached]
  /\ Goto(w, "send")
  /\ UNCHANGED <<now, daraja, cache, life, since, spent, accepted, refused>>

(* The read that misses drops an expired entry; a forced one does not read.  *)
Miss(w) ==
  /\ pc[w] = "get"
  /\ Forced(w) \/ ~Usable
  /\ IF Forced(w) THEN UNCHANGED cache ELSE Drop

RequestToken(w) ==
  /\ Miss(w)
  /\ since' = [since EXCEPT ![w] = now]
  /\ Goto(w, "fetch")
  /\ UNCHANGED <<now, daraja, token, life, spent, accepted, refused>>

(* A cooldown or a missing permit keeps the request from being sent. *)
TokenNotRequested(w) ==
  /\ Miss(w)
  /\ End(w)
  /\ UNCHANGED <<now, daraja, refused>>

(* Daraja issues a token that lives for l and tells so; without expires_in   *)
(* the client assumes Fallback, which Daraja's tokens are taken to exceed.   *)
IssueToken(w, l, told) ==
  /\ pc[w] = "fetch"
  /\ issued < MaxTokens
  /\ told = l \/ (told = Fallback /\ Fallback <= l)
  /\ issued' = issued + 1
  /\ ends' = [ends EXCEPT ![issued + 1] = now + l]
  /\ token' = [token EXCEPT ![w] = issued + 1]
  /\ life' = [life EXCEPT ![w] = told]
  /\ Goto(w, "fetched")
  /\ UNCHANGED <<now, cache, since, spent, accepted, refused>>

(* The answer arrives: _token_cache.set. *)
StoreToken(w) ==
  /\ pc[w] = "fetched"
  /\ cached' = token[w]
  /\ expires' = now + life[w]
  /\ life' = [life EXCEPT ![w] = 0]
  /\ since' = [since EXCEPT ![w] = 0]
  /\ Goto(w, "send")
  /\ UNCHANGED <<now, daraja, token, spent, accepted, refused>>

(* A timeout, an error status or an answer without a token. *)
FetchFails(w) ==
  /\ pc[w] \in {"fetch", "fetched"}
  /\ End(w)
  /\ UNCHANGED <<now, daraja, cache, refused>>
-----------------------------------------------------------------------------
(* _authed_request. *)

Send(w) ==
  /\ pc[w] = "send"
  /\ Goto(w, "sent")
  /\ UNCHANGED <<now, daraja, cache, token, life, since, spent, accepted, refused>>

NotSent(w) ==
  /\ pc[w] = "send"
  /\ End(w)
  /\ UNCHANGED <<now, daraja, cache, refused>>

(* Daraja carries the request out: the customer is prompted. *)
Accept(w) ==
  /\ pc[w] = "sent"
  /\ now < ends[token[w]]
  /\ accepted' = [accepted EXCEPT ![w] = @ + 1]
  /\ Goto(w, "done")
  /\ UNCHANGED <<now, daraja, cache, token, life, since, spent, refused>>

(* Daraja answers 401, be it because the token has ended or was withdrawn. *)
Unauthorized(w) ==
  /\ pc[w] = "sent"
  /\ Goto(w, "stale")
  /\ UNCHANGED <<now, daraja, cache, token, life, since, spent, accepted, refused>>

(* The answer is returned, or the call raises: on a timeout or a lost        *)
(* answer, also of a request that was carried out; on any other error status; *)
(* on a second 401, which leaves the cache alone.                            *)
Finish(w) ==
  /\ pc[w] \in {"sent", "done", "stale"}
  /\ ~MayRetry(w)
  /\ End(w)
  /\ UNCHANGED <<now, daraja, cache, refused>>

(* fault: the refused token stays in the cache *)
RetryCached(w) ==
  /\ MayRetry(w)
  /\ spent' = [spent EXCEPT ![w] = @ \cup {token[w]}]
  /\ refused' = refused \cup {token[w]}
  /\ token' = [token EXCEPT ![w] = None]
  /\ Goto(w, "get")
  /\ UNCHANGED <<now, daraja, cache, life, since, accepted>>

(* The first 401: whatever the cache holds by now is dropped, and a new      *)
(* token will be asked for.                                                  *)
Retry(w) ==
  /\ MayRetry(w)
  /\ Drop
  /\ spent' = [spent EXCEPT ![w] = @ \cup {token[w]}]
  /\ refused' = refused \cup {token[w]}
  /\ token' = [token EXCEPT ![w] = None]
  /\ Goto(w, "get")
  /\ UNCHANGED <<now, daraja, life, since, accepted>>

(* Time passes; no thread waits for a token beyond the timeout.              *)
Tick ==
  /\ now < MaxTime
  /\ \A w \in Threads :
        pc[w] \in {"fetch", "fetched"} => now < since[w] + Timeout
  /\ now' = now + 1
  /\ UNCHANGED <<daraja, cache, call, refused>>
-----------------------------------------------------------------------------
GetToken(w) ==
  \/ CacheHit(w) \/ RequestToken(w) \/ TokenNotRequested(w)
  \/ \E l \in Lives : IssueToken(w, l, l) \/ IssueToken(w, l, Fallback)
  \/ StoreToken(w) \/ FetchFails(w)

Next ==
  \/ \E w \in Threads :
        \/ Call(w) \/ GetToken(w)
        \/ Send(w) \/ NotSent(w) \/ Accept(w) \/ Unauthorized(w)
        \/ Finish(w) \/ Retry(w)
  \/ Tick

Spec == Init /\ [][Next]_vars
-----------------------------------------------------------------------------
(* Safety. *)

(* One call prompts the customer at most once: a request is repeated only    *)
(* after Daraja refused it, never after a timeout that may hide an answer.   *)
CarriedOutOnce == \A w \in Threads : accepted[w] <= 1

(* A call is retried once, with a token that was issued after the one Daraja *)
(* refused, whatever other threads have stored in the meantime.              *)
OneFreshRetry ==
  \A w \in Threads :
     /\ \A s, t \in spent[w] : s = t
     /\ token[w] # None => \A t \in spent[w] : token[w] > t

(* A token whose 401 has been dealt with is not in the cache and never       *)
(* returns to it, however late other threads' tokens arrive.                 *)
RefusedIsGone == cached \notin refused

-----------------------------------------------------------------------------
(* The inductive invariant behind the safety properties. *)

(* Which stages have a refusal or an accepted request; every token in use    *)
(* was issued.                                                               *)
StagesMakeSense ==
  /\ cached # None => cached <= issued
  /\ \A t \in refused : t <= issued
  /\ \A w \in Threads :
        /\ token[w] # None => token[w] <= issued
        /\ \A t \in spent[w] : t <= issued
        /\ pc[w] = "idle" => spent[w] = {}
        /\ accepted[w] = IF pc[w] = "done" THEN 1 ELSE 0

(* A token on its way to the cache is known to the thread that asked only.   *)
InTransitIsPrivate ==
  \A w \in Threads : pc[w] = "fetched" =>
     /\ token[w] # cached /\ token[w] \notin refused
     /\ \A v \in Threads : token[v] = token[w] => v = w

(* By how much the cache can overrate a token's life. *)
LivesAreClose ==
  /\ cached # None => expires <= ends[cached] + Timeout
  /\ \A w \in Threads :
        /\ pc[w] \in {"fetch", "fetched"} => now <= since[w] + Timeout
        /\ pc[w] = "fetched" => since[w] + life[w] <= ends[token[w]]

IInv == /\ TypeOK /\ StagesMakeSense /\ InTransitIsPrivate /\ LivesAreClose
        /\ OneFreshRetry /\ RefusedIsGone
-----------------------------------------------------------------------------
(* An action property. *)

(* The cache hands out no token that ended at Daraja more than the time by   *)
(* which a slow answer exceeds the margin: with Timeout <= Skew none at all. *)
HandedOutAlive ==
  [][\A w \in Threads :
       pc[w] = "get" /\ pc'[w] = "send"
         => now < ends[token'[w]] + (Timeout - Skew)]_vars
=============================================================================
