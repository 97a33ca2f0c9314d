---------------------------- MODULE RefreshGrant ----------------------------
(***************************************************************************)
(* Refreshing the tokens of one session from concurrent requests           *)
(* (handle/refresh.c).                                                     *)
(*                                                                         *)
(* Requests of the same browser session run in different workers, perhaps  *)
(* on different machines, and each may find that the access token must be  *)
(* refreshed.  An OP that rotates refresh tokens accepts each one once, so *)
(* the requests coordinate through the shared cache: the first one stores  *)
(* a LOCK value under the refresh token, presents the token to the OP and  *)
(* replaces the LOCK by the result, or by a FAILED value; the others poll. *)
(* The reading of the cache and the claiming of the LOCK are protected by  *)
(* refresh_mutex, which spans one machine; the OP is called, and the       *)
(* outcome is stored, outside of it.                                       *)
(*                                                                         *)
(* Time is counted in steps of half a second, the pause between two polls. *)
(* Lifetimes are stored as what is left of them, so that no clock bounds   *)
(* the behaviours.                                                         *)
(***************************************************************************)
EXTENDS Naturals, FiniteSets

CONSTANTS
    Callers,        \* the requests, each of which loads the session once
    Machine,        \* Callers -> the machine whose refresh_mutex it uses
    Nobody,         \* the holder of a free mutex
    None,           \* no token, and a cache miss
    LOCK,           \* OIDC_REFRESH_LOCK_VALUE
    FAILED,         \* OIDC_REFRESH_FAILED_LOCK_VALUE
    Tokens,         \* bound: the refresh tokens 0 .. n that the OP can issue
    LockTTL,        \* 2 * OIDC_REFRESH_LOCK_TTL: half seconds, and polls
    CacheTTL,       \* 2 * OIDC_REFRESH_CACHE_TTL
    GrantBound,     \* a claimed grant is completed within this time
    RequestBound,   \* a refresh completes within this time, its sleeps apart
    AccessTTL,      \* a refreshed access token needs no refresh for this time
    Faults          \* subset of {"refuse", "lose", "cache", "crash"}, and "older":
                    \* requests that need no refresh save their copies too

Machines == {Machine[c] : c \in Callers}

ASSUME CallersAssumption == Nobody \notin Callers
ASSUME TTLAssumption == {LockTTL, CacheTTL, GrantBound, RequestBound} \subseteq Nat \ {0}
ASSUME TokensAssumption == Tokens \subseteq Nat /\ 0 \in Tokens /\ AccessTTL \in Nat
ASSUME ValuesAssumption ==
    {None, LOCK, FAILED} \cap Tokens = {} /\ Cardinality({None, LOCK, FAILED}) = 3

VARIABLES
    cache,      \* per refresh token: [val, ttl], the shared cache
    mutex,      \* per machine: the holder of refresh_mutex
    session,    \* the refresh token in the stored session
    valid,      \* time until the stored access token must be refreshed
    live,       \* OP: the refresh token that it accepts
    pc,         \* per caller: where it is
    token,      \* per caller: the refresh token of the session it loaded
    seen,       \* per caller: s_json, the value last read from the cache
    retries,    \* per caller: polls left
    sleep,      \* per caller: half seconds left of apr_sleep
    result,     \* per caller: the refresh token it ends up with, or None
    age,        \* per caller: time since it loaded the session, its sleeps apart
    held,       \* per caller: time since it claimed the LOCK
    window,     \* per token: time left in which it must not be presented again
    lockout     \* per token: time left of the lockout that a caller announced

cacheVars == <<cache, window, lockout>>
timers == <<sleep, age, held>>
vars == <<cache, mutex, session, live, pc, token, seen, retries, sleep, result,
          age, held, window, lockout, valid>>

Empty == [val |-> None, ttl |-> 0]

Waiting == {"lock", "check", "sleep"}
Granting == {"send", "sent", "granted", "refused", "recheck"}
Ended == {"done", "failed", "dead"}

Init ==
    /\ cache = [t \in Tokens |-> Empty]
    /\ mutex = [m \in Machines |-> Nobody]
    /\ session = 0
    /\ live = 0
    /\ pc = [c \in Callers |-> "idle"]
    /\ token = [c \in Callers |-> None]
    /\ seen = [c \in Callers |-> None]
    /\ retries = [c \in Callers |-> 0]
    /\ sleep = [c \in Callers |-> 0]
    /\ result = [c \in Callers |-> None]
    /\ age = [c \in Callers |-> 0]
    /\ held = [c \in Callers |-> 0]
    /\ window = [t \in Tokens |-> 0]
    /\ lockout = [t \in Tokens |-> 0]
    /\ valid \in 0..AccessTTL

(***************************************************************************)
(* The shared cache.  A get that fails looks like a miss to its callers,   *)
(* and a set that fails is not noticed.                                    *)
(***************************************************************************)
Reads(t) == {cache[t].val} \cup (IF "cache" \in Faults THEN {None} ELSE {})

Stores(t, v, ttl) ==
    \/ cache' = [cache EXCEPT ![t] = [val |-> v, ttl |-> ttl]]
    \/ "cache" \in Faults /\ cache' = cache

(***************************************************************************)
(* A request starts: the session is loaded and the access token is found   *)
(* to be (nearly) expired, so that a refresh is needed.                    *)
(***************************************************************************)
Load(c) ==
    /\ pc[c] = "idle" /\ valid = 0
    /\ token' = [token EXCEPT ![c] = session]
    /\ retries' = [retries EXCEPT ![c] = LockTTL]
    /\ pc' = [pc EXCEPT ![c] = "lock"]
    /\ UNCHANGED <<cache, mutex, session, live, seen, timers, result, window, lockout, valid>>

(***************************************************************************)
(* oidc_refresh_token_cache_get.  The mutex is held from the reading of    *)
(* the cache to the decision.                                              *)
(***************************************************************************)
LockRead(c) ==
    /\ pc[c] = "lock" /\ mutex[Machine[c]] = Nobody
    /\ mutex' = [mutex EXCEPT ![Machine[c]] = c]
    /\ \E v \in Reads(token[c]) : seen' = [seen EXCEPT ![c] = v]
    /\ pc' = [pc EXCEPT ![c] = "check"]
    /\ UNCHANGED <<cacheVars, session, live, token, retries, timers, result, valid>>

Unlocked(c) == mutex' = [mutex EXCEPT ![Machine[c]] = Nobody]

(* Another caller holds the LOCK: sleep without the mutex, then read again. *)
BackoffHoldingMutex(c) ==
    /\ pc[c] = "check" /\ seen[c] = LOCK /\ retries[c] > 0
    /\ retries' = [retries EXCEPT ![c] = @ - 1]
    /\ sleep' = [sleep EXCEPT ![c] = 1]
    /\ pc' = [pc EXCEPT ![c] = "sleep"]
    /\ UNCHANGED <<cacheVars, mutex, session, live, token, seen, age, held, result, valid>>

Backoff(c) ==
    /\ pc[c] = "check" /\ seen[c] = LOCK /\ retries[c] > 0
    /\ Unlocked(c)
    /\ retries' = [retries EXCEPT ![c] = @ - 1]
    /\ sleep' = [sleep EXCEPT ![c] = 1]
    /\ pc' = [pc EXCEPT ![c] = "sleep"]
    /\ UNCHANGED <<cacheVars, session, live, token, seen, age, held, result, valid>>

Wake(c) ==
    /\ pc[c] = "sleep" /\ sleep[c] = 0
    /\ pc' = [pc EXCEPT ![c] = "lock"]
    /\ UNCHANGED <<cacheVars, mutex, session, live, token, seen, retries, timers, result, valid>>

(* OIDC_REFRESH_CACHE_ABORT: the token failed before. *)
Abort(c) ==
    /\ pc[c] = "check" /\ seen[c] = FAILED
    /\ Unlocked(c)
    /\ pc' = [pc EXCEPT ![c] = "failed"]
    /\ UNCHANGED <<cacheVars, session, live, token, seen, retries, timers, result, valid>>

(* OIDC_REFRESH_CACHE_SUCCESS: another caller's result is used. *)
UseCached(c) ==
    /\ pc[c] = "check" /\ seen[c] \in Tokens
    /\ Unlocked(c)
    /\ result' = [result EXCEPT ![c] = seen[c]]
    /\ pc' = [pc EXCEPT ![c] = "save"]
    /\ UNCHANGED <<cacheVars, session, live, token, seen, retries, timers, valid>>

(* no_cache_found: nothing is cached, or the polls are used up while the   *)
(* LOCK is still there.  The LOCK is (re)claimed.                          *)
MayClaimImpatient(c) == seen[c] \in {None, LOCK}
MayClaim(c) == seen[c] = None \/ (seen[c] = LOCK /\ retries[c] = 0)

Claim(c) ==
    /\ pc[c] = "check" /\ MayClaim(c)
    /\ Stores(token[c], LOCK, LockTTL)
    /\ Unlocked(c)
    /\ pc' = [pc EXCEPT ![c] = "send"]
    /\ UNCHANGED <<window, lockout, session, live, token, seen, retries, timers, result, valid>>

(***************************************************************************)
(* oidc_refresh_token_grant_obtain_tokens.                                 *)
(***************************************************************************)

(* The refresh token is presented to the OP. *)
Send(c) ==
    /\ pc[c] = "send"
    /\ window' = [window EXCEPT ![token[c]] = CacheTTL]
    /\ pc' = [pc EXCEPT ![c] = "sent"]
    /\ UNCHANGED <<cache, lockout, mutex, session, live, token, seen, retries, timers, result, valid>>

(* The OP (external): it rotates the live token, or answers with an error. *)
(* The answer to a granted request may get lost, which is an error too.    *)
OpGrants(c) ==
    /\ pc[c] = "sent" /\ token[c] = live /\ live + 1 \in Tokens
    /\ live' = live + 1
    /\ \/ /\ result' = [result EXCEPT ![c] = live + 1]
          /\ pc' = [pc EXCEPT ![c] = "granted"]
       \/ /\ "lose" \in Faults
          /\ pc' = [pc EXCEPT ![c] = "refused"]
          /\ UNCHANGED result
    /\ UNCHANGED <<cacheVars, mutex, session, token, seen, retries, timers, valid>>

OpRefuses(c) ==
    /\ pc[c] = "sent" /\ (token[c] # live \/ "refuse" \in Faults)
    /\ pc' = [pc EXCEPT ![c] = "refused"]
    /\ UNCHANGED <<cacheVars, mutex, session, live, token, seen, retries, timers, result, valid>>

(* oidc_refresh_token_cache_set: the result replaces the LOCK. *)
CachedTokenOld(c) == token[c]
CachedToken(c) == result[c]

CacheResult(c) ==
    /\ pc[c] = "granted"
    /\ Stores(token[c], CachedToken(c), CacheTTL)
    /\ pc' = [pc EXCEPT ![c] = "save"]
    /\ UNCHANGED <<window, lockout, mutex, session, live, token, seen, retries, timers, result, valid>>

(* The grant failed: the cache is read once more, without the mutex. *)
Recheck(c) ==
    /\ pc[c] = "refused"
    /\ \E v \in Reads(token[c]) : seen' = [seen EXCEPT ![c] = v]
    /\ pc' = [pc EXCEPT ![c] = "recheck"]
    /\ UNCHANGED <<cacheVars, mutex, session, live, token, retries, timers, result, valid>>

(* Another caller's result is there: it is used. *)
Recover(c) ==
    /\ pc[c] = "recheck" /\ seen[c] \in Tokens
    /\ result' = [result EXCEPT ![c] = seen[c]]
    /\ pc' = [pc EXCEPT ![c] = "save"]
    /\ UNCHANGED <<cacheVars, mutex, session, live, token, seen, retries, timers, valid>>

(* Otherwise the token is locked out. *)
MarkFailed(c) ==
    /\ pc[c] = "recheck" /\ seen[c] \notin Tokens
    /\ Stores(token[c], FAILED, CacheTTL)
    /\ lockout' = [lockout EXCEPT ![token[c]] = CacheTTL]
    /\ pc' = [pc EXCEPT ![c] = "failed"]
    /\ UNCHANGED <<window, mutex, session, live, token, seen, retries, timers, result, valid>>

(* oidc_refresh_token_grant: the new refresh token replaces the old one in *)
(* the session, which is saved.                                            *)
Save(c) ==
    /\ pc[c] = "save"
    /\ session' = result[c]
    /\ valid' = AccessTTL
    /\ pc' = [pc EXCEPT ![c] = "done"]
    /\ UNCHANGED <<cacheVars, mutex, live, token, seen, retries, timers, result>>

(* A request that finds the access token good: it refreshes nothing, but   *)
(* saves the copy that it has loaded when that extends the inactivity      *)
(* timeout, over whatever is stored by then.  How long the access token of *)
(* a copy is still good is not counted.                                    *)
Pass(c) ==
    /\ "older" \in Faults
    /\ pc[c] = "idle" /\ valid > 0
    /\ token' = [token EXCEPT ![c] = session]
    /\ pc' = [pc EXCEPT ![c] = "pass"]
    /\ UNCHANGED <<cacheVars, mutex, session, live, seen, retries, timers, result, valid>>

SaveCopy(c) ==
    /\ pc[c] = "pass"
    /\ \/ session' = token[c] /\ valid' \in 0..AccessTTL
       \/ UNCHANGED <<session, valid>>
    /\ pc' = [pc EXCEPT ![c] = "done"]
    /\ UNCHANGED <<cacheVars, mutex, live, token, seen, retries, timers, result>>

(* The worker dies between two steps; it does not hold the mutex then. *)
Crash(c) ==
    /\ "crash" \in Faults
    /\ pc[c] \in {"lock", "sleep", "send", "sent", "granted", "refused", "recheck", "save"}
    /\ pc' = [pc EXCEPT ![c] = "dead"]
    /\ UNCHANGED <<cacheVars, mutex, session, live, token, seen, retries, timers, result, valid>>

(***************************************************************************)
(* Half a second passes: lifetimes run down, sleepers come nearer to       *)
(* waking, cache entries whose lifetime ends disappear.                    *)
(***************************************************************************)
Less(n) == IF n > 0 THEN n - 1 ELSE 0

Running(c) == pc[c] \notin Ended \cup {"idle"} /\ sleep[c] = 0

InTime(c) ==
    /\ pc[c] \in Granting => held[c] < GrantBound
    /\ Running(c) => age[c] < RequestBound

Tick ==
    /\ \A c \in Callers : InTime(c)
    /\ cache' = [t \in Tokens |-> IF cache[t].ttl <= 1 THEN Empty
                                  ELSE [cache[t] EXCEPT !.ttl = @ - 1]]
    /\ sleep' = [c \in Callers |-> Less(sleep[c])]
    /\ age' = [c \in Callers |-> IF Running(c) THEN age[c] + 1 ELSE IF pc[c] \in Ended THEN 0 ELSE age[c]]
    /\ held' = [c \in Callers |-> IF pc[c] \in Granting THEN held[c] + 1 ELSE 0]
    /\ window' = [t \in Tokens |-> Less(window[t])]
    /\ lockout' = [t \in Tokens |-> Less(lockout[t])]
    /\ valid' = Less(valid)
    /\ UNCHANGED <<mutex, session, live, pc, token, seen, retries, result>>

Step(c) ==
    \/ LockRead(c) \/ Backoff(c) \/ Wake(c) \/ Abort(c) \/ UseCached(c) \/ Claim(c)
    \/ Send(c) \/ CacheResult(c) \/ Recheck(c) \/ Recover(c) \/ MarkFailed(c) \/ Save(c)
    \/ SaveCopy(c)

Answer(c) == OpGrants(c) \/ OpRefuses(c)

Next == Tick \/ \E c \in Callers : Load(c) \/ Pass(c) \/ Step(c) \/ Answer(c) \/ Crash(c)

(* A worker keeps running and time passes; a request to the OP ends, if    *)
(* only by the timeout of the HTTP client.  The mutex is fair enough: a    *)
(* caller that finds it free again and again gets it.                      *)
Fairness ==
    /\ WF_vars(Tick)
    /\ \A c \in Callers : SF_vars(LockRead(c)) /\ WF_vars(Step(c)) /\ WF_vars(Answer(c))

Spec == Init /\ [][Next]_vars /\ Fairness

(***************************************************************************)
(* Properties.                                                             *)
(***************************************************************************)
CacheValues == Tokens \cup {None, LOCK, FAILED}

TypeOK ==
    /\ cache \in [Tokens -> [val : CacheValues, ttl : 0..(LockTTL + CacheTTL)]]
    /\ mutex \in [Machines -> Callers \cup {Nobody}]
    /\ session \in Tokens /\ live \in Tokens
    /\ pc \in [Callers -> Waiting \cup Granting \cup Ended \cup {"idle", "save", "pass"}]
    /\ token \in [Callers -> Tokens \cup {None}]
    /\ seen \in [Callers -> CacheValues]
    /\ retries \in [Callers -> 0..LockTTL]
    /\ sleep \in [Callers -> 0..1]
    /\ result \in [Callers -> Tokens \cup {None}]
    /\ age \in [Callers -> 0..RequestBound]
    /\ held \in [Callers -> 0..GrantBound]
    /\ window \in [Tokens -> 0..CacheTTL]
    /\ lockout \in [Tokens -> 0..CacheTTL]
    /\ valid \in 0..AccessTTL

(* A refresh token is not presented to the OP again while the outcome of   *)
(* its first use can still be in the cache: with a rotating OP the second  *)
(* use would be refused, or revoke the grant.  This is what the LOCK value *)
(* and refresh_mutex are for.                                              *)
PresentedOnce ==
    [][\A c \in Callers : pc[c] = "send" /\ pc'[c] = "sent" => window[token[c]] = 0]_vars

(* The tokens that a refresh ends up with, also those that it took from    *)
(* the cache after polling or after its own grant failed, are the ones     *)
(* that the OP issued for the refresh token of its session, and they are   *)
(* never a LOCK or FAILED value.                                           *)
ResultGenuine ==
    \A c \in Callers :
        /\ pc[c] = "save" => result[c] # None
        /\ result[c] # None => result[c] = token[c] + 1 /\ result[c] <= live

(* Every refresh ends: nobody waits for ever for a LOCK whose owner died,  *)
(* for the mutex, or for a result that never comes.                        *)
EveryoneEnds == \A c \in Callers : pc[c] = "lock" ~> pc[c] \in Ended

(* "on a remote refresh failure the refresh_token is locked out of future  *)
(* refresh attempts for OIDC_REFRESH_CACHE_TTL seconds" (the comment on    *)
(* oidc_refresh_token_grant_obtain_tokens): no LOCK is claimed, and hence  *)
(* no grant started, for a token during its lockout.                       *)
LockedOut ==
    [][\A c \in Callers : pc[c] = "check" /\ pc'[c] = "send" => lockout[token[c]] = 0]_vars
=============================================================================
