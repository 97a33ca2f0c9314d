------------------------- MODULE RefreshGrantProofs -------------------------
(***************************************************************************)
(* The tokens that a refresh ends with are genuine, for every number of    *)
(* requests and machines, every lifetime and every combination of faults:  *)
(* refused grants, lost answers, a failing cache, crashes.  Where nothing  *)
(* fails, and no request saves an older copy of the session, a refresh     *)
(* token is presented once.  Whatever fails, a refresh takes a bounded     *)
(* number of steps.                                                        *)
(***************************************************************************)
EXTENDS RefreshGrant, Integers, FiniteSetTheorems, TLAPS

\* What the cache holds for a refresh token, if it is a token, is the one
\* that the OP has issued for it.
CacheGenuine ==
    \A t \in Tokens : cache[t].val \in Tokens => cache[t].val = t + 1 /\ t + 1 <= live

\* What a caller has read, and what it has as a result, likewise.
SeenGenuine ==
    \A c \in Callers : seen[c] \in Tokens => seen[c] = token[c] + 1 /\ seen[c] <= live

HeldGenuine ==
    \A c \in Callers : result[c] \in Tokens => result[c] = token[c] + 1 /\ result[c] <= live

\* A caller that has started knows its refresh token, one that has not has
\* read nothing, and one that saves has something to save.
Progress ==
    \A c \in Callers :
        /\ pc[c] # "idle" => token[c] \in Tokens
        /\ pc[c] = "idle" => seen[c] = None /\ result[c] = None
        /\ pc[c] \in {"granted", "save"} => result[c] \in Tokens

RefreshInv == TypeOK /\ CacheGenuine /\ SeenGenuine /\ HeldGenuine /\ Progress

\* No token is one of the special values.
LEMMA ValuesDiffer == None \notin Tokens /\ LOCK \notin Tokens /\ FAILED \notin Tokens
  BY ValuesAssumption

\* The machine of a caller is a machine.
LEMMA MachineOf == \A c \in Callers : Machine[c] \in Machines
  BY DEF Machines

\* Before the first request the invariant holds.
LEMMA RefreshInitInv == Init => RefreshInv
<1> SUFFICES ASSUME Init PROVE RefreshInv
  OBVIOUS
<1> USE ValuesDiffer DEF Init
<1>1. TypeOK
  <2>1. cache \in [Tokens -> [val : CacheValues, ttl : 0..(LockTTL + CacheTTL)]]
    BY TTLAssumption DEF Empty, CacheValues
  <2>2. /\ mutex \in [Machines -> Callers \cup {Nobody}] /\ session \in Tokens /\ live \in Tokens
        /\ pc \in [Callers -> Waiting \cup Granting \cup Ended \cup {"idle", "save", "pass"}]
        /\ token \in [Callers -> Tokens \cup {None}] /\ seen \in [Callers -> CacheValues]
        /\ result \in [Callers -> Tokens \cup {None}]
    BY TokensAssumption DEF CacheValues
  <2>3. /\ retries \in [Callers -> 0..LockTTL] /\ sleep \in [Callers -> 0..1]
        /\ age \in [Callers -> 0..RequestBound] /\ held \in [Callers -> 0..GrantBound]
        /\ window \in [Tokens -> 0..CacheTTL] /\ lockout \in [Tokens -> 0..CacheTTL]
        /\ valid \in 0..AccessTTL
    BY TTLAssumption, TokensAssumption
  <2> QED
    BY <2>1, <2>2, <2>3 DEF TypeOK
<1>2. CacheGenuine /\ SeenGenuine /\ HeldGenuine /\ Progress
  BY DEF CacheGenuine, SeenGenuine, HeldGenuine, Progress, Empty
<1> QED
  BY <1>1, <1>2 DEF RefreshInv

-----------------------------------------------------------------------------
(* The steps of one caller.                                                 *)

\* Storing a value keeps the type of the cache.
LEMMA StoresType ==
    ASSUME TypeOK, NEW t \in Tokens, NEW v \in CacheValues, NEW ttl \in {LockTTL, CacheTTL},
           Stores(t, v, ttl)
    PROVE  /\ cache' \in [Tokens -> [val : CacheValues, ttl : 0..(LockTTL + CacheTTL)]]
           /\ \A u \in Tokens : cache'[u].val = cache[u].val \/ (u = t /\ cache'[u].val = v)
<1>1. ttl \in 0..(LockTTL + CacheTTL)
  BY TTLAssumption
<1>2. CASE cache' = cache
  BY <1>2 DEF TypeOK
<1>3. CASE cache' = [cache EXCEPT ![t] = [val |-> v, ttl |-> ttl]]
  BY <1>1, <1>3 DEF TypeOK
<1> QED
  BY <1>2, <1>3 DEF Stores

\* A read of the cache returns what is in it, or nothing.
LEMMA ReadsGenuine ==
    ASSUME RefreshInv, NEW t \in Tokens, NEW v \in Reads(t)
    PROVE  v \in CacheValues /\ (v \in Tokens => v = t + 1 /\ v <= live)
  BY ValuesDiffer DEF RefreshInv, TypeOK, CacheGenuine, Reads, CacheValues

\* A request that starts takes the refresh token of the session.
LEMMA LoadInv == ASSUME RefreshInv, NEW c \in Callers, Load(c) PROVE RefreshInv'
<1> USE DEF Load, timers
<1>1. TypeOK'
  BY TTLAssumption DEF RefreshInv, TypeOK, Waiting
<1>2. CacheGenuine' /\ SeenGenuine' /\ HeldGenuine' /\ Progress'
  BY ValuesDiffer DEF RefreshInv, TypeOK, CacheGenuine, SeenGenuine, HeldGenuine, Progress
<1> QED
  BY <1>1, <1>2 DEF RefreshInv

\* Reading the cache, under the mutex or after a failed grant, gives a
\* genuine token if it gives one at all.
LEMMA ReadInv == ASSUME RefreshInv, NEW c \in Callers, LockRead(c) \/ Recheck(c) PROVE RefreshInv'
<1> USE DEF LockRead, Recheck, timers, cacheVars
<1>1. pc[c] \in {"lock", "refused"} /\ token[c] \in Tokens
  BY DEF RefreshInv, Progress
<1>2. PICK v \in Reads(token[c]) : seen' = [seen EXCEPT ![c] = v]
  OBVIOUS
<1>3. v \in CacheValues /\ (v \in Tokens => v = token[c] + 1 /\ v <= live)
  BY <1>1, ReadsGenuine
<1>4. PICK p \in {"check", "recheck"} : pc' = [pc EXCEPT ![c] = p]
  OBVIOUS
<1>5. mutex' \in [Machines -> Callers \cup {Nobody}]
  BY MachineOf DEF RefreshInv, TypeOK
<1>6. UNCHANGED <<cache, session, live, token, retries, sleep, age, held, result, window, lockout, valid>>
  OBVIOUS
<1>7. TypeOK'
  BY <1>2, <1>3, <1>4, <1>5, <1>6 DEF RefreshInv, TypeOK, Waiting, Granting
<1>8. CacheGenuine' /\ HeldGenuine'
  BY <1>6 DEF RefreshInv, CacheGenuine, HeldGenuine
<1>9. SeenGenuine'
  BY <1>2, <1>3, <1>6 DEF RefreshInv, TypeOK, SeenGenuine
<1>10. Progress'
  BY <1>1, <1>2, <1>4, <1>6 DEF RefreshInv, TypeOK, Progress
<1> QED
  BY <1>7, <1>8, <1>9, <1>10 DEF RefreshInv

\* Steps that change neither what is cached nor what the caller has read or
\* obtained.
LEMMA PlainInv ==
    ASSUME RefreshInv, NEW c \in Callers,
           Backoff(c) \/ Wake(c) \/ Abort(c) \/ Send(c) \/ OpRefuses(c) \/ Crash(c)
    PROVE  RefreshInv'
<1> USE DEF Backoff, Wake, Abort, Send, OpRefuses, Crash, timers, cacheVars
<1>1. PICK p \in {"sleep", "lock", "failed", "sent", "refused", "dead"} :
         pc' = [pc EXCEPT ![c] = p]
  OBVIOUS
<1>2. UNCHANGED <<cache, session, live, token, seen, age, held, result, lockout, valid>> /\ pc[c] # "idle"
  OBVIOUS
<1>3. mutex' \in [Machines -> Callers \cup {Nobody}]
  BY MachineOf DEF RefreshInv, TypeOK, Unlocked
<1>4. retries' \in [Callers -> 0..LockTTL] /\ sleep' \in [Callers -> 0..1]
  BY TTLAssumption DEF RefreshInv, TypeOK
<1>5. window' \in [Tokens -> 0..CacheTTL]
  BY TTLAssumption DEF RefreshInv, TypeOK
<1>6. TypeOK'
  BY <1>1, <1>2, <1>3, <1>4, <1>5 DEF RefreshInv, TypeOK, Waiting, Granting, Ended
<1>7. CacheGenuine' /\ SeenGenuine' /\ HeldGenuine'
  BY <1>2 DEF RefreshInv, CacheGenuine, SeenGenuine, HeldGenuine
<1>8. Progress'
  BY <1>1, <1>2 DEF RefreshInv, TypeOK, Progress
<1> QED
  BY <1>6, <1>7, <1>8 DEF RefreshInv

\* A caller that takes another one's result takes a genuine one.
LEMMA TakeInv == ASSUME RefreshInv, NEW c \in Callers, UseCached(c) \/ Recover(c) PROVE RefreshInv'
<1> USE DEF UseCached, Recover, timers, cacheVars
<1>1. /\ pc[c] # "idle" /\ seen[c] \in Tokens /\ result' = [result EXCEPT ![c] = seen[c]]
      /\ pc' = [pc EXCEPT ![c] = "save"]
      /\ UNCHANGED <<cache, session, live, token, seen, retries, sleep, age, held, window, lockout, valid>>
  OBVIOUS
<1>2. mutex' \in [Machines -> Callers \cup {Nobody}]
  BY MachineOf DEF RefreshInv, TypeOK, Unlocked
<1>3. TypeOK'
  BY <1>1, <1>2 DEF RefreshInv, TypeOK
<1>4. CacheGenuine' /\ SeenGenuine'
  BY <1>1 DEF RefreshInv, CacheGenuine, SeenGenuine
<1>5. HeldGenuine' /\ Progress'
  BY <1>1 DEF RefreshInv, TypeOK, SeenGenuine, HeldGenuine, Progress
<1> QED
  BY <1>3, <1>4, <1>5 DEF RefreshInv

\* LOCK and FAILED in the cache are no tokens, and a result is stored by the
\* caller that obtained it.
LEMMA WriteInv ==
    ASSUME RefreshInv, NEW c \in Callers, Claim(c) \/ CacheResult(c) \/ MarkFailed(c)
    PROVE  RefreshInv'
<1> USE DEF Claim, CacheResult, MarkFailed, timers
<1>1. pc[c] \in {"check", "granted", "recheck"} /\ token[c] \in Tokens
  BY DEF RefreshInv, Progress
<1>2. PICK v \in CacheValues, ttl \in {LockTTL, CacheTTL} :
         /\ Stores(token[c], v, ttl)
         /\ v \in Tokens => v = token[c] + 1 /\ v <= live
  <2>1. CASE CacheResult(c)
    <3>1. result[c] \in Tokens /\ result[c] = token[c] + 1 /\ result[c] <= live
      BY <2>1 DEF RefreshInv, Progress, HeldGenuine
    <3> QED
      BY <2>1, <3>1 DEF CachedToken, CacheValues
  <2>2. CASE Claim(c) \/ MarkFailed(c)
    BY <2>2, ValuesDiffer DEF CacheValues
  <2> QED
    BY <2>1, <2>2
<1>3. /\ cache' \in [Tokens -> [val : CacheValues, ttl : 0..(LockTTL + CacheTTL)]]
      /\ \A u \in Tokens : cache'[u].val = cache[u].val \/ (u = token[c] /\ cache'[u].val = v)
  BY <1>1, <1>2, StoresType DEF RefreshInv
<1>4. UNCHANGED <<session, live, token, seen, retries, sleep, age, held, result, window, valid>>
  OBVIOUS
<1>5. PICK p \in {"send", "save", "failed"} :
         pc' = [pc EXCEPT ![c] = p] /\ (p = "save" => pc[c] = "granted")
  OBVIOUS
<1>6. mutex' \in [Machines -> Callers \cup {Nobody}] /\ lockout' \in [Tokens -> 0..CacheTTL]
  BY MachineOf, TTLAssumption DEF RefreshInv, TypeOK, Unlocked
<1>7. TypeOK'
  BY <1>3, <1>4, <1>5, <1>6 DEF RefreshInv, TypeOK, Waiting, Granting, Ended
<1>8. CacheGenuine'
  BY <1>2, <1>3, <1>4 DEF RefreshInv, CacheGenuine
<1>9. SeenGenuine' /\ HeldGenuine'
  BY <1>4 DEF RefreshInv, SeenGenuine, HeldGenuine
<1>10. Progress'
  BY <1>1, <1>4, <1>5 DEF RefreshInv, TypeOK, Progress
<1> QED
  BY <1>7, <1>8, <1>9, <1>10 DEF RefreshInv

\* The OP rotates its token: what was issued before stays issued.
LEMMA GrantInv == ASSUME RefreshInv, NEW c \in Callers, OpGrants(c) PROVE RefreshInv'
<1> USE DEF OpGrants, timers, cacheVars
<1>1. /\ pc[c] = "sent" /\ token[c] = live /\ live \in Nat /\ live + 1 \in Tokens /\ live' = live + 1
      /\ UNCHANGED <<cache, mutex, session, token, seen, retries, sleep, age, held, window, lockout, valid>>
  BY TokensAssumption DEF RefreshInv, TypeOK
<1>2. Tokens \subseteq Nat
  BY TokensAssumption
<1>3. PICK p \in {"granted", "refused"} :
         /\ pc' = [pc EXCEPT ![c] = p]
         /\ \/ result' = result /\ p = "refused"
            \/ result' = [result EXCEPT ![c] = live + 1]
  OBVIOUS
<1>4. TypeOK'
  BY <1>1, <1>3 DEF RefreshInv, TypeOK, Granting
<1> HIDE DEF OpGrants, timers, cacheVars
<1>5. \A u \in Tokens : u <= live => u <= live'
  <2> SUFFICES ASSUME NEW u \in Nat, u <= live PROVE u <= live + 1
    BY <1>1, <1>2
  <2> QED
    BY <1>1
<1>6. CacheGenuine'
  <2> SUFFICES ASSUME NEW t \in Tokens, cache[t].val \in Tokens
      PROVE  cache[t].val = t + 1 /\ t + 1 <= live'
    BY <1>1 DEF CacheGenuine
  <2>1. cache[t].val = t + 1 /\ t + 1 <= live
    BY DEF RefreshInv, CacheGenuine
  <2> QED
    BY <2>1, <1>5
<1>7. SeenGenuine'
  <2> SUFFICES ASSUME NEW d \in Callers, seen[d] \in Tokens
      PROVE  seen[d] = token[d] + 1 /\ seen[d] <= live'
    BY <1>1 DEF SeenGenuine
  <2>1. seen[d] = token[d] + 1 /\ seen[d] <= live
    BY DEF RefreshInv, SeenGenuine
  <2> QED
    BY <2>1, <1>5
<1>8. HeldGenuine'
  <2> SUFFICES ASSUME NEW d \in Callers, result'[d] \in Tokens
      PROVE  result'[d] = token[d] + 1 /\ result'[d] <= live'
    BY <1>1 DEF HeldGenuine
  <2>1. CASE result'[d] = result[d]
    <3>1. result[d] = token[d] + 1 /\ result[d] <= live
      BY <2>1 DEF RefreshInv, HeldGenuine
    <3> QED
      BY <2>1, <3>1, <1>5
  <2>2. CASE d = c /\ result'[d] = live + 1
    BY <1>1, <2>2
  <2> QED
    BY <1>3, <2>1, <2>2 DEF RefreshInv, TypeOK
<1>9. Progress'
  BY <1>1, <1>3 DEF RefreshInv, TypeOK, Progress
<1> QED
  BY <1>4, <1>6, <1>7, <1>8, <1>9 DEF RefreshInv

\* The session is saved with the token that was obtained.
LEMMA SaveInv == ASSUME RefreshInv, NEW c \in Callers, Save(c) PROVE RefreshInv'
<1> USE DEF Save, timers, cacheVars
<1>1. result[c] \in Tokens
  BY DEF RefreshInv, Progress
<1>2. TypeOK'
  BY <1>1, TokensAssumption DEF RefreshInv, TypeOK, Ended
<1>3. CacheGenuine' /\ SeenGenuine' /\ HeldGenuine'
  BY DEF RefreshInv, CacheGenuine, SeenGenuine, HeldGenuine
<1>4. Progress'
  BY DEF RefreshInv, TypeOK, Progress
<1> QED
  BY <1>2, <1>3, <1>4 DEF RefreshInv

\* A request that refreshes nothing takes the refresh token of the session
\* and may put it back.
LEMMA CopyInv == ASSUME RefreshInv, NEW c \in Callers, Pass(c) \/ SaveCopy(c) PROVE RefreshInv'
<1> USE DEF Pass, SaveCopy, timers, cacheVars
<1>1. CASE Pass(c)
  <2>1. TypeOK'
    BY <1>1 DEF RefreshInv, TypeOK
  <2>2. CacheGenuine' /\ SeenGenuine' /\ HeldGenuine' /\ Progress'
    BY <1>1, ValuesDiffer DEF RefreshInv, TypeOK, CacheGenuine, SeenGenuine, HeldGenuine, Progress
  <2> QED
    BY <2>1, <2>2 DEF RefreshInv
<1>2. CASE SaveCopy(c)
  <2>1. token[c] \in Tokens
    BY <1>2 DEF RefreshInv, Progress
  <2>2. TypeOK'
    BY <1>2, <2>1 DEF RefreshInv, TypeOK, Ended
  <2>3. CacheGenuine' /\ SeenGenuine' /\ HeldGenuine'
    BY <1>2 DEF RefreshInv, CacheGenuine, SeenGenuine, HeldGenuine
  <2>4. Progress'
    BY <1>2 DEF RefreshInv, TypeOK, Progress
  <2> QED
    BY <2>2, <2>3, <2>4 DEF RefreshInv
<1> QED
  BY <1>1, <1>2

\* Time passes: entries disappear and timers stay within their bounds.
LEMMA TimeInv == ASSUME RefreshInv, Tick PROVE RefreshInv'
<1> USE TTLAssumption DEF Tick
<1>1. UNCHANGED <<mutex, session, live, pc, token, seen, retries, result>>
  OBVIOUS
<1>2. cache' \in [Tokens -> [val : CacheValues, ttl : 0..(LockTTL + CacheTTL)]]
  <2>1. \A t \in Tokens : cache[t].ttl > 1 => cache[t].ttl - 1 \in 0..(LockTTL + CacheTTL)
    BY DEF RefreshInv, TypeOK
  <2>2. Empty \in [val : CacheValues, ttl : 0..(LockTTL + CacheTTL)]
    BY DEF Empty, CacheValues
  <2>3. SUFFICES ASSUME NEW t \in Tokens
        PROVE  (IF cache[t].ttl <= 1 THEN Empty ELSE [cache[t] EXCEPT !.ttl = @ - 1])
                  \in [val : CacheValues, ttl : 0..(LockTTL + CacheTTL)]
    OBVIOUS
  <2>4. cache[t].ttl \in Nat /\ cache[t] \in [val : CacheValues, ttl : 0..(LockTTL + CacheTTL)]
    BY DEF RefreshInv, TypeOK
  <2> QED
    BY <2>1, <2>2, <2>4
<1>3. \A t \in Tokens : cache'[t].val = None \/ cache'[t].val = cache[t].val
  BY DEF RefreshInv, TypeOK, Empty
<1>4. \A n, m \in Nat : n \in 0..m => Less(n) \in 0..m
  BY DEF Less
<1>5. /\ sleep' \in [Callers -> 0..1] /\ window' \in [Tokens -> 0..CacheTTL]
      /\ lockout' \in [Tokens -> 0..CacheTTL] /\ valid' \in 0..AccessTTL
  <2>1. \A n \in 0..1 : Less(n) \in 0..1
    BY <1>4
  <2>2. \A n \in 0..CacheTTL : Less(n) \in 0..CacheTTL
    BY <1>4
  <2>3. Less(valid) \in 0..AccessTTL
    BY <1>4, TokensAssumption DEF RefreshInv, TypeOK
  <2>4. \A c \in Callers : sleep[c] \in 0..1
    BY DEF RefreshInv, TypeOK
  <2>5. \A t \in Tokens : window[t] \in 0..CacheTTL /\ lockout[t] \in 0..CacheTTL
    BY DEF RefreshInv, TypeOK
  <2> QED
    BY <2>1, <2>2, <2>3, <2>4, <2>5
<1>6. age' \in [Callers -> 0..RequestBound] /\ held' \in [Callers -> 0..GrantBound]
  <2>1. \A c \in Callers : Running(c) => age[c] + 1 \in 0..RequestBound
    BY DEF RefreshInv, TypeOK, InTime
  <2>2. \A c \in Callers : pc[c] \in Granting => held[c] + 1 \in 0..GrantBound
    BY DEF RefreshInv, TypeOK, InTime
  <2>3. 0 \in 0..RequestBound /\ 0 \in 0..GrantBound
    OBVIOUS
  <2> QED
    BY <2>1, <2>2, <2>3 DEF RefreshInv, TypeOK
<1>7. TypeOK'
  BY <1>1, <1>2, <1>5, <1>6 DEF RefreshInv, TypeOK
<1>8. CacheGenuine'
  BY <1>1, <1>3, ValuesDiffer DEF RefreshInv, CacheGenuine
<1>9. SeenGenuine' /\ HeldGenuine' /\ Progress'
  BY <1>1 DEF RefreshInv, SeenGenuine, HeldGenuine, Progress
<1> QED
  BY <1>7, <1>8, <1>9 DEF RefreshInv

-----------------------------------------------------------------------------
\* The invariant of the refresh grant (handle/refresh.c), of which the two
\* theorems below are consequences.
THEOREM RefreshInvariance == Spec => []RefreshInv
<1>1. Init => RefreshInv
  BY RefreshInitInv
<1>2. RefreshInv /\ [Next]_vars => RefreshInv'
  <2> SUFFICES ASSUME RefreshInv, [Next]_vars PROVE RefreshInv'
    OBVIOUS
  <2>1. CASE Tick
    BY <2>1, TimeInv
  <2>2. ASSUME NEW c \in Callers, Load(c) \/ Pass(c) \/ Step(c) \/ Answer(c) \/ Crash(c) PROVE RefreshInv'
    BY <2>2, LoadInv, ReadInv, PlainInv, TakeInv, WriteInv, GrantInv, SaveInv, CopyInv DEF Step, Answer
  <2>3. CASE UNCHANGED vars
    BY <2>3 DEF vars, RefreshInv, TypeOK, CacheGenuine, SeenGenuine, HeldGenuine, Progress
  <2> QED
    BY <2>1, <2>2, <2>3 DEF Next
<1> QED
  BY <1>1, <1>2, PTL DEF Spec

\* Values, timers and counters of the refresh grant keep their types, in
\* particular a LOCK or FAILED value never ends up in a session.
THEOREM RefreshTypeCorrect == Spec => []TypeOK
<1>1. RefreshInv => TypeOK
  BY DEF RefreshInv
<1> QED
  BY <1>1, RefreshInvariance, PTL

\* The result of every refresh, whether obtained from the OP, read after
\* polling or recovered after a failed grant
\* (oidc_refresh_token_grant_obtain_tokens), is the token that the OP has
\* issued for the refresh token of the request's session.
THEOREM ResultsGenuine == Spec => []ResultGenuine
<1>1. RefreshInv => ResultGenuine
  BY ValuesDiffer DEF RefreshInv, TypeOK, HeldGenuine, Progress, ResultGenuine
<1> QED
  BY <1>1, RefreshInvariance, PTL

-----------------------------------------------------------------------------
(* What the LOCK value and the mutex are for.  Where nothing fails, no      *)
(* request saves an older copy of the session, the callers share one mutex  *)
(* and the times relate as the settings intend, a refresh token is          *)
(* presented once.                                                          *)

Smooth ==
    /\ Faults = {}
    /\ \A c, d \in Callers : Machine[c] = Machine[d]
    \* A LOCK outlives the grant that it was stored for.
    /\ GrantBound < LockTTL
    \* A result outlives two requests: the one that saves it, and one that has
    \* loaded the session just before.
    /\ 2 * RequestBound + 2 <= CacheTTL
    \* A request that has loaded the session before it was saved has ended when
    \* the next refresh is due.
    /\ RequestBound + 2 <= AccessTTL

\* The callers under way, and the pause that one is in or about to begin.
Active == {c \in Callers : pc[c] \notin Ended \cup {"idle"}}
Pause(c) == sleep[c] + (IF pc[c] = "check" /\ seen[c] = LOCK THEN 1 ELSE 0)

\* Callers under way have loaded the same session, which at most one save has
\* replaced since.
SameToken ==
    /\ \A c, d \in Active : token[c] = token[d]
    /\ \A c \in Active : session \in {token[c], token[c] + 1}

\* What a caller under way may do next follows from what it has read.
Decided ==
    \A c \in Active :
        /\ pc[c] \in Waiting \cup {"send", "sent", "granted", "save"}
        /\ pc[c] = "check" => mutex[Machine[c]] = c
        /\ pc[c] = "check" /\ seen[c] = LOCK => retries[c] > 0
        /\ pc[c] = "check" /\ seen[c] = None => session = token[c] /\ cache[token[c]].val = None

\* A caller that has loaded the session before it was saved finds the result
\* in the cache, and ends before the saved tokens are refreshed in turn.
Late ==
    \A c \in Active : session = token[c] + 1 =>
        /\ pc[c] \in Waiting \cup {"save"}
        /\ cache[token[c]].val = session
        /\ cache[token[c]].ttl + age[c] + RequestBound + 1 >= CacheTTL + Pause(c)
        /\ valid + age[c] + 1 >= AccessTTL + Pause(c)

\* Nothing has happened to the tokens to come.
Future == \A t \in Tokens : t > session => cache[t].val = None /\ window[t] = 0

\* The token of the session was not used yet,
Fresh ==
    /\ live = session /\ cache[session].val = None /\ window[session] = 0
    /\ \A c \in Active : token[c] = session =>
          /\ pc[c] \in Waiting /\ retries[c] = LockTTL /\ sleep[c] = 0
          /\ pc[c] = "check" => seen[c] = None

\* or caller g has the LOCK and the others wait for it,
Claimed(g) ==
    /\ cache[session].val = LOCK /\ cache[session].ttl + held[g] >= LockTTL
    /\ \/ pc[g] \in {"send", "sent"} /\ live = session
       \/ pc[g] = "granted" /\ live = session + 1
    /\ pc[g] = "send" => window[session] = 0
    /\ \A c \in Active \ {g} :
          /\ pc[c] \in Waiting /\ held[g] + sleep[c] + retries[c] >= LockTTL
          /\ pc[c] = "check" => seen[c] = LOCK

\* or its result is in the cache and is about to be saved.
Granted(g) ==
    /\ pc[g] = "save" /\ live = session + 1
    /\ cache[session].val = live /\ cache[session].ttl + age[g] >= CacheTTL
    /\ \A c \in Active : pc[c] \in Waiting \cup {"save"}

\* The session is in one of the three.
Phase ==
    \/ Fresh
    \/ \E g \in Active : token[g] = session /\ (Claimed(g) \/ Granted(g))

\* Nobody has held a LOCK before it claims one, and only sleepers sleep.
Timers ==
    \A c \in Callers :
        /\ pc[c] \in Waiting \cup {"idle"} => held[c] = 0
        /\ sleep[c] > 0 => pc[c] = "sleep"

\* The inductive invariant of the refreshes where nothing fails.
OnceInv == SameToken /\ Decided /\ Late /\ Future /\ Phase /\ Timers

\* The types of the parts, for one caller and one token.
LEMMA OnceTypes ==
    ASSUME RefreshInv
    PROVE  /\ \A c \in Callers :
                 /\ sleep[c] \in Int /\ sleep[c] >= 0 /\ sleep[c] <= 1
                 /\ age[c] \in Int /\ age[c] >= 0 /\ age[c] <= RequestBound
                 /\ held[c] \in Int /\ held[c] >= 0 /\ held[c] <= GrantBound
                 /\ retries[c] \in Int /\ retries[c] >= 0
           /\ \A t \in Tokens :
                 /\ t \in Int /\ t >= 0 /\ cache[t].val \in CacheValues
                 /\ cache[t].ttl \in Int /\ cache[t].ttl >= 0
                 /\ window[t] \in Int /\ window[t] >= 0
           /\ session \in Tokens /\ live \in Tokens /\ session \in Int /\ live \in Int
           /\ valid \in Int /\ valid >= 0
<1>1. TypeOK /\ Tokens \subseteq Nat
  BY TokensAssumption DEF RefreshInv
<1>2. ASSUME NEW c \in Callers
      PROVE  /\ sleep[c] \in 0 .. 1 /\ age[c] \in 0 .. RequestBound /\ held[c] \in 0 .. GrantBound
             /\ retries[c] \in 0 .. LockTTL
  BY <1>1 DEF TypeOK
<1>3. ASSUME NEW t \in Tokens
      PROVE  /\ cache[t] \in [val : CacheValues, ttl : 0..(LockTTL + CacheTTL)] /\ window[t] \in 0 .. CacheTTL
             /\ t \in Nat
  BY <1>1 DEF TypeOK
<1>4. session \in Tokens /\ live \in Tokens /\ valid \in 0 .. AccessTTL
  BY <1>1 DEF TypeOK
<1>5. ASSUME NEW c \in Callers
      PROVE  /\ sleep[c] \in Int /\ sleep[c] >= 0 /\ sleep[c] <= 1
             /\ age[c] \in Int /\ age[c] >= 0 /\ age[c] <= RequestBound
             /\ held[c] \in Int /\ held[c] >= 0 /\ held[c] <= GrantBound
             /\ retries[c] \in Int /\ retries[c] >= 0
  BY <1>2, TTLAssumption
<1>6. ASSUME NEW t \in Tokens
      PROVE  /\ t \in Int /\ t >= 0 /\ cache[t].val \in CacheValues
             /\ cache[t].ttl \in Int /\ cache[t].ttl >= 0
             /\ window[t] \in Int /\ window[t] >= 0
  BY <1>3, TTLAssumption
<1>7. session \in Int /\ live \in Int /\ valid \in Int /\ valid >= 0
  BY <1>1, <1>4, TokensAssumption
<1> QED
  BY <1>4, <1>5, <1>6, <1>7

\* The constants are numbers that relate as they should.
LEMMA SmoothTimes ==
    ASSUME Smooth
    PROVE  /\ LockTTL \in Int /\ LockTTL > 0 /\ CacheTTL \in Int /\ GrantBound \in Int /\ GrantBound > 0
           /\ RequestBound \in Int /\ RequestBound > 0 /\ AccessTTL \in Int
           /\ GrantBound < LockTTL /\ 2 * RequestBound + 2 <= CacheTTL /\ RequestBound + 2 <= AccessTTL
  BY TTLAssumption, TokensAssumption DEF Smooth

\* A caller under way has a token, which is a number.
LEMMA ActiveToken ==
    ASSUME RefreshInv, NEW c \in Active
    PROVE  c \in Callers /\ token[c] \in Tokens /\ token[c] \in Int
<1>1. c \in Callers /\ pc[c] # "idle"
  BY DEF Active
<1>2. token[c] \in Tokens
  BY <1>1 DEF RefreshInv, Progress
<1>3. token[c] \in Nat
  BY <1>2, TokensAssumption
<1> QED
  BY <1>1, <1>2, <1>3

\* The pause of a caller is one step at most.
LEMMA PauseType ==
    ASSUME RefreshInv, OnceInv, NEW c \in Callers
    PROVE  Pause(c) \in Int /\ Pause(c) >= 0 /\ Pause(c) <= 1 /\ Pause(c) >= sleep[c]
<1>1. sleep[c] \in Int /\ sleep[c] >= 0 /\ sleep[c] <= 1 /\ (sleep[c] > 0 => pc[c] = "sleep")
  BY OnceTypes DEF OnceInv, Timers
<1>2. CASE pc[c] = "check" /\ seen[c] = LOCK
  BY <1>1, <1>2 DEF Pause
<1>3. CASE ~(pc[c] = "check" /\ seen[c] = LOCK)
  BY <1>1, <1>3 DEF Pause
<1> QED
  BY <1>2, <1>3

\* Before the first request the invariant holds.
LEMMA OnceInit == Init => OnceInv
<1> SUFFICES ASSUME Init PROVE OnceInv
  OBVIOUS
<1>1. Active = {}
  BY DEF Init, Active
<1>2. session \in Tokens /\ cache[session].val = None /\ window[session] = 0 /\ live = session
  BY TokensAssumption DEF Init, Empty
<1>3. Future
  BY DEF Init, Empty, Future
<1>4. Timers
  BY DEF Init, Timers
<1> QED
  BY <1>1, <1>2, <1>3, <1>4 DEF OnceInv, SameToken, Decided, Late, Phase, Fresh

\* Who grants has the LOCK, and the session is still the one that it loaded.
LEMMA Granter ==
    ASSUME RefreshInv, OnceInv, NEW c \in Callers, pc[c] \in {"send", "sent", "granted"}
    PROVE  c \in Active /\ token[c] = session /\ Claimed(c) /\ \A d \in Active : token[d] = session
<1>1. c \in Active
  BY DEF Active, Ended
<1>2. token[c] = session
  BY <1>1 DEF OnceInv, SameToken, Late, Waiting
<1>3. ~Fresh
  BY <1>1, <1>2 DEF Fresh, Waiting
<1>4. PICK g \in Active : token[g] = session /\ (Claimed(g) \/ Granted(g))
  BY <1>3 DEF OnceInv, Phase
<1>5. Claimed(g)
  BY <1>1, <1>4 DEF Granted, Waiting
<1>6. g = c
  BY <1>1, <1>5 DEF Claimed, Waiting
<1>7. \A d \in Active : token[d] = session
  BY <1>1, <1>2 DEF OnceInv, SameToken
<1> QED
  BY <1>1, <1>2, <1>5, <1>6, <1>7

\* With one mutex there is one caller that decides.
LEMMA OneDecides ==
    ASSUME Smooth, OnceInv, NEW c \in Callers, NEW d \in Callers, pc[d] = "check",
           mutex[Machine[c]] \in {c, Nobody}
    PROVE  d = c
<1>1. mutex[Machine[d]] = d
  BY DEF OnceInv, Decided, Active, Ended
<1>2. Machine[d] = Machine[c]
  BY DEF Smooth
<1> QED
  BY <1>1, <1>2, CallersAssumption

\* A step of a caller that waits, which touches nothing but its own state and
\* the mutex.
LEMMA WaitStep ==
    ASSUME RefreshInv, OnceInv, NEW c \in Callers, pc[c] \in Waiting,
           UNCHANGED <<cache, session, live, token, age, held, window, valid>>,
           \A d \in Callers \ {c} : /\ pc'[d] = pc[d] /\ sleep'[d] = sleep[d] /\ seen'[d] = seen[d]
                                    /\ retries'[d] = retries[d]
                                    /\ pc[d] = "check" => mutex'[Machine[d]] = d,
           pc'[c] \in Waiting \cup {"save", "failed"},
           sleep'[c] > 0 => pc'[c] = "sleep",
           pc'[c] = "check" => /\ mutex'[Machine[c]] = c
                               /\ seen'[c] = LOCK => retries'[c] > 0
                               /\ seen'[c] = None => session = token[c] /\ cache[token[c]].val = None,
           session = token[c] + 1 /\ pc'[c] # "failed" => Pause(c)' <= Pause(c) /\ Pause(c)' \in Int,
           Fresh /\ session = token[c] /\ pc'[c] # "failed"
              => /\ pc'[c] \in Waiting /\ retries'[c] = LockTTL /\ sleep'[c] = 0
                 /\ pc'[c] = "check" => seen'[c] = None,
           \A g \in Active \ {c} : token[g] = session /\ Claimed(g) /\ pc'[c] # "failed"
              => /\ pc'[c] \in Waiting /\ held[g] + sleep'[c] + retries'[c] >= LockTTL
                 /\ pc'[c] = "check" => seen'[c] = LOCK
    PROVE  OnceInv'
<1>1. /\ \A d \in Callers \ {c} : d \in Active' <=> d \in Active
      /\ c \in Active /\ Active' \subseteq Active /\ (c \in Active' => pc'[c] # "failed")
  BY DEF Active, Ended, Waiting
<1>2. SameToken'
  BY <1>1 DEF OnceInv, SameToken
<1>3. Decided'
  <2> SUFFICES ASSUME NEW d \in Active'
               PROVE  /\ pc'[d] \in Waiting \cup {"send", "sent", "granted", "save"}
                      /\ pc'[d] = "check" => mutex'[Machine[d]] = d
                      /\ pc'[d] = "check" /\ seen'[d] = LOCK => retries'[d] > 0
                      /\ pc'[d] = "check" /\ seen'[d] = None
                            => session = token[d] /\ cache[token[d]].val = None
    BY DEF Decided
  <2>1. CASE d = c
    BY <1>1, <2>1
  <2>2. CASE d # c
    <3>1. d \in Active /\ d \in Callers \ {c}
      BY <1>1, <2>2 DEF Active
    <3> QED
      BY <3>1 DEF OnceInv, Decided
  <2> QED
    BY <2>1, <2>2
<1>4. Late'
  <2> SUFFICES ASSUME NEW d \in Active', session = token[d] + 1
               PROVE  /\ pc'[d] \in Waiting \cup {"save"}
                      /\ cache[token[d]].val = session
                      /\ cache[token[d]].ttl + age[d] + RequestBound + 1 >= CacheTTL + Pause(d)'
                      /\ valid + age[d] + 1 >= AccessTTL + Pause(d)'
    BY DEF Late
  <2>1. /\ d \in Active /\ d \in Callers /\ cache[token[d]].val = session
        /\ cache[token[d]].ttl + age[d] + RequestBound + 1 >= CacheTTL + Pause(d)
        /\ valid + age[d] + 1 >= AccessTTL + Pause(d)
        /\ pc[d] \in Waiting \cup {"save"}
    BY <1>1 DEF OnceInv, Late, Active
  <2>2. CASE d # c
    <3>1. Pause(d)' = Pause(d) /\ pc'[d] = pc[d]
      BY <2>1, <2>2 DEF Pause
    <3> QED
      BY <2>1, <3>1
  <2>3. CASE d = c
    <3>1. Pause(d)' <= Pause(d) /\ Pause(d)' \in Int /\ Pause(d) \in Int /\ pc'[d] \in Waiting \cup {"save"}
      BY <1>1, <2>1, <2>3, PauseType
    <3>2. token[d] \in Tokens
      BY <2>1, ActiveToken
    <3>3. cache[token[d]].ttl \in Int /\ age[d] \in Int /\ valid \in Int
      BY <2>1, <3>2, OnceTypes
    <3>4. RequestBound \in Int /\ CacheTTL \in Int /\ AccessTTL \in Int
      BY TTLAssumption, TokensAssumption
    <3> HIDE DEF Pause
    <3> QED
      BY <2>1, <3>1, <3>3, <3>4
  <2> QED
    BY <2>2, <2>3
<1>5. Future'
  BY DEF OnceInv, Future
<1>6. Timers'
  <2> SUFFICES ASSUME NEW d \in Callers
               PROVE  /\ pc'[d] \in Waiting \cup {"idle"} => held[d] = 0
                      /\ sleep'[d] > 0 => pc'[d] = "sleep"
    BY DEF Timers
  <2>1. CASE d = c
    BY <2>1 DEF OnceInv, Timers
  <2>2. CASE d # c
    BY <2>2 DEF OnceInv, Timers
  <2> QED
    BY <2>1, <2>2
<1>7. Phase'
  <2>1. CASE Fresh
    <3>1. ASSUME NEW d \in Active', token[d] = session
          PROVE  /\ pc'[d] \in Waiting /\ retries'[d] = LockTTL /\ sleep'[d] = 0
                 /\ pc'[d] = "check" => seen'[d] = None
      <4>1. CASE d = c
        BY <1>1, <2>1, <3>1, <4>1
      <4>2. CASE d # c
        <5>1. d \in Active /\ d \in Callers \ {c}
          BY <1>1, <4>2 DEF Active
        <5> QED
          BY <2>1, <3>1, <5>1 DEF Fresh
      <4> QED
        BY <4>1, <4>2
    <3>2. Fresh'
      BY <2>1, <3>1 DEF Fresh
    <3> QED
      BY <3>2 DEF Phase
  <2>2. ASSUME NEW g \in Active, token[g] = session, Claimed(g) \/ Granted(g)
        PROVE  Phase'
    <3>1. g # c /\ g \in Active' /\ g \in Callers \ {c}
      BY <1>1, <2>2 DEF Claimed, Granted, Waiting, Active
    <3>2. pc'[g] = pc[g]
      BY <3>1
    <3>3. CASE Claimed(g)
      <4>1. ASSUME NEW d \in Active' \ {g}
            PROVE  /\ pc'[d] \in Waiting /\ held[g] + sleep'[d] + retries'[d] >= LockTTL
                   /\ pc'[d] = "check" => seen'[d] = LOCK
        <5>1. CASE d = c
          BY <1>1, <2>2, <3>1, <3>3, <4>1, <5>1
        <5>2. CASE d # c
          <6>1. d \in Active \ {g} /\ d \in Callers \ {c}
            BY <1>1, <4>1, <5>2 DEF Active
          <6> QED
            BY <3>3, <6>1 DEF Claimed
        <5> QED
          BY <5>1, <5>2
      <4>2. Claimed(g)'
        BY <3>2, <3>3, <4>1 DEF Claimed
      <4> QED
        BY <2>2, <3>1, <4>2 DEF Phase
    <3>4. CASE Granted(g)
      <4>1. ASSUME NEW d \in Active'
            PROVE  pc'[d] \in Waiting \cup {"save"}
        <5>1. CASE d = c
          BY <1>1, <5>1
        <5>2. CASE d # c
          <6>1. d \in Active /\ d \in Callers \ {c}
            BY <1>1, <4>1, <5>2 DEF Active
          <6> QED
            BY <3>4, <6>1 DEF Granted
        <5> QED
          BY <5>1, <5>2
      <4>2. Granted(g)'
        BY <3>2, <3>4, <4>1 DEF Granted
      <4> QED
        BY <2>2, <3>1, <4>2 DEF Phase
    <3> QED
      BY <2>2, <3>3, <3>4
  <2> QED
    BY <2>1, <2>2 DEF OnceInv, Phase
<1> QED
  BY <1>2, <1>3, <1>4, <1>5, <1>6, <1>7 DEF OnceInv

\* The LOCK is not taken for a miss.
LEMMA LockIsNotNone == LOCK # None
<1>1. ASSUME LOCK = None
      PROVE  FALSE
  <2>1. {None, LOCK, FAILED} = {None, FAILED}
    BY <1>1
  <2>2. Cardinality({None, FAILED}) <= 2
    <3>1. IsFiniteSet({FAILED}) /\ Cardinality({FAILED}) = 1
      BY FS_Singleton
    <3>2. Cardinality({FAILED} \cup {None}) \in {1, 2}
      BY <3>1, FS_AddElement
    <3>3. {FAILED} \cup {None} = {None, FAILED}
      OBVIOUS
    <3> QED
      BY <3>2, <3>3
  <2> QED
    BY <2>1, <2>2, ValuesAssumption
<1> QED
  BY <1>1

\* What a caller that waits knows of the cache.
LEMMA WaitingFor ==
    ASSUME Smooth, RefreshInv, OnceInv, NEW c \in Callers, pc[c] \in Waiting
    PROVE  /\ c \in Active /\ token[c] \in Tokens /\ session \in {token[c], token[c] + 1}
           /\ cache[token[c]].val = LOCK
                 => /\ session = token[c] /\ ~Fresh
                    /\ \E g \in Active \ {c} : token[g] = session /\ Claimed(g)
           /\ cache[token[c]].val = None => session = token[c]
           /\ session = token[c] + 1 => cache[token[c]].val \in Tokens
<1>1. c \in Active /\ token[c] \in Tokens /\ session \in {token[c], token[c] + 1} /\ session \in Tokens
  <2>1. c \in Active
    BY DEF Active, Waiting, Ended
  <2> QED
    BY <2>1, ActiveToken, OnceTypes DEF OnceInv, SameToken
<1>2. session = token[c] + 1 => cache[token[c]].val \in Tokens
  BY <1>1 DEF OnceInv, Late
<1>3. ASSUME cache[token[c]].val = LOCK
      PROVE  /\ session = token[c] /\ ~Fresh
             /\ \E g \in Active \ {c} : token[g] = session /\ Claimed(g)
  <2>1. session = token[c]
    BY <1>1, <1>2, <1>3, ValuesDiffer
  <2>2. LOCK # None
    BY LockIsNotNone
  <2>3. ~Fresh
    BY <1>3, <2>1, <2>2 DEF Fresh
  <2>4. PICK g \in Active : token[g] = session /\ (Claimed(g) \/ Granted(g))
    BY <2>3 DEF OnceInv, Phase
  <2>5. Claimed(g)
    BY <1>3, <2>1, <2>4, OnceTypes, ValuesDiffer DEF Granted
  <2>6. g # c
    BY <2>5 DEF Claimed, Waiting
  <2> QED
    BY <2>1, <2>3, <2>4, <2>5, <2>6
<1>4. cache[token[c]].val = None => session = token[c]
  BY <1>1, <1>2, ValuesDiffer
<1> QED
  BY <1>1, <1>2, <1>3, <1>4

\* The cache is read under the mutex.
LEMMA LockReadOnce ==
    ASSUME Smooth, RefreshInv, RefreshInv', OnceInv, NEW c \in Callers, LockRead(c)
    PROVE  OnceInv'
<1> USE DEF LockRead, timers, cacheVars
<1>1. /\ pc[c] = "lock" /\ pc[c] \in Waiting /\ mutex[Machine[c]] = Nobody
      /\ UNCHANGED <<cache, session, live, token, age, held, window, valid, sleep, retries>>
  BY DEF Waiting
<1>2. /\ \A d \in Callers \ {c} : pc'[d] = pc[d] /\ seen'[d] = seen[d]
      /\ pc'[c] = "check" /\ seen'[c] = cache[token[c]].val /\ mutex'[Machine[c]] = c
  BY MachineOf DEF Smooth, Reads, RefreshInv, TypeOK
<1>3. \A d \in Callers \ {c} : pc[d] # "check"
  BY <1>1, OneDecides
<1>4. sleep[c] = 0
  BY <1>1, OnceTypes DEF OnceInv, Timers
<1>5. ASSUME seen'[c] = LOCK
      PROVE  retries[c] > 0 /\ ~Fresh
  <2>1. PICK g \in Active \ {c} : token[g] = session /\ Claimed(g)
    BY <1>1, <1>2, <1>5, WaitingFor
  <2>2. c \in Active \ {g} /\ g \in Callers
    BY <1>1, <2>1, WaitingFor DEF Active
  <2>3. held[g] + sleep[c] + retries[c] >= LockTTL
    BY <2>1, <2>2 DEF Claimed
  <2>4. held[g] \in Int /\ held[g] <= GrantBound /\ retries[c] \in Int
    BY <2>2, OnceTypes
  <2>5. retries[c] > 0
    BY <1>4, <2>3, <2>4, SmoothTimes
  <2> QED
    BY <1>1, <1>2, <1>5, <2>5, WaitingFor
<1>6. ASSUME session = token[c] + 1
      PROVE  Pause(c)' <= Pause(c) /\ Pause(c)' \in Int
  <2>1. seen'[c] # LOCK
    BY <1>1, <1>2, <1>6, WaitingFor, ValuesDiffer
  <2>2. Pause(c)' = 0 /\ Pause(c) = 0
    BY <1>1, <1>2, <1>4, <2>1 DEF Pause
  <2> QED
    BY <2>2
<1>7. ASSUME Fresh, session = token[c]
      PROVE  retries[c] = LockTTL /\ seen'[c] = None
  BY <1>1, <1>2, <1>7, WaitingFor DEF Fresh
<1>8. ASSUME NEW g \in Active \ {c}, token[g] = session, Claimed(g)
      PROVE  held[g] + sleep[c] + retries[c] >= LockTTL /\ seen'[c] = LOCK
  <2>1. token[c] = session /\ c \in Active \ {g}
    BY <1>1, <1>8, WaitingFor DEF OnceInv, SameToken
  <2> QED
    BY <1>2, <1>8, <2>1 DEF Claimed
<1>9. seen'[c] = None => session = token[c] /\ cache[token[c]].val = None
  BY <1>1, <1>2, WaitingFor
<1> HIDE DEF LockRead
<1>10. pc'[c] \in Waiting /\ pc'[c] # "failed"
  BY <1>2 DEF Waiting
<1> QED
  BY <1>1, <1>2, <1>3, <1>4, <1>5, <1>6, <1>7, <1>8, <1>9, <1>10, WaitStep

\* A caller that has read a LOCK pauses.
LEMMA BackoffOnce ==
    ASSUME Smooth, RefreshInv, OnceInv, NEW c \in Callers, Backoff(c)
    PROVE  OnceInv'
<1> USE DEF Backoff, Unlocked, timers, cacheVars
<1>1. /\ pc[c] = "check" /\ pc[c] \in Waiting /\ seen[c] = LOCK /\ retries[c] > 0
      /\ UNCHANGED <<cache, session, live, token, age, held, window, valid, seen>>
  BY DEF Waiting
<1>2. /\ \A d \in Callers \ {c} : pc'[d] = pc[d] /\ sleep'[d] = sleep[d] /\ retries'[d] = retries[d]
      /\ pc'[c] = "sleep" /\ sleep'[c] = 1 /\ retries'[c] = retries[c] - 1
  BY DEF RefreshInv, TypeOK
<1>3. \A d \in Callers \ {c} : pc[d] # "check"
  <2>1. mutex[Machine[c]] = c
    BY <1>1, WaitingFor DEF OnceInv, Decided
  <2> QED
    BY <2>1, OneDecides
<1>4. sleep[c] = 0
  BY <1>1, OnceTypes DEF OnceInv, Timers
<1>5. Pause(c)' = 1 /\ Pause(c) = 1
  BY <1>1, <1>2, <1>4 DEF Pause
<1>6. ~(Fresh /\ session = token[c])
  <2> SUFFICES ASSUME Fresh, session = token[c]
               PROVE  FALSE
    OBVIOUS
  <2>1. seen[c] = None /\ cache[token[c]].val = None
    BY <1>1, WaitingFor DEF Fresh
  <2>2. LOCK = None
    BY <1>1, <2>1
  <2> QED
    BY <1>1, <2>1, <2>2, WaitingFor
<1>8. ASSUME NEW g \in Active \ {c}, token[g] = session, Claimed(g)
      PROVE  held[g] + sleep'[c] + retries'[c] >= LockTTL
  <2>1. c \in Active \ {g} /\ g \in Callers
    BY <1>1, <1>8, WaitingFor DEF Active
  <2>2. held[g] + sleep[c] + retries[c] >= LockTTL
    BY <1>8, <2>1 DEF Claimed
  <2>3. held[g] \in Int /\ retries[c] \in Int
    BY <2>1, OnceTypes
  <2> QED
    BY <1>2, <1>4, <2>2, <2>3, SmoothTimes
<1> HIDE DEF Backoff
<1>9. pc'[c] \in Waiting /\ pc'[c] # "failed" /\ pc'[c] # "check"
  BY <1>2 DEF Waiting
<1>10. Pause(c)' <= Pause(c) /\ Pause(c)' \in Int
  BY <1>5
<1> QED
  BY <1>1, <1>2, <1>3, <1>6, <1>8, <1>9, <1>10, WaitStep

\* A pause ends.
LEMMA WakeOnce ==
    ASSUME Smooth, RefreshInv, OnceInv, NEW c \in Callers, Wake(c)
    PROVE  OnceInv'
<1> USE DEF Wake, timers, cacheVars
<1>1. /\ pc[c] = "sleep" /\ pc[c] \in Waiting /\ sleep[c] = 0
      /\ UNCHANGED <<cache, session, live, token, age, held, window, valid, seen, sleep, retries, mutex>>
  BY DEF Waiting
<1>2. (\A d \in Callers \ {c} : pc'[d] = pc[d]) /\ pc'[c] = "lock" /\ pc'[c] \in Waiting
  BY DEF RefreshInv, TypeOK, Waiting
<1>3. Pause(c)' = 0 /\ Pause(c) = 0
  BY <1>1, <1>2 DEF Pause
<1>4. \A d \in Callers \ {c} : pc[d] = "check" => mutex'[Machine[d]] = d
  BY <1>1 DEF OnceInv, Decided, Active, Ended
<1>5. Fresh /\ session = token[c] => retries[c] = LockTTL
  BY <1>1, WaitingFor DEF Fresh
<1>6. ASSUME NEW g \in Active \ {c}, token[g] = session, Claimed(g)
      PROVE  held[g] + sleep[c] + retries[c] >= LockTTL
  BY <1>1, <1>6, WaitingFor DEF Claimed
<1> HIDE DEF Wake
<1>7. Pause(c)' <= Pause(c) /\ Pause(c)' \in Int
  BY <1>3
<1> QED
  BY <1>1, <1>2, <1>4, <1>5, <1>6, <1>7, WaitStep

\* A caller leaves with the result of another one, or with nothing.
LEMMA LeaveOnce ==
    ASSUME Smooth, RefreshInv, OnceInv, NEW c \in Callers, UseCached(c) \/ Abort(c)
    PROVE  OnceInv'
<1> USE DEF UseCached, Abort, Unlocked, timers, cacheVars
<1>1. /\ pc[c] = "check" /\ pc[c] \in Waiting
      /\ UNCHANGED <<cache, session, live, token, age, held, window, valid, seen, sleep, retries>>
  BY DEF Waiting
<1>2. /\ \A d \in Callers \ {c} : pc'[d] = pc[d]
      /\ pc'[c] \in {"save", "failed"} /\ (pc'[c] = "save" => seen[c] \in Tokens)
  BY DEF RefreshInv, TypeOK
<1>3. \A d \in Callers \ {c} : pc[d] # "check"
  <2>1. mutex[Machine[c]] = c
    BY <1>1, WaitingFor DEF OnceInv, Decided
  <2> QED
    BY <2>1, OneDecides
<1>4. sleep[c] = 0
  BY <1>1, OnceTypes DEF OnceInv, Timers
<1>5. Pause(c)' = 0 /\ Pause(c) \in Int /\ Pause(c) >= 0
  BY <1>1, <1>2, <1>4, PauseType DEF Pause
<1>6. ASSUME Fresh, session = token[c]
      PROVE  pc'[c] = "failed"
  BY <1>1, <1>2, <1>6, WaitingFor, ValuesDiffer DEF Fresh
<1>7. ASSUME NEW g \in Active \ {c}, token[g] = session, Claimed(g)
      PROVE  pc'[c] = "failed"
  BY <1>1, <1>2, <1>7, WaitingFor, ValuesDiffer DEF Claimed
<1> HIDE DEF UseCached, Abort
<1>8. Pause(c)' <= Pause(c) /\ Pause(c)' \in Int
  BY <1>5
<1> QED
  BY <1>1, <1>2, <1>3, <1>4, <1>6, <1>7, <1>8, WaitStep

\* The cache stores what it is told where it never fails.
LEMMA StoresSmooth ==
    ASSUME Smooth, RefreshInv, NEW t \in Tokens, NEW v, NEW ttl, Stores(t, v, ttl)
    PROVE  /\ cache'[t] = [val |-> v, ttl |-> ttl] /\ cache'[t].val = v /\ cache'[t].ttl = ttl
           /\ \A u \in Tokens \ {t} : cache'[u] = cache[u]
<1>1. cache' = [cache EXCEPT ![t] = [val |-> v, ttl |-> ttl]]
  BY DEF Stores, Smooth
<1>2. DOMAIN cache = Tokens
  BY DEF RefreshInv, TypeOK
<1> QED
  BY <1>1, <1>2

\* A caller that has found nothing claims the LOCK: no other decides now.
LEMMA ClaimOnce ==
    ASSUME Smooth, RefreshInv, OnceInv, NEW c \in Callers, Claim(c)
    PROVE  OnceInv'
<1> USE DEF Claim, timers
<1>1. /\ pc[c] = "check" /\ pc[c] \in Waiting
      /\ UNCHANGED <<session, live, token, age, held, window, valid, seen, sleep, retries>>
  BY DEF Waiting
<1>2. c \in Active /\ token[c] \in Tokens
  BY <1>1, WaitingFor
<1>3. seen[c] = None
  <2>1. seen[c] = LOCK => retries[c] > 0
    BY <1>1, <1>2 DEF OnceInv, Decided
  <2> QED
    BY <2>1, OnceTypes DEF MayClaim
<1>4. session = token[c] /\ cache[session].val = None /\ \A d \in Active : token[d] = session
  BY <1>1, <1>2, <1>3 DEF OnceInv, Decided, SameToken
<1>5. Fresh
  <2>1. ASSUME NEW g \in Active, Claimed(g) \/ Granted(g)
        PROVE  FALSE
    <3>1. ~Granted(g)
      BY <1>4, OnceTypes, ValuesDiffer DEF Granted
    <3> QED
      BY <1>4, <2>1, <3>1, LockIsNotNone DEF Claimed
  <2> QED
    BY <2>1 DEF OnceInv, Phase
<1>6. (\A d \in Callers \ {c} : pc'[d] = pc[d]) /\ pc'[c] = "send"
  BY DEF RefreshInv, TypeOK
<1>7. Active' = Active
  BY <1>1, <1>6 DEF Active, Ended
<1>8. /\ cache'[session].val = LOCK /\ cache'[session].ttl = LockTTL
      /\ \A u \in Tokens \ {session} : cache'[u] = cache[u]
  <2>1. session \in Tokens /\ Stores(session, LOCK, LockTTL)
    BY <1>2, <1>4
  <2> HIDE DEF Claim
  <2> QED
    BY <2>1, StoresSmooth
<1>9. \A d \in Callers \ {c} : pc[d] # "check"
  <2>1. mutex[Machine[c]] = c
    BY <1>1, <1>2 DEF OnceInv, Decided
  <2> QED
    BY <2>1, OneDecides
<1>10. SameToken'
  BY <1>1, <1>7 DEF OnceInv, SameToken
<1>11. Decided'
  BY <1>6, <1>7, <1>9 DEF OnceInv, Decided, Active
<1>12. Late'
  BY <1>1, <1>4, <1>7, OnceTypes DEF Late
<1>13. Future'
  BY <1>1, <1>8, OnceTypes DEF OnceInv, Future
<1>14. Timers'
  <2>1. \A d \in Callers : pc'[d] \in {pc[d], "send"} /\ (pc[d] = "sleep" => pc'[d] = "sleep")
    BY <1>1, <1>6
  <2> QED
    BY <1>1, <2>1 DEF OnceInv, Timers, Waiting
<1>15. Claimed(c)'
  <2>1. held[c] = 0
    BY <1>1 DEF OnceInv, Timers
  <2>2. cache'[session].ttl + held'[c] >= LockTTL
    BY <1>1, <1>8, <2>1, SmoothTimes
  <2>3. live' = session' /\ window'[session'] = 0
    BY <1>1, <1>5 DEF Fresh
  <2>4. ASSUME NEW d \in Active' \ {c}
        PROVE  /\ pc'[d] \in Waiting /\ held'[c] + sleep'[d] + retries'[d] >= LockTTL
               /\ pc'[d] # "check"
    <3>1. d \in Active /\ d \in Callers \ {c} /\ pc'[d] = pc[d]
      BY <1>6, <1>7 DEF Active
    <3>2. pc[d] \in Waiting /\ retries[d] = LockTTL /\ sleep[d] = 0
      BY <1>4, <1>5, <3>1 DEF Fresh
    <3> QED
      BY <1>1, <1>9, <2>1, <3>1, <3>2, SmoothTimes
  <2> QED
    BY <1>1, <1>6, <1>8, <2>2, <2>3, <2>4 DEF Claimed
<1>16. Phase'
  BY <1>1, <1>2, <1>4, <1>7, <1>15 DEF Phase
<1> QED
  BY <1>10, <1>11, <1>12, <1>13, <1>14, <1>16 DEF OnceInv

\* The caller with the LOCK goes on with it.
LEMMA GrantOnce ==
    ASSUME Smooth, RefreshInv, RefreshInv', OnceInv, NEW c \in Callers, Send(c) \/ OpGrants(c)
    PROVE  OnceInv'
<1> USE DEF Send, OpGrants, timers, cacheVars
<1>1. /\ pc[c] \in {"send", "sent"} /\ token[c] \in Tokens
      /\ UNCHANGED <<cache, session, mutex, token, age, held, valid, seen, sleep, retries>>
  BY DEF RefreshInv, Progress
<1>2. c \in Active /\ token[c] = session /\ Claimed(c) /\ \A d \in Active : token[d] = session
  BY <1>1, Granter
<1>3. /\ \A d \in Callers \ {c} : pc'[d] = pc[d]
      /\ \/ pc'[c] = "sent" /\ live' = live /\ pc[c] = "send"
         \/ pc'[c] = "granted" /\ live' = live + 1 /\ pc[c] = "sent"
      /\ \A t \in Tokens \ {session} : window'[t] = window[t]
  BY <1>1, <1>2 DEF RefreshInv, TypeOK, Smooth
<1>4. Active' = Active
  BY <1>1, <1>3 DEF Active, Ended
<1>5. SameToken'
  BY <1>1, <1>4 DEF OnceInv, SameToken
<1>6. Decided'
  BY <1>1, <1>3, <1>4 DEF OnceInv, Decided, Active
<1>7. Late'
  BY <1>1, <1>2, <1>4, OnceTypes DEF Late
<1>8. Future'
  BY <1>1, <1>3, OnceTypes DEF OnceInv, Future
<1>9. Timers'
  <2>1. \A d \in Callers : pc'[d] = pc[d] \/ (pc'[d] \notin Waiting \cup {"idle"} /\ pc[d] # "sleep")
    BY <1>1, <1>3 DEF Waiting
  <2> QED
    BY <1>1, <2>1 DEF OnceInv, Timers
<1>10. Claimed(c)'
  <2>1. \A d \in Active' \ {c} : pc'[d] = pc[d] /\ d \in Active \ {c}
    BY <1>3, <1>4 DEF Active
  <2>2. \/ pc'[c] \in {"send", "sent"} /\ live' = session
        \/ pc'[c] = "granted" /\ live' = session + 1
    BY <1>2, <1>3 DEF Claimed
  <2>3. pc'[c] # "send"
    BY <1>3
  <2> QED
    BY <1>1, <1>2, <2>1, <2>2, <2>3 DEF Claimed
<1>11. Phase'
  BY <1>1, <1>2, <1>4, <1>10 DEF Phase
<1> QED
  BY <1>5, <1>6, <1>7, <1>8, <1>9, <1>11 DEF OnceInv

\* Nobody is refused or dies.
LEMMA NeverRefused ==
    ASSUME Smooth, RefreshInv, OnceInv, NEW c \in Callers,
           OpRefuses(c) \/ Recheck(c) \/ Recover(c) \/ MarkFailed(c) \/ Crash(c)
    PROVE  FALSE
<1>1. ~Crash(c)
  BY DEF Crash, Smooth
<1>2. ~(Recheck(c) \/ Recover(c) \/ MarkFailed(c))
  <2> SUFFICES ASSUME pc[c] \in {"refused", "recheck"}
               PROVE  FALSE
    BY DEF Recheck, Recover, MarkFailed
  <2>1. c \in Active
    BY DEF Active, Ended
  <2> QED
    BY <2>1 DEF OnceInv, Decided, Waiting
<1>3. ~OpRefuses(c)
  <2> SUFFICES ASSUME OpRefuses(c)
               PROVE  FALSE
    OBVIOUS
  <2>1. pc[c] = "sent" /\ token[c] # live
    BY DEF OpRefuses, Smooth
  <2> QED
    BY <2>1, Granter DEF Claimed
<1> QED
  BY <1>1, <1>2, <1>3

\* The result replaces the LOCK.
LEMMA CacheResultOnce ==
    ASSUME Smooth, RefreshInv, OnceInv, NEW c \in Callers, CacheResult(c)
    PROVE  OnceInv'
<1> USE DEF CacheResult, timers
<1>1. /\ pc[c] = "granted" /\ token[c] \in Tokens /\ result[c] \in Tokens /\ result[c] = token[c] + 1
      /\ UNCHANGED <<session, live, mutex, token, age, held, valid, seen, sleep, retries, window>>
  BY DEF RefreshInv, Progress, HeldGenuine
<1>2. c \in Active /\ token[c] = session /\ Claimed(c) /\ \A d \in Active : token[d] = session
  BY <1>1, Granter
<1>3. (\A d \in Callers \ {c} : pc'[d] = pc[d]) /\ pc'[c] = "save"
  BY DEF RefreshInv, TypeOK
<1>4. Active' = Active
  BY <1>1, <1>3 DEF Active, Ended
<1>5. /\ cache'[session].val = result[c] /\ cache'[session].ttl = CacheTTL
      /\ \A u \in Tokens \ {session} : cache'[u] = cache[u]
  <2>1. session \in Tokens /\ Stores(session, result[c], CacheTTL)
    BY <1>1, <1>2 DEF CachedToken
  <2> HIDE DEF CacheResult
  <2> QED
    BY <2>1, StoresSmooth
<1>6. live = session + 1 /\ result[c] = live
  BY <1>1, <1>2 DEF Claimed
<1>7. SameToken'
  BY <1>1, <1>4 DEF OnceInv, SameToken
<1>8. Decided'
  <2>1. ASSUME NEW d \in Active, pc'[d] = "check"
        PROVE  d \in Active \ {c} /\ pc[d] = "check" /\ seen[d] = LOCK
    BY <1>2, <1>3, <2>1 DEF Claimed, Active
  <2>2. \A d \in Active : pc'[d] = "check" => seen[d] # None
    BY <2>1, LockIsNotNone
  <2>3. \A d \in Active : pc'[d] \in Waiting \cup {"send", "sent", "granted", "save"}
    BY <1>3 DEF OnceInv, Decided, Active
  <2> QED
    BY <1>1, <1>4, <2>1, <2>2, <2>3 DEF OnceInv, Decided
<1>9. Late'
  BY <1>1, <1>2, <1>4, OnceTypes DEF Late
<1>10. Future'
  BY <1>1, <1>5, OnceTypes DEF OnceInv, Future
<1>11. Timers'
  <2>1. \A d \in Callers : pc'[d] = pc[d] \/ (pc'[d] \notin Waiting \cup {"idle"} /\ pc[d] # "sleep")
    BY <1>1, <1>3 DEF Waiting
  <2> QED
    BY <1>1, <2>1 DEF OnceInv, Timers
<1>12. Granted(c)'
  <2>1. cache'[session].ttl + age[c] >= CacheTTL
    BY <1>5, OnceTypes, SmoothTimes
  <2>2. \A d \in Active' : pc'[d] \in Waiting \cup {"save"}
    BY <1>2, <1>3, <1>4 DEF Claimed, Active
  <2> QED
    BY <1>1, <1>3, <1>5, <1>6, <2>1, <2>2 DEF Granted
<1>13. Phase'
  BY <1>1, <1>2, <1>4, <1>12 DEF Phase
<1> QED
  BY <1>7, <1>8, <1>9, <1>10, <1>11, <1>13 DEF OnceInv

\* The first save replaces the token of the session, the later ones repeat it.
LEMMA SaveOnce ==
    ASSUME Smooth, RefreshInv, OnceInv, NEW c \in Callers, Save(c)
    PROVE  OnceInv'
<1> USE DEF Save, timers, cacheVars
<1>1. /\ pc[c] = "save" /\ token[c] \in Tokens /\ result[c] = token[c] + 1
      /\ session' = result[c] /\ valid' = AccessTTL /\ result[c] \in Tokens
      /\ UNCHANGED <<cache, live, mutex, token, age, held, seen, sleep, retries, window>>
  BY DEF RefreshInv, Progress, HeldGenuine
<1>2. (\A d \in Callers \ {c} : pc'[d] = pc[d]) /\ pc'[c] = "done"
  BY DEF RefreshInv, TypeOK
<1>3. c \in Active /\ Active' = Active \ {c} /\ \A d \in Active' : d \in Callers /\ pc'[d] = pc[d]
  BY <1>1, <1>2 DEF Active, Ended
<1>4. \A d \in Active : token[d] = token[c]
  BY <1>3 DEF OnceInv, SameToken
<1>5. token[c] \in Int /\ session' = token[c] + 1 /\ session \in {token[c], token[c] + 1}
  BY <1>1, <1>3, ActiveToken DEF OnceInv, SameToken
<1>6. ASSUME NEW d \in Active'
      PROVE  /\ Pause(d)' = Pause(d) /\ Pause(d) \in Int /\ Pause(d) <= 1 /\ age[d] \in Int /\ age[d] >= 0
             /\ valid' + age'[d] + 1 >= AccessTTL + Pause(d)'
  <2>1. Pause(d)' = Pause(d)
    BY <1>1, <1>3 DEF Pause
  <2>2. Pause(d) \in Int /\ Pause(d) <= 1 /\ age[d] \in Int /\ age[d] >= 0 /\ age'[d] = age[d]
    BY <1>1, <1>3, PauseType, OnceTypes
  <2> HIDE DEF Save
  <2> QED
    BY <1>1, <2>1, <2>2, SmoothTimes
<1> HIDE DEF Save
<1>7. SameToken'
  BY <1>1, <1>3, <1>4, <1>5 DEF SameToken
<1>8. Timers'
  <2>1. \A d \in Callers : pc'[d] = pc[d] \/ (pc'[d] \notin Waiting \cup {"idle"} /\ pc[d] # "sleep")
    BY <1>1, <1>2 DEF Waiting
  <2> QED
    BY <1>1, <2>1 DEF OnceInv, Timers
<1>9. Future'
  <2>1. \A t \in Tokens : t > session' => t > session
    BY <1>5, OnceTypes
  <2> QED
    BY <1>1, <2>1 DEF OnceInv, Future
<1>10. CASE session = token[c]
  <2>1. PICK g \in Active : token[g] = session /\ Granted(g)
    BY <1>1, <1>3, <1>10 DEF OnceInv, Phase, Fresh, Claimed, Waiting
  <2>2. live = session' /\ session' > session /\ session' \in Tokens
    BY <1>1, <1>5, <1>10, <2>1 DEF Granted
  <2>3. cache[token[c]].val = session'
    BY <1>10, <2>1, <2>2 DEF Granted
  <2>4. \A d \in Active' : pc'[d] # "check" \/ seen'[d] # None
    <3>1. cache[token[c]].val # None
      BY <2>2, <2>3, ValuesDiffer
    <3> QED
      BY <1>1, <1>3, <1>4, <3>1 DEF OnceInv, Decided
  <2>5. Decided'
    BY <1>1, <1>3, <2>4 DEF OnceInv, Decided
  <2>6. Fresh'
    <3>1. cache[session'].val = None /\ window[session'] = 0
      BY <2>2 DEF OnceInv, Future
    <3>2. \A d \in Active' : token'[d] # session'
      BY <1>1, <1>3, <1>4, <1>5
    <3> QED
      BY <1>1, <2>2, <3>1, <3>2 DEF Fresh
  <2>7. Late'
    <3> SUFFICES ASSUME NEW d \in Active'
                 PROVE  /\ pc'[d] \in Waiting \cup {"save"}
                        /\ cache'[token'[d]].val = session'
                        /\ cache'[token'[d]].ttl + age'[d] + RequestBound + 1 >= CacheTTL + Pause(d)'
                        /\ valid' + age'[d] + 1 >= AccessTTL + Pause(d)'
      BY DEF Late
    <3>1. pc'[d] \in Waiting \cup {"save"}
      BY <1>3, <2>1 DEF Granted
    <3>2. cache'[token'[d]] = cache[session] /\ age'[d] = age[d]
      BY <1>1, <1>3, <1>4, <1>10
    <3>3. /\ cache[session].ttl + age[g] >= CacheTTL /\ cache[session].ttl \in Int
          /\ age[g] \in Int /\ age[g] <= RequestBound
      BY <2>1, ActiveToken, OnceTypes DEF Granted
    <3>4. cache[session].ttl + age[d] + RequestBound + 1 >= CacheTTL + Pause(d)
      BY <1>6, <3>3, SmoothTimes
    <3> QED
      BY <1>3, <1>4, <1>6, <1>10, <2>3, <3>1, <3>2, <3>4
  <2> QED
    BY <1>7, <1>8, <1>9, <2>5, <2>6, <2>7 DEF OnceInv, Phase
<1>11. CASE session = token[c] + 1
  <2>1. session' = session /\ \A d \in Active : token[d] # session
    BY <1>4, <1>5, <1>11
  <2>2. Fresh
    BY <2>1 DEF OnceInv, Phase
  <2>3. Fresh'
    BY <1>1, <1>3, <2>1, <2>2 DEF Fresh
  <2>4. Decided'
    BY <1>1, <1>3, <2>1 DEF OnceInv, Decided
  <2>5. Late'
    <3> SUFFICES ASSUME NEW d \in Active'
                 PROVE  /\ pc'[d] \in Waiting \cup {"save"}
                        /\ cache'[token'[d]].val = session'
                        /\ cache'[token'[d]].ttl + age'[d] + RequestBound + 1 >= CacheTTL + Pause(d)'
                        /\ valid' + age'[d] + 1 >= AccessTTL + Pause(d)'
      BY DEF Late
    <3>1. /\ pc[d] \in Waiting \cup {"save"} /\ cache[token[d]].val = session
          /\ cache[token[d]].ttl + age[d] + RequestBound + 1 >= CacheTTL + Pause(d)
      BY <1>3, <1>4, <1>11 DEF OnceInv, Late
    <3> QED
      BY <1>1, <1>3, <1>6, <2>1, <3>1
  <2> QED
    BY <1>7, <1>8, <1>9, <2>3, <2>4, <2>5 DEF OnceInv, Phase
<1> QED
  BY <1>5, <1>10, <1>11

\* A caller loads the session when nobody has an older one any more.
LEMMA LoadOnce ==
    ASSUME Smooth, RefreshInv, OnceInv, NEW c \in Callers, Load(c)
    PROVE  OnceInv'
<1> USE DEF Load, timers
<1>1. /\ pc[c] = "idle" /\ valid = 0
      /\ UNCHANGED <<cache, session, live, mutex, age, held, seen, sleep, window, valid>>
  OBVIOUS
<1>2. /\ \A d \in Callers \ {c} : pc'[d] = pc[d] /\ token'[d] = token[d] /\ retries'[d] = retries[d]
      /\ pc'[c] = "lock" /\ pc'[c] \in Waiting /\ token'[c] = session /\ retries'[c] = LockTTL
  BY DEF RefreshInv, TypeOK, Waiting
<1> HIDE DEF Load
<1>3. /\ c \notin Active /\ Active' = Active \cup {c}
      /\ \A d \in Active : d \in Callers \ {c}
  BY <1>1, <1>2 DEF Active, Ended
<1>4. ASSUME NEW d \in Active
      PROVE  token[d] = session
  <2> SUFFICES ASSUME session = token[d] + 1
               PROVE  FALSE
    BY DEF OnceInv, SameToken
  <2>1. valid + age[d] + 1 >= AccessTTL + Pause(d)
    BY DEF OnceInv, Late
  <2>2. Pause(d) \in Int /\ Pause(d) >= 0 /\ age[d] \in Int /\ age[d] <= RequestBound
    BY <1>3, PauseType, OnceTypes
  <2> QED
    BY <1>1, <2>1, <2>2, SmoothTimes
<1>5. \A d \in Active' : token'[d] = session
  BY <1>2, <1>3, <1>4
<1>6. sleep[c] = 0 /\ held[c] = 0
  BY <1>1, OnceTypes DEF OnceInv, Timers
<1>7. SameToken'
  BY <1>1, <1>5 DEF SameToken
<1>8. Late'
  BY <1>1, <1>5, OnceTypes DEF Late
<1>9. Future'
  BY <1>1 DEF OnceInv, Future
<1>10. Decided'
  <2> SUFFICES ASSUME NEW d \in Active'
               PROVE  /\ pc'[d] \in Waiting \cup {"send", "sent", "granted", "save"}
                      /\ pc'[d] = "check" => mutex[Machine[d]] = d
                      /\ pc'[d] = "check" /\ seen[d] = LOCK => retries'[d] > 0
                      /\ pc'[d] = "check" /\ seen[d] = None
                            => session = token'[d] /\ cache[token'[d]].val = None
    BY <1>1 DEF Decided
  <2>1. CASE d = c
    BY <1>2, <2>1
  <2>2. CASE d \in Active
    BY <1>2, <1>3, <2>2 DEF OnceInv, Decided
  <2> QED
    BY <1>3, <2>1, <2>2
<1>11. Timers'
  <2>1. \A d \in Callers \ {c} : pc'[d] = pc[d]
    BY <1>2
  <2>2. ASSUME NEW d \in Callers
        PROVE  (pc'[d] \in Waiting \cup {"idle"} => held[d] = 0) /\ (sleep[d] > 0 => pc'[d] = "sleep")
    <3>1. CASE d = c
      BY <1>6, <3>1
    <3>2. CASE d # c
      BY <2>1, <3>2 DEF OnceInv, Timers
    <3> QED
      BY <3>1, <3>2
  <2> QED
    BY <1>1, <2>2 DEF Timers
<1>12. Phase'
  <2>1. CASE Fresh
    <3>1. ASSUME NEW d \in Active'
          PROVE  /\ pc'[d] \in Waiting /\ retries'[d] = LockTTL /\ sleep[d] = 0
                 /\ pc'[d] = "check" => seen[d] = None
      <4>1. CASE d = c
        BY <1>2, <1>6, <4>1
      <4>2. CASE d \in Active
        BY <1>2, <1>3, <1>4, <2>1, <4>2 DEF Fresh
      <4> QED
        BY <1>3, <4>1, <4>2
    <3>2. Fresh'
      BY <1>1, <2>1, <3>1 DEF Fresh
    <3> QED
      BY <3>2 DEF Phase
  <2>2. ASSUME NEW g \in Active, token[g] = session, Claimed(g) \/ Granted(g)
        PROVE  Phase'
    <3>1. g # c /\ g \in Active' /\ g \in Callers /\ pc'[g] = pc[g] /\ token'[g] = session'
      BY <1>1, <1>2, <1>3, <2>2
    <3>2. CASE Claimed(g)
      <4>1. ASSUME NEW d \in Active' \ {g}
            PROVE  /\ pc'[d] \in Waiting /\ held[g] + sleep[d] + retries'[d] >= LockTTL
                   /\ pc'[d] = "check" => seen[d] = LOCK
        <5>1. CASE d = c
          BY <1>2, <1>6, <3>1, <5>1, OnceTypes, SmoothTimes
        <5>2. CASE d \in Active
          BY <1>2, <1>3, <3>2, <4>1, <5>2 DEF Claimed
        <5> QED
          BY <1>3, <4>1, <5>1, <5>2
      <4>2. Claimed(g)'
        BY <1>1, <3>1, <3>2, <4>1 DEF Claimed
      <4> QED
        BY <3>1, <4>2 DEF Phase
    <3>3. CASE Granted(g)
      <4>1. \A d \in Active' : pc'[d] \in Waiting \cup {"save"}
        BY <1>2, <1>3, <3>3 DEF Granted
      <4>2. Granted(g)'
        BY <1>1, <3>1, <3>3, <4>1 DEF Granted
      <4> QED
        BY <3>1, <4>2 DEF Phase
    <3> QED
      BY <2>2, <3>2, <3>3
  <2> QED
    BY <2>1, <2>2 DEF OnceInv, Phase
<1> QED
  BY <1>7, <1>8, <1>9, <1>10, <1>11, <1>12 DEF OnceInv

\* What half a second does to one token and one caller.
LEMMA TickToken ==
    ASSUME RefreshInv, Tick, NEW t \in Tokens
    PROVE  /\ cache[t].ttl > 1 => cache'[t].val = cache[t].val /\ cache'[t].ttl = cache[t].ttl - 1
           /\ cache[t].val = None => cache'[t].val = None
           /\ window[t] = 0 => window'[t] = 0
<1>1. cache'[t] = IF cache[t].ttl <= 1 THEN Empty ELSE [cache[t] EXCEPT !.ttl = @ - 1]
  BY DEF Tick
<1>2. cache[t] \in [val : CacheValues, ttl : 0..(LockTTL + CacheTTL)] /\ cache[t].ttl \in Int
  BY OnceTypes DEF RefreshInv, TypeOK
<1>3. window'[t] = Less(window[t])
  BY DEF Tick
<1>4. CASE cache[t].ttl <= 1
  BY <1>1, <1>2, <1>3, <1>4 DEF Empty, Less
<1>5. CASE ~(cache[t].ttl <= 1)
  BY <1>1, <1>2, <1>3, <1>5 DEF Less
<1> QED
  BY <1>4, <1>5

\* The same for one caller.
LEMMA TickCaller ==
    ASSUME RefreshInv, OnceInv, Tick, NEW c \in Callers
    PROVE  /\ sleep'[c] = 0 /\ (sleep[c] > 0 => sleep[c] = 1 /\ pc[c] = "sleep" /\ Pause(c) = 1)
           /\ pc[c] \in Granting => held[c] < GrantBound /\ held'[c] = held[c] + 1
           /\ pc[c] \notin Granting => held'[c] = 0
           /\ c \in Active /\ sleep[c] = 0 => /\ age[c] < RequestBound /\ age'[c] = age[c] + 1
                                              /\ Pause(c)' = Pause(c)
           /\ c \in Active /\ sleep[c] > 0 => age'[c] = age[c] /\ Pause(c)' = 0
<1>1. sleep[c] \in Int /\ sleep[c] >= 0 /\ sleep[c] <= 1 /\ (sleep[c] > 0 => pc[c] = "sleep")
  BY OnceTypes DEF OnceInv, Timers
<1>2. UNCHANGED <<pc, seen>> /\ sleep'[c] = Less(sleep[c]) /\ InTime(c)
  BY DEF Tick
<1>3. sleep'[c] = 0
  BY <1>1, <1>2 DEF Less
<1>4. sleep[c] > 0 => sleep[c] = 1 /\ pc[c] = "sleep" /\ Pause(c) = 1
  BY <1>1 DEF Pause
<1>5. /\ pc[c] \in Granting => held[c] < GrantBound /\ held'[c] = held[c] + 1
      /\ pc[c] \notin Granting => held'[c] = 0
  BY <1>2 DEF Tick, InTime
<1>6. age'[c] = IF Running(c) THEN age[c] + 1 ELSE IF pc[c] \in Ended THEN 0 ELSE age[c]
  BY DEF Tick
<1>7. ASSUME c \in Active, sleep[c] = 0
      PROVE  age[c] < RequestBound /\ age'[c] = age[c] + 1 /\ Pause(c)' = Pause(c)
  <2>1. Running(c)
    BY <1>7 DEF Running, Active
  <2> QED
    BY <1>2, <1>3, <1>6, <1>7, <2>1 DEF InTime, Pause
<1>8. ASSUME c \in Active, sleep[c] > 0
      PROVE  age'[c] = age[c] /\ Pause(c)' = 0
  <2>1. ~Running(c) /\ pc[c] \notin Ended /\ pc[c] # "check"
    BY <1>1, <1>8 DEF Running, Active
  <2> QED
    BY <1>2, <1>3, <1>6, <2>1 DEF Pause
<1> QED
  BY <1>3, <1>4, <1>5, <1>7, <1>8

\* Half a second passes.
LEMMA TickOnce ==
    ASSUME Smooth, RefreshInv, OnceInv, Tick
    PROVE  OnceInv'
<1>1. UNCHANGED <<mutex, session, live, pc, token, seen, retries, result>> /\ valid' = Less(valid)
  BY DEF Tick
<1>2. Active' = Active /\ \A c \in Active : c \in Callers
  BY <1>1 DEF Active
<1>3. SameToken'
  BY <1>1, <1>2 DEF OnceInv, SameToken
<1>4. Decided'
  BY <1>1, <1>2, ActiveToken, TickToken DEF OnceInv, Decided
<1>5. Future'
  BY <1>1, TickToken DEF OnceInv, Future
<1>6. Timers'
  <2>1. \A c \in Callers : sleep'[c] = 0 /\ (pc[c] \in Waiting \cup {"idle"} => held'[c] = 0)
    BY TickCaller DEF Waiting, Granting
  <2> QED
    BY <1>1, <2>1 DEF Timers
<1>7. Late'
  <2> SUFFICES ASSUME NEW c \in Active, session = token[c] + 1
               PROVE  /\ pc[c] \in Waiting \cup {"save"}
                      /\ cache'[token[c]].val = session
                      /\ cache'[token[c]].ttl + age'[c] + RequestBound + 1 >= CacheTTL + Pause(c)'
                      /\ valid' + age'[c] + 1 >= AccessTTL + Pause(c)'
    BY <1>1, <1>2 DEF Late
  <2>1. c \in Callers /\ token[c] \in Tokens
    BY ActiveToken
  <2>2. /\ pc[c] \in Waiting \cup {"save"} /\ cache[token[c]].val = session
        /\ cache[token[c]].ttl + age[c] + RequestBound + 1 >= CacheTTL + Pause(c)
        /\ valid + age[c] + 1 >= AccessTTL + Pause(c)
    BY DEF OnceInv, Late
  <2>3. /\ age[c] \in Int /\ age[c] <= RequestBound /\ cache[token[c]].ttl \in Int /\ valid \in Int
        /\ Pause(c) \in Int /\ Pause(c) >= 0
        /\ (sleep[c] = 0 \/ sleep[c] > 0)
    BY <2>1, OnceTypes, PauseType
  <2>4. /\ sleep[c] = 0 => age[c] < RequestBound /\ age'[c] = age[c] + 1 /\ Pause(c)' = Pause(c)
        /\ sleep[c] > 0 => age'[c] = age[c] /\ Pause(c)' = 0 /\ Pause(c) = 1
    BY <2>1, TickCaller
  <2>5. cache[token[c]].ttl > 1 /\ valid > 0
    BY <2>2, <2>3, <2>4, SmoothTimes
  <2>6. /\ cache'[token[c]].val = cache[token[c]].val /\ cache'[token[c]].ttl = cache[token[c]].ttl - 1
        /\ valid' = valid - 1
    BY <1>1, <2>1, <2>5, TickToken DEF Less
  <2>7. CASE sleep[c] = 0
    BY <2>2, <2>3, <2>4, <2>6, <2>7, SmoothTimes
  <2>8. CASE sleep[c] > 0
    BY <2>2, <2>3, <2>4, <2>6, <2>8, SmoothTimes
  <2> QED
    BY <2>3, <2>7, <2>8
<1>8. Phase'
  <2>0. session \in Tokens /\ cache[session].ttl \in Int
    BY OnceTypes
  <2>1. CASE Fresh
    <3>1. cache'[session].val = None /\ window'[session] = 0
      BY <2>0, <2>1, TickToken DEF Fresh
    <3>2. \A c \in Active : sleep'[c] = 0
      BY <1>2, TickCaller
    <3>3. Fresh'
      BY <1>1, <1>2, <2>1, <3>1, <3>2 DEF Fresh
    <3> QED
      BY <3>3 DEF Phase
  <2>2. ASSUME NEW g \in Active, token[g] = session, Claimed(g)
        PROVE  Phase'
    <3>1. g \in Callers /\ pc[g] \in Granting
      BY <1>2, <2>2 DEF Claimed, Granting
    <3>2. held[g] < GrantBound /\ held'[g] = held[g] + 1 /\ held[g] \in Int
      BY <3>1, TickCaller, OnceTypes
    <3>3. cache[session].ttl + held[g] >= LockTTL
      BY <2>2 DEF Claimed
    <3>4. cache[session].ttl > 1
      BY <2>0, <3>2, <3>3, SmoothTimes
    <3>5. cache'[session].val = LOCK /\ cache'[session].ttl = cache[session].ttl - 1
      BY <2>0, <2>2, <3>4, TickToken DEF Claimed
    <3>6. cache'[session].ttl + held'[g] >= LockTTL
      BY <2>0, <3>2, <3>3, <3>5, SmoothTimes
    <3>7. window[session] = 0 => window'[session] = 0
      BY <2>0, TickToken
    <3>8. ASSUME NEW d \in Active \ {g}
          PROVE  held'[g] + sleep'[d] + retries[d] >= LockTTL
      <4>1. d \in Callers /\ held[g] + sleep[d] + retries[d] >= LockTTL
        BY <1>2, <2>2 DEF Claimed
      <4>2. sleep[d] \in Int /\ sleep[d] <= 1 /\ sleep'[d] = 0 /\ retries[d] \in Int
        BY <4>1, OnceTypes, TickCaller
      <4> QED
        BY <3>2, <4>1, <4>2, SmoothTimes
    <3>9. Claimed(g)'
      BY <1>1, <1>2, <2>2, <3>5, <3>6, <3>7, <3>8 DEF Claimed
    <3> QED
      BY <1>1, <1>2, <2>2, <3>9 DEF Phase
  <2>3. ASSUME NEW g \in Active, token[g] = session, Granted(g)
        PROVE  Phase'
    <3>1. g \in Callers /\ sleep[g] = 0
      BY <1>2, <2>3, TickCaller, OnceTypes DEF Granted
    <3>2. age[g] < RequestBound /\ age'[g] = age[g] + 1 /\ age[g] \in Int
      BY <3>1, TickCaller, OnceTypes
    <3>3. cache[session].ttl + age[g] >= CacheTTL
      BY <2>3 DEF Granted
    <3>4. cache[session].ttl > 1
      BY <2>0, <3>2, <3>3, SmoothTimes
    <3>5. cache'[session].val = live /\ cache'[session].ttl = cache[session].ttl - 1
      BY <2>0, <2>3, <3>4, TickToken DEF Granted
    <3>6. cache'[session].ttl + age'[g] >= CacheTTL
      BY <2>0, <3>2, <3>3, <3>5, SmoothTimes
    <3>7. Granted(g)'
      BY <1>1, <1>2, <2>3, <3>5, <3>6 DEF Granted
    <3> QED
      BY <1>1, <1>2, <2>3, <3>7 DEF Phase
  <2> QED
    BY <2>1, <2>2, <2>3 DEF OnceInv, Phase
<1> QED
  BY <1>3, <1>4, <1>5, <1>6, <1>7, <1>8 DEF OnceInv

\* Nobody loads the session without refreshing it.
LEMMA NoCopies ==
    ASSUME Smooth, OnceInv, NEW c \in Callers
    PROVE  ~Pass(c) /\ ~SaveCopy(c)
  BY DEF Smooth, OnceInv, Decided, Active, Waiting, Ended, Pass, SaveCopy

\* Every step preserves the invariant where nothing fails.
LEMMA OnceStep ==
    ASSUME Smooth, RefreshInv, RefreshInv', OnceInv, [Next]_vars
    PROVE  OnceInv'
<1>1. CASE Tick
  BY <1>1, TickOnce
<1>2. ASSUME NEW c \in Callers, Load(c) \/ Pass(c) \/ Step(c) \/ Answer(c) \/ Crash(c)
      PROVE  OnceInv'
  BY <1>2, LoadOnce, NoCopies, LockReadOnce, BackoffOnce, WakeOnce, LeaveOnce, ClaimOnce, GrantOnce,
     NeverRefused, CacheResultOnce, SaveOnce DEF Step, Answer
<1>3. CASE UNCHANGED vars
  BY <1>3 DEF vars, OnceInv, SameToken, Decided, Late, Future, Phase, Timers, Fresh, Claimed, Granted,
     Active, Pause
<1> QED
  BY <1>1, <1>2, <1>3 DEF Next

\* The invariant holds in every behaviour where nothing fails.
THEOREM OnceInvariance ==
    ASSUME Smooth
    PROVE  Spec => []OnceInv
<1>1. RefreshInv /\ RefreshInv' /\ OnceInv /\ [Next]_vars => OnceInv'
  BY OnceStep
<1> QED
  BY <1>1, OnceInit, RefreshInvariance, PTL DEF Spec

\* A refresh token is never presented to the OP a second time, however the
\* requests of the session interleave: the LOCK value and refresh_mutex of
\* oidc_refresh_token_cache_get do what they are for, on one machine and with
\* lifetimes that exceed the times of a grant and of a request.
THEOREM AlwaysPresentedOnce ==
    ASSUME Smooth
    PROVE  Spec => PresentedOnce
<1>1. ASSUME RefreshInv, OnceInv, NEW c \in Callers, pc[c] = "send"
      PROVE  window[token[c]] = 0
  BY <1>1, Granter DEF Claimed
<1>2. RefreshInv /\ OnceInv /\ [Next]_vars
        => [\A c \in Callers : pc[c] = "send" /\ pc'[c] = "sent" => window[token[c]] = 0]_vars
  BY <1>1
<1> QED
  BY <1>2, RefreshInvariance, OnceInvariance, PTL DEF Spec, PresentedOnce

-----------------------------------------------------------------------------
(* How long a refresh takes, whatever fails.                                 *)

\* The refresh_mutex of a machine is held by a caller that is about to
\* decide, and by no other: it is free, or its holder gives it back with its
\* next step.  A caller that sleeps has used a poll.
MutexSound ==
    /\ \A m \in Machines : mutex[m] # Nobody => Machine[mutex[m]] = m /\ pc[mutex[m]] = "check"
    /\ \A c \in Callers : pc[c] = "check" => mutex[Machine[c]] = c
    /\ \A c \in Callers : pc[c] = "sleep" => retries[c] < LockTTL

\* The steps that a caller takes at most before its refresh has ended: three
\* for each poll that is left, then a grant of its own that fails.
Rank == [idle |-> 0, done |-> 0, failed |-> 0, dead |-> 0, save |-> 1, pass |-> 1, granted |-> 2,
         recheck |-> 2, refused |-> 3, sent |-> 4, send |-> 5, check |-> 6, lock |-> 7, sleep |-> 8]
StepsToEnd(c) == Rank[pc[c]] + (IF pc[c] \in Waiting THEN 3 * retries[c] ELSE 0)

WaitBound ==
    \A c \in Callers :
        /\ StepsToEnd(c) \in 0..(3 * LockTTL + 7)
        /\ StepsToEnd(c) = 0 <=> pc[c] \in Ended \cup {"idle"}

\* Each step of a caller is one of these, the OP's answer and the death of its
\* process too, and no step of another caller adds to them.
CallerAdvances ==
    \A c \in Callers :
        pc[c] # "idle" => UNCHANGED <<pc[c], retries[c]>> \/ StepsToEnd(c)' < StepsToEnd(c)

\* What a step of caller c does to the places, the polls and the mutexes: it
\* is the only one that moves, and takes, gives back or leaves a mutex.
Moves(c) ==
    /\ pc' = [pc EXCEPT ![c] = pc'[c]]
    /\ \A d \in Callers \ {c} : retries'[d] = retries[d]
    /\ mutex' \in {mutex, [mutex EXCEPT ![Machine[c]] = c], [mutex EXCEPT ![Machine[c]] = Nobody]}

\* The moves of a caller, one by one.
LEMMA MovesOf ==
    ASSUME TypeOK, NEW c \in Callers, Load(c) \/ Pass(c) \/ Step(c) \/ Answer(c) \/ Crash(c)
    PROVE  /\ Moves(c)
           /\ \/ /\ pc[c] = "idle" /\ pc'[c] = "lock" /\ mutex' = mutex /\ retries'[c] = LockTTL
              \/ /\ pc[c] = "idle" /\ pc'[c] = "pass" /\ mutex' = mutex /\ retries'[c] = retries[c]
              \/ /\ pc[c] = "lock" /\ pc'[c] = "check" /\ retries'[c] = retries[c]
                 /\ mutex[Machine[c]] = Nobody /\ mutex' = [mutex EXCEPT ![Machine[c]] = c]
              \/ /\ pc[c] = "check" /\ mutex' = [mutex EXCEPT ![Machine[c]] = Nobody]
                 /\ \/ pc'[c] = "sleep" /\ retries[c] > 0 /\ retries'[c] = retries[c] - 1
                    \/ pc'[c] \in {"failed", "save", "send"} /\ retries'[c] = retries[c]
              \/ /\ <<pc[c], pc'[c]>> \in {<<"sleep", "lock">>, <<"send", "sent">>, <<"sent", "granted">>,
                       <<"sent", "refused">>, <<"granted", "save">>, <<"refused", "recheck">>,
                       <<"recheck", "save">>, <<"recheck", "failed">>, <<"save", "done">>, <<"pass", "done">>}
                 /\ mutex' = mutex /\ retries'[c] = retries[c]
              \/ /\ pc[c] \in {"lock", "sleep", "send", "sent", "granted", "refused", "recheck", "save"}
                 /\ pc'[c] = "dead" /\ mutex' = mutex /\ retries'[c] = retries[c]
<1>0. /\ pc \in [Callers -> Waiting \cup Granting \cup Ended \cup {"idle", "save", "pass"}]
      /\ retries \in [Callers -> 0..LockTTL] /\ DOMAIN mutex = Machines
  BY DEF TypeOK
<1>1. CASE Load(c)
  BY <1>0, <1>1 DEF Load, Moves
<1>2. CASE LockRead(c)
  BY <1>0, <1>2 DEF LockRead, Moves
<1>3. CASE Backoff(c)
  BY <1>0, <1>3 DEF Backoff, Unlocked, Moves
<1>8. CASE Pass(c) \/ SaveCopy(c)
  BY <1>0, <1>8 DEF Pass, SaveCopy, Moves
<1>4. CASE Wake(c) \/ Send(c) \/ CacheResult(c) \/ Recheck(c) \/ Recover(c) \/ MarkFailed(c) \/ Save(c)
  BY <1>0, <1>4 DEF Wake, Send, CacheResult, Recheck, Recover, MarkFailed, Save, Moves
<1>5. CASE Abort(c) \/ UseCached(c) \/ Claim(c)
  BY <1>0, <1>5 DEF Abort, UseCached, Claim, Unlocked, Moves
<1>6. CASE OpGrants(c) \/ OpRefuses(c)
  BY <1>0, <1>6 DEF OpGrants, OpRefuses, Moves
<1>7. CASE Crash(c)
  BY <1>0, <1>7 DEF Crash, Moves
<1> QED
  BY <1>1, <1>2, <1>3, <1>4, <1>5, <1>6, <1>7, <1>8 DEF Step, Answer

\* Before the first request no mutex is held.
LEMMA MutexInit == Init => MutexSound
BY DEF Init, MutexSound

\* A step of one caller keeps the mutexes sound.
LEMMA MutexCallerStep ==
    ASSUME TypeOK, TypeOK', MutexSound, NEW c \in Callers, Load(c) \/ Pass(c) \/ Step(c) \/ Answer(c) \/ Crash(c)
    PROVE  MutexSound'
<1> USE CallersAssumption, MachineOf
<1>0. /\ pc \in [Callers -> Waiting \cup Granting \cup Ended \cup {"idle", "save", "pass"}]
      /\ retries \in [Callers -> 0..LockTTL] /\ mutex \in [Machines -> Callers \cup {Nobody}]
  BY DEF TypeOK
<1>1. \A d \in Callers : d # c => pc'[d] = pc[d] /\ retries'[d] = retries[d]
  BY <1>0, MovesOf DEF Moves
<1>2. CASE mutex' = mutex /\ pc[c] # "check" /\ pc'[c] # "check"
  <2>1. pc'[c] = "sleep" => FALSE
    BY <1>2, MovesOf
  <2> QED
    BY <1>0, <1>1, <1>2, <2>1 DEF MutexSound
<1>3. CASE /\ pc[c] = "lock" /\ pc'[c] = "check" /\ retries'[c] = retries[c]
           /\ mutex[Machine[c]] = Nobody /\ mutex' = [mutex EXCEPT ![Machine[c]] = c]
  BY <1>0, <1>1, <1>3 DEF MutexSound
<1>4. CASE /\ pc[c] = "check" /\ mutex' = [mutex EXCEPT ![Machine[c]] = Nobody] /\ pc'[c] # "check"
  <2>1. ASSUME pc'[c] = "sleep" PROVE retries'[c] < LockTTL
    <3>1. retries'[c] = retries[c] - 1
      BY <1>4, <2>1, MovesOf
    <3>2. PICK l, r \in Nat : l = LockTTL /\ r = retries[c] /\ r <= l
      BY <1>0, TTLAssumption
    <3> QED
      BY <3>1, <3>2
  <2> QED
    BY <1>0, <1>1, <1>4, <2>1 DEF MutexSound
<1> QED
  BY <1>2, <1>3, <1>4, MovesOf

\* The mutexes stay sound.
LEMMA MutexStep == ASSUME TypeOK, TypeOK', MutexSound, [Next]_vars PROVE MutexSound'
<1>1. CASE Tick \/ UNCHANGED vars
  BY <1>1 DEF Tick, vars, MutexSound
<1> QED
  BY <1>1, MutexCallerStep DEF Next

\* The steps to the end, place by place.
StepsByPlace(c) ==
    /\ pc[c] \in Ended \cup {"idle"} => StepsToEnd(c) = 0
    /\ pc[c] \in {"save", "pass"} => StepsToEnd(c) = 1
    /\ pc[c] \in {"granted", "recheck"} => StepsToEnd(c) = 2
    /\ pc[c] = "refused" => StepsToEnd(c) = 3
    /\ pc[c] = "sent" => StepsToEnd(c) = 4
    /\ pc[c] = "send" => StepsToEnd(c) = 5
    /\ pc[c] = "check" => StepsToEnd(c) = 6 + 3 * retries[c]
    /\ pc[c] = "lock" => StepsToEnd(c) = 7 + 3 * retries[c]
    /\ pc[c] = "sleep" => StepsToEnd(c) = 8 + 3 * retries[c]

\* So they are, now and after a step.
LEMMA StepsAt == ASSUME NEW c \in Callers PROVE StepsByPlace(c) /\ StepsByPlace(c)'
BY DEF StepsByPlace, StepsToEnd, Rank, Waiting, Ended

\* The bound holds at every moment.
LEMMA WaitBounded == ASSUME TypeOK, MutexSound PROVE WaitBound
<1> SUFFICES ASSUME NEW c \in Callers
             PROVE  /\ StepsToEnd(c) \in 0..(3 * LockTTL + 7)
                    /\ StepsToEnd(c) = 0 <=> pc[c] \in Ended \cup {"idle"}
  BY DEF WaitBound
<1>1. PICK l, r \in Nat : l = LockTTL /\ r = retries[c] /\ r <= l /\ (pc[c] = "sleep" => r < l)
  BY TTLAssumption DEF TypeOK, MutexSound
<1>2. pc[c] \in Waiting \cup Granting \cup Ended \cup {"idle", "save", "pass"}
  BY DEF TypeOK
<1>3. StepsByPlace(c)
  BY StepsAt
<1>4. 1 <= l
  BY <1>1, TTLAssumption
<1>5. CASE pc[c] \in Ended \cup {"idle"}
  BY <1>1, <1>3, <1>5 DEF StepsByPlace
<1>6. CASE pc[c] \in Granting \cup {"save", "pass"}
  BY <1>1, <1>3, <1>4, <1>6 DEF StepsByPlace, Granting, Ended
<1>7. CASE pc[c] \in Waiting
  <2>1. pc[c] \notin Ended \cup {"idle"}
    BY <1>7 DEF Waiting, Ended
  <2>2. PICK k \in {6, 7, 8} : StepsToEnd(c) = k + 3 * r /\ (k = 8 => r < l)
    BY <1>1, <1>3, <1>7 DEF StepsByPlace, Waiting
  <2>3. k + 3 * r \in 0..(3 * l + 7) /\ k + 3 * r # 0
    BY <1>1, <2>2
  <2> QED
    BY <1>1, <2>1, <2>2, <2>3
<1> QED
  BY <1>2, <1>5, <1>6, <1>7

\* A step of a caller is one less to take.
LEMMA StepCounts ==
    ASSUME TypeOK, TypeOK', NEW c \in Callers, Load(c) \/ Pass(c) \/ Step(c) \/ Answer(c) \/ Crash(c), pc[c] # "idle"
    PROVE  StepsToEnd(c)' < StepsToEnd(c)
<1>1. PICK r, s \in Nat : r = retries[c] /\ s = retries'[c]
  BY TTLAssumption DEF TypeOK
<1>2. PICK m, n : m = StepsToEnd(c) /\ n = StepsToEnd(c)'
  OBVIOUS
<1>3. PICK p, q : p = pc[c] /\ q = pc'[c]
  OBVIOUS
<1>4. /\ q \in Ended \cup {"idle"} => n = 0
      /\ q \in {"save", "pass"} => n = 1
      /\ q \in {"granted", "recheck"} => n = 2
      /\ q = "refused" => n = 3
      /\ q = "sent" => n = 4
      /\ q = "send" => n = 5
      /\ q = "check" => n = 6 + 3 * s
      /\ q = "lock" => n = 7 + 3 * s
      /\ q = "sleep" => n = 8 + 3 * s
  BY <1>1, <1>2, <1>3, StepsAt DEF StepsByPlace
<1>5. /\ p \in {"save", "pass"} => m = 1
      /\ p \in {"granted", "recheck"} => m = 2
      /\ p = "refused" => m = 3
      /\ p = "sent" => m = 4
      /\ p = "send" => m = 5
      /\ p = "check" => m = 6 + 3 * r
      /\ p = "lock" => m = 7 + 3 * r
      /\ p = "sleep" => m = 8 + 3 * r
  BY <1>1, <1>2, <1>3, StepsAt DEF StepsByPlace
<1>6. \/ p = "lock" /\ q = "check" /\ s = r
      \/ p = "check" /\ \/ q = "sleep" /\ r > 0 /\ s = r - 1
                        \/ q \in {"failed", "save", "send"} /\ s = r
      \/ /\ <<p, q>> \in {<<"sleep", "lock">>, <<"send", "sent">>, <<"sent", "granted">>,
               <<"sent", "refused">>, <<"granted", "save">>, <<"refused", "recheck">>,
               <<"recheck", "save">>, <<"recheck", "failed">>, <<"save", "done">>, <<"pass", "done">>}
         /\ s = r
      \/ /\ p \in {"lock", "sleep", "send", "sent", "granted", "refused", "recheck", "save"}
         /\ q = "dead"
  BY <1>1, <1>3, MovesOf
<1>7. n < m
  BY <1>4, <1>5, <1>6 DEF Ended
<1> QED
  BY <1>2, <1>7

\* Each step is the step of one caller, or of the clock.
LEMMA StepAdvances == ASSUME TypeOK, TypeOK', [Next]_vars PROVE CallerAdvances
<1>1. CASE Tick \/ UNCHANGED vars
  BY <1>1 DEF Tick, vars, CallerAdvances
<1>2. ASSUME NEW c \in Callers, Load(c) \/ Pass(c) \/ Step(c) \/ Answer(c) \/ Crash(c) PROVE CallerAdvances
  <2>1. \A d \in Callers \ {c} : pc'[d] = pc[d] /\ retries'[d] = retries[d]
    BY <1>2, MovesOf DEF Moves, TypeOK
  <2> QED
    BY <1>2, <2>1, StepCounts DEF CallerAdvances
<1> QED
  BY <1>1, <1>2 DEF Next

\* Whatever fails, a refresh (oidc_refresh_token_grant) ends after at most
\* 3 * LockTTL + 7 steps of its caller, the polls of
\* oidc_refresh_token_cache_get included: every step is one less to take, and
\* no other caller adds to them.  Nobody waits for a mutex whose holder sleeps,
\* waits for the OP or is dead.  With the fairness that is assumed this is why
\* EveryoneEnds holds.
THEOREM RefreshIsBounded == Spec => []MutexSound /\ []WaitBound /\ [][CallerAdvances]_vars
<1>1. Init => MutexSound
  BY MutexInit
<1>2. TypeOK /\ TypeOK' /\ MutexSound /\ [Next]_vars => MutexSound'
  BY MutexStep
<1>3. TypeOK /\ MutexSound => WaitBound
  BY WaitBounded
<1>4. TypeOK /\ TypeOK' /\ [Next]_vars => [CallerAdvances]_vars
  BY StepAdvances
<1> QED
  BY <1>1, <1>2, <1>3, <1>4, RefreshTypeCorrect, PTL DEF Spec
=============================================================================
