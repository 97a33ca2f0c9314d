----------------------------- MODULE KeyRollover -----------------------------
(***************************************************************************)
(* Verification of signed tokens with the keys that the OP publishes in    *)
(* its JWKS document (proto/jwt.c, proto/jwks.c, metadata/jwks.c).         *)
(* Requests share one cached copy of the document and a marker that limits *)
(* how often an unknown key may force a new download.  The OP replaces its *)
(* key from time to time; tokens name their key (kid) or do not, and some  *)
(* are signed with a key that the OP never had.                            *)
(*                                                                         *)
(* The document is the set of its keys.  Keys are numbers, the OP's key at *)
(* any time is opKey, 0 is a stranger's key, and the kid of a published    *)
(* key is its number.  Lifetimes are stored as the time that is left.      *)
(***************************************************************************)
EXTENDS Integers, FiniteSetsExt

CONSTANTS
    Verifiers,         \* the requests that verify a token
    MaxKey,            \* bound: keys that the OP uses, one after the other
    RefreshInterval,   \* lifetime of the cached document
    ForcedInterval,    \* lifetime of the marker, 0 switches it off
    FetchBound,        \* bound: the longest download
    StaticKeys,        \* keys configured in the server
    NoKid,             \* the kid of a token that has none
    KeyFaults          \* faults that happen, of {"fetch", "cache"}

ASSUME KeyAssumption ==
    /\ MaxKey \in Nat \ {0} /\ RefreshInterval \in Nat \ {0}
    /\ ForcedInterval \in Nat /\ FetchBound \in Nat
    /\ StaticKeys \subseteq 0 .. MaxKey
    /\ KeyFaults \subseteq {"fetch", "cache"}
    /\ IsFiniteSet(Verifiers)

VARIABLES
    opKey,        \* the key that the OP signs with and publishes
    keyAge,       \* for each key: time since the OP replaced it
    currentFor,   \* time since opKey was introduced
    settled,      \* opKey was cached when no older document was on its way
    cached,       \* the cached document: its keys and time left, 0 is absent
    marker,       \* time left of the forced-refresh marker
    forcedCount,  \* forced downloads begun while a marker was there
    faulted,      \* a download or a cache call has failed
    vstate        \* per request: where it is and what it has

keyVars == <<opKey, keyAge, currentFor, settled, cached, marker, forcedCount,
             faulted, vstate>>

Keys == 0 .. MaxKey

\* The longest times that the properties tell apart.
AgeCap == RefreshInterval + FetchBound
CurrentCap == FetchBound + 1

Steps == {"idle", "lookup", "throttle", "stamp", "fetch", "store", "fallback",
          "accepted", "rejected"}

KeyTypeOK ==
    /\ opKey \in 1 .. MaxKey
    /\ keyAge \in [Keys -> -1 .. AgeCap]
    /\ currentFor \in 0 .. CurrentCap
    /\ settled \in BOOLEAN
    /\ cached \in [keys : SUBSET Keys, left : 0 .. RefreshInterval]
    /\ marker \in 0 .. ForcedInterval
    /\ forcedCount \in 0 .. 2 * Cardinality(Verifiers) + 1
    /\ faulted \in BOOLEAN
    /\ vstate \in [Verifiers -> [pc : Steps, key : Keys, kid : Keys \cup {NoKid},
                                 refresh : BOOLEAN, attempted : BOOLEAN, again : BOOLEAN,
                                 doc : SUBSET Keys,
                                 spent : 0 .. FetchBound]]

\* refresh is the in-out parameter of oidc_metadata_jwks_get, attempted its
\* forced_refresh_attempted, again the second attempt of oidc_proto_jwt_verify.
Idle == [pc |-> "idle", key |-> 0, kid |-> NoKid, refresh |-> FALSE, attempted |-> FALSE,
         again |-> FALSE, doc |-> {}, spent |-> 0]

KeyInit ==
    /\ opKey = 1
    /\ keyAge = [k \in Keys |-> -1]
    /\ currentFor = CurrentCap
    /\ settled = TRUE
    /\ cached = [keys |-> {}, left |-> 0]
    /\ marker = 0
    /\ forcedCount = 0
    /\ faulted = FALSE
    /\ vstate = [v \in Verifiers |-> Idle]

Become(v, st) == vstate' = [vstate EXCEPT ![v] = st]
Op == <<opKey, keyAge, currentFor>>
Env == <<Op, settled>>

-----------------------------------------------------------------------------
(* What a request does with a document that it has: the steps between two   *)
(* accesses to the cache or the OP (oidc_proto_jwks_uri_keys and the rest   *)
(* of oidc_proto_jwt_verify).                                               *)

(* With a kid the key of that name, without one every key of the document.  *)
Matching(st, doc) == IF st.kid = NoKid THEN doc ELSE doc \cap {st.kid}

(* oidc_jwt_verify: with a kid the key of that name must have made the      *)
(* signature, without one any of the keys.                                  *)
SignatureVerifies(st, keys) ==
    /\ st.key \in keys \cup StaticKeys
    /\ st.kid \in {NoKid, st.key}

(* Without a kid the keys may be stale, so that a failure forces a refresh, *)
(* once.                                                                    *)
Verified(st, keys) ==
    IF SignatureVerifies(st, keys) THEN [st EXCEPT !.pc = "accepted"]
    ELSE IF st.kid = NoKid /\ ~st.again
           THEN [st EXCEPT !.pc = "throttle", !.again = TRUE, !.refresh = TRUE]
           ELSE [st EXCEPT !.pc = "rejected"]

(* No key was found and the document was not downloaded: force a refresh,   *)
(* which the recursive call makes.                                          *)
ObtainedUnmarked(st, doc) ==
    IF Matching(st, doc) = {} /\ ~st.refresh
      THEN [st EXCEPT !.pc = "throttle"]
      ELSE Verified(st, Matching(st, doc))

ObtainedCachedOnly(st, doc) == Verified(st, Matching(st, doc))

Obtained(st, doc) ==
    IF Matching(st, doc) = {} /\ ~st.refresh
      THEN [st EXCEPT !.pc = "throttle", !.refresh = TRUE]
      ELSE Verified(st, Matching(st, doc))

(* No document could be obtained: oidc_proto_jwt_verify gives up, except in *)
(* its second attempt, where it goes on with the static keys.               *)
NotObtained(st) == IF st.again THEN Verified(st, {}) ELSE [st EXCEPT !.pc = "rejected"]

-----------------------------------------------------------------------------
(* oidc_metadata_jwks_get and what it calls                                 *)

CacheWorks == UNCHANGED faulted
CacheFails == "cache" \in KeyFaults /\ faulted' = TRUE

\* The download of a document that is not in the cache.
Download(st) == [st EXCEPT !.pc = "fetch", !.refresh = TRUE, !.attempted = FALSE]

(* A request starts to verify a token of the OP, or of a stranger, who may  *)
(* put any kid in it.                                                       *)
Present(v) ==
    /\ vstate[v].pc = "idle"
    /\ \E k \in 0 .. opKey :
       \E kid \in {NoKid, k} \cup (IF k = 0 THEN {opKey} ELSE {}) :
          Become(v, [Idle EXCEPT !.pc = "lookup", !.key = k, !.kid = kid])
    /\ UNCHANGED <<Env, cached, marker, forcedCount, faulted>>

(* The document is looked up in the cache and downloaded if it is not there.*)
Lookup(v) ==
    LET st == vstate[v] IN
    /\ st.pc = "lookup"
    /\ \/ /\ CacheWorks
          /\ Become(v, IF cached.left > 0 THEN Obtained(st, cached.keys) ELSE Download(st))
       \/ CacheFails /\ Become(v, Download(st))
    /\ UNCHANGED <<Env, cached, marker, forcedCount>>

(* Was a refresh forced a short while ago?  A failing lookup says yes.      *)
ThrottleUnread(v) ==
    LET st == vstate[v] IN
    /\ st.pc = "throttle"
    /\ CacheWorks
    /\ Become(v, [st EXCEPT !.pc = "stamp", !.attempted = TRUE])
    /\ UNCHANGED <<Env, cached, marker, forcedCount>>

Throttle(v) ==
    LET st == [vstate[v] EXCEPT !.attempted = TRUE] IN
    /\ st.pc = "throttle"
    /\ \/ /\ CacheWorks
          /\ Become(v, [st EXCEPT !.pc = IF ForcedInterval # 0 /\ marker > 0
                                           THEN "fallback" ELSE "stamp"])
       \/ /\ CacheFails /\ ForcedInterval # 0
          /\ Become(v, [st EXCEPT !.pc = "fallback"])
    /\ UNCHANGED <<Env, cached, marker, forcedCount>>

(* The marker is stored before the download, which is not made when it      *)
(* cannot be stored.                                                        *)
Stamp(v) ==
    LET st == vstate[v] IN
    /\ st.pc = "stamp"
    /\ \/ /\ CacheWorks
          /\ marker' = ForcedInterval
          /\ forcedCount' = IF ForcedInterval = 0 THEN 0 ELSE forcedCount + 1
          /\ Become(v, [st EXCEPT !.pc = "fetch"])
       \/ /\ CacheFails /\ ForcedInterval # 0
          /\ Become(v, [st EXCEPT !.pc = "fallback"])
          /\ UNCHANGED <<marker, forcedCount>>
    /\ UNCHANGED <<Env, cached>>

(* The OP answers with the document of this moment, or the download fails.  *)
(* Only a forced download has something to fall back on.                    *)
Fetch(v) ==
    LET st == vstate[v] IN
    /\ st.pc = "fetch"
    /\ \/ /\ Become(v, [st EXCEPT !.pc = "store", !.doc = {opKey}])
          /\ UNCHANGED faulted
       \/ /\ "fetch" \in KeyFaults /\ faulted' = TRUE
          /\ Become(v, IF st.attempted THEN [st EXCEPT !.pc = "fallback", !.spent = 0]
                                       ELSE NotObtained([st EXCEPT !.spent = 0]))
    /\ UNCHANGED <<Env, cached, marker, forcedCount>>

(* The downloaded document is cached.  A failing set is not looked at.      *)
StoreForever(v) ==
    LET st == vstate[v] IN
    /\ st.pc = "store"
    /\ CacheWorks
    /\ UNCHANGED settled
    /\ cached' = [keys |-> st.doc \cup cached.keys, left |-> RefreshInterval]
    /\ Become(v, Obtained([st EXCEPT !.spent = 0, !.doc = {}], st.doc))
    /\ UNCHANGED <<Op, marker, forcedCount>>

Store(v) ==
    LET st == vstate[v] IN
    /\ st.pc = "store"
    /\ \/ /\ CacheWorks
          /\ cached' = [keys |-> st.doc, left |-> RefreshInterval]
          /\ settled' = (settled \/ currentFor = CurrentCap)
       \/ CacheFails /\ UNCHANGED <<cached, settled>>
    /\ Become(v, Obtained([st EXCEPT !.spent = 0, !.doc = {}], st.doc))
    /\ UNCHANGED <<Op, marker, forcedCount>>

(* A forced refresh that was not made or that failed falls back to the      *)
(* cached document, and never to another download.                          *)
Fallback(v) ==
    LET st == vstate[v] IN
    /\ st.pc = "fallback"
    /\ \/ /\ CacheWorks
          /\ Become(v, IF cached.left > 0 THEN Obtained(st, cached.keys) ELSE NotObtained(st))
       \/ CacheFails /\ Become(v, NotObtained(st))
    /\ UNCHANGED <<Env, cached, marker, forcedCount>>

(* The verdict was used, the request ends.                                  *)
Conclude(v) ==
    /\ vstate[v].pc \in {"accepted", "rejected"}
    /\ Become(v, Idle)
    /\ UNCHANGED <<Env, cached, marker, forcedCount, faulted>>

-----------------------------------------------------------------------------
(* The OP and the clock.  Only downloads take time, up to FetchBound each.  *)

Rollover ==
    /\ opKey < MaxKey
    /\ opKey' = opKey + 1
    /\ keyAge' = [keyAge EXCEPT ![opKey] = 0]
    /\ currentFor' = 0
    /\ settled' = FALSE
    /\ UNCHANGED <<cached, marker, forcedCount, faulted, vstate>>

Downloading(v) == vstate[v].pc \in {"fetch", "store"}

KeyTick ==
    /\ \A v \in Verifiers : \/ vstate[v].pc = "idle"
                            \/ Downloading(v) /\ vstate[v].spent < FetchBound
    /\ keyAge' = [k \in Keys |-> IF keyAge[k] >= 0 THEN Min({keyAge[k] + 1, AgeCap}) ELSE -1]
    /\ currentFor' = Min({currentFor + 1, CurrentCap})
    /\ cached' = IF cached.left <= 1 THEN [keys |-> {}, left |-> 0]
                                     ELSE [cached EXCEPT !.left = @ - 1]
    /\ marker' = IF marker > 0 THEN marker - 1 ELSE 0
    /\ forcedCount' = IF marker <= 1 THEN 0 ELSE forcedCount
    /\ vstate' = [v \in Verifiers |->
                    IF Downloading(v) THEN [vstate[v] EXCEPT !.spent = @ + 1] ELSE vstate[v]]
    /\ UNCHANGED <<opKey, settled, faulted>>

KeyWork(v) ==
    \/ Lookup(v) \/ Throttle(v) \/ Stamp(v) \/ Fetch(v) \/ Store(v)
    \/ Fallback(v) \/ Conclude(v)

KeyNext == \/ Rollover
           \/ KeyTick
           \/ \E v \in Verifiers : Present(v) \/ KeyWork(v)

KeySpec == KeyInit /\ [][KeyNext]_keyVars

-----------------------------------------------------------------------------
(* Properties                                                               *)

\* A key that the OP has withdrawn is not accepted for longer than the
\* lifetime of a document that was downloaded just before, whatever other
\* requests store and force meanwhile: no fallback, retry or late store
\* prolongs the life of a document.
WithdrawnKeyEnds ==
    \A v \in Verifiers :
        LET k == vstate[v].key IN
        (vstate[v].pc = "accepted" /\ k \notin StaticKeys)
            => k # 0 /\ keyAge[k] < RefreshInterval + FetchBound

\* A rollover is noticed through the unknown key, not only when the cached
\* document expires.  While no call fails, a token of the OP's current key is
\* refused only because another request has forced a download a short while
\* ago, and not any more once the new document was stored when no download of
\* an older one was under way, which would put the older one back.
RefusesCurrent(v) ==
    /\ vstate[v].pc # "rejected" /\ vstate'[v].pc = "rejected"
    /\ vstate[v].key = opKey /\ vstate[v].kid \in {NoKid, opKey}

RolloverNoticed ==
    [][\A v \in Verifiers : RefusesCurrent(v) /\ ~faulted' => marker > 0 /\ ~settled]_keyVars

\* Tokens with unknown keys do not each cause a download: while a marker is
\* there no more downloads are forced than requests were checking for it at
\* the same time.
ForcedBounded == forcedCount <= Cardinality(Verifiers)

\* An upper bound on the steps that request state st is away from its verdict.
StepsLeft(st) ==
    LET round == [p \in Steps |-> CASE p = "lookup" -> 5 [] p = "throttle" -> 4 [] p = "stamp" -> 3
                                   [] p = "fetch" -> 2 [] p \in {"store", "fallback"} -> 1
                                   [] OTHER -> 0]
    IN  round[st.pc] + (IF st.refresh THEN 0 ELSE 6) + (IF st.again THEN 0 ELSE 6)

\* The recursion of oidc_proto_jwks_uri_keys and the second attempt of
\* oidc_proto_jwt_verify end: whatever the OP publishes, the cache loses and
\* other requests store meanwhile, every step brings the verdict nearer.
VerdictNears ==
    [][\A v \in Verifiers :
         vstate'[v].pc # vstate[v].pc /\ vstate[v].pc \notin {"idle", "accepted", "rejected"}
            => StepsLeft(vstate'[v]) < StepsLeft(vstate[v])]_keyVars

\* The price of caching keys is bounded on both sides: how long a withdrawn
\* key lives, and how often the OP is asked.
KeysBounded == WithdrawnKeyEnds /\ ForcedBounded

\* Every step of the verification nears a verdict, and a verdict on a new
\* key comes after the OP was asked.
LookupSound == RolloverNoticed /\ VerdictNears
=============================================================================
