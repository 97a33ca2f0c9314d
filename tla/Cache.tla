------------------------------- MODULE Cache -------------------------------
(***************************************************************************)
(* What a cache backend of mod_auth_openidc promises to its callers        *)
(* (oidc_cache_t in cache/cache.h): a bounded map from keys to values with *)
(* an expiry, in which every get, set and delete takes effect at one       *)
(* moment between its call and its return.  When the map is full a set of  *)
(* a new key drops one entry: an expired one if there is one, else one     *)
(* that was used least recently.  ShmCache implements this specification.  *)
(***************************************************************************)
EXTENDS Naturals, FiniteSets

CONSTANTS
    Clients,    \* the requests that use the cache concurrently
    Keys,       \* "<section>:<key>" strings
    TooLong,    \* the keys that the backend refuses
    Values,     \* the strings that are stored
    TooBig,     \* the values that the backend refuses
    Capacity,   \* the number of entries that fit
    TTLs,       \* the lifetimes that callers ask for
    MaxTime,    \* bound: the clock stays in 0..MaxTime
    NoKey,      \* the key of no request
    NoValue     \* the NULL pointer returned for a miss

VARIABLES
    store,      \* Keys -> an entry, or NoEntry
    now,        \* the wall clock
    phase,      \* per client: "idle", "pending" or "done"
    req,        \* per client: the request that is under way
    clock,      \* per client: a reading of the clock made by the request
    reply       \* per client: what the request returned

vars == <<store, now, phase, req, clock, reply>>

NoEntry == [value |-> NoValue, expires |-> 0, access |-> 0, present |-> FALSE]
Entry(v, e, a) == [value |-> v, expires |-> e, access |-> a, present |-> TRUE]
NoReply == [status |-> "none", value |-> NoValue]
NoRequest == [type |-> "none", key |-> NoKey, value |-> NoValue, expiry |-> 0]

Present == {k \in Keys : store[k].present}
Stale(t) == {k \in Present : store[k].expires <= t}
LeastRecent == {k \in Present : \A l \in Present : store[k].access <= store[l].access}

(***************************************************************************)
(* The requests: get, set (with an expiry that the caller computed from    *)
(* the clock) and delete (a set of the NULL value).                        *)
(***************************************************************************)
Requests ==
    [type : {"get", "del"}, key : Keys, value : {NoValue}, expiry : {0}]
        \cup [type : {"set"}, key : Keys, value : Values, expiry : {now + t : t \in TTLs}]

Accepted(r) == r.key \notin TooLong /\ r.value \notin TooBig

Init ==
    /\ store = [k \in Keys |-> NoEntry]
    /\ now = 0
    /\ phase = [c \in Clients |-> "idle"]
    /\ req = [c \in Clients |-> NoRequest]
    /\ clock = [c \in Clients |-> 0]
    /\ reply = [c \in Clients |-> NoReply]

Answer(c, status, v) ==
    /\ phase' = [phase EXCEPT ![c] = "done"]
    /\ reply' = [reply EXCEPT ![c] = [status |-> status, value |-> v]]

Call(c) ==
    /\ phase[c] = "idle"
    /\ \E r \in Requests :
         /\ req' = [req EXCEPT ![c] = r]
         /\ IF Accepted(r)
            THEN phase' = [phase EXCEPT ![c] = "pending"] /\ UNCHANGED reply
            ELSE Answer(c, "rejected", NoValue)
    /\ UNCHANGED <<store, now, clock>>

(* A request may read the clock before it takes effect. *)
ReadClock(c) ==
    /\ phase[c] = "pending"
    /\ clock' = [clock EXCEPT ![c] = now]
    /\ UNCHANGED <<store, now, phase, req, reply>>

(* The lock cannot be obtained: nothing happens to the store. *)
Fail(c) ==
    /\ phase[c] = "pending"
    /\ Answer(c, "nolock", NoValue)
    /\ UNCHANGED <<store, now, req, clock>>

Get(c) ==
    /\ phase[c] = "pending" /\ req[c].type = "get"
    /\ LET e == store[req[c].key]
           live == e.present /\ e.expires > clock[c]
       IN  /\ store' = [store EXCEPT ![req[c].key] =
                            IF live THEN [e EXCEPT !.access = clock[c]] ELSE NoEntry]
           /\ Answer(c, "ok", IF live THEN e.value ELSE NoValue)
    /\ UNCHANGED <<now, req, clock>>

Delete(c) ==
    /\ phase[c] = "pending" /\ req[c].type = "del"
    /\ store' = [store EXCEPT ![req[c].key] = NoEntry]
    /\ Answer(c, "ok", NoValue)
    /\ UNCHANGED <<now, req, clock>>

(* A set never fails once it has the lock: a full store makes room for it. *)
Set(c) ==
    /\ phase[c] = "pending" /\ req[c].type = "set"
    /\ \E t \in {clock[c], now} :
         LET k == req[c].key
             e == Entry(req[c].value, req[c].expiry, t)
         IN  IF k \in Present \/ Cardinality(Present) < Capacity
             THEN store' = [store EXCEPT ![k] = e]
             ELSE \E v \in IF Stale(t) # {} THEN Stale(t) ELSE LeastRecent :
                    store' = [store EXCEPT ![v] = NoEntry, ![k] = e]
    /\ Answer(c, "ok", NoValue)
    /\ UNCHANGED <<now, req, clock>>

Return(c) ==
    /\ phase[c] = "done"
    /\ phase' = [phase EXCEPT ![c] = "idle"]
    /\ req' = [req EXCEPT ![c] = NoRequest]
    /\ reply' = [reply EXCEPT ![c] = NoReply]
    /\ clock' = [clock EXCEPT ![c] = 0]
    /\ UNCHANGED <<store, now>>

(* The wall clock moves, in either direction: it can be set back. *)
Tick ==
    /\ now' \in 0..MaxTime \ {now}
    /\ UNCHANGED <<store, phase, req, clock, reply>>

Next ==
    \/ Tick
    \/ \E c \in Clients :
         Call(c) \/ ReadClock(c) \/ Fail(c) \/ Get(c) \/ Delete(c) \/ Set(c) \/ Return(c)

Spec == Init /\ [][Next]_vars
=============================================================================
