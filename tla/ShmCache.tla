------------------------------ MODULE ShmCache ------------------------------
(***************************************************************************)
(* The shared-memory cache backend (cache/shm.c) and the cross-process     *)
(* mutex that protects it (cache/common.c).                                *)
(*                                                                         *)
(* The segment holds a fixed number of slots, linked through 1-based       *)
(* indexes into one free list and one chain per hash bucket (0 ends a      *)
(* list).  Apache workers call get, set and delete concurrently.  Each     *)
(* call hashes its key, takes the mutex, walks the chain of its bucket one *)
(* link at a time, changes the lists and releases the mutex.  The steps of *)
(* different workers interleave everywhere.                                *)
(***************************************************************************)
EXTENDS Naturals, FiniteSets

CONSTANTS
    Workers,    \* the processes and threads that use the segment
    NoWorker,   \* nobody holds the mutex
    Keys,       \* "<section>:<key>" strings
    TooLong,    \* the keys of OIDC_CACHE_SHM_KEY_MAX characters or more
    NoKey,      \* the empty section_key of a free slot
    Values,     \* the strings that callers store
    TooBig,     \* the values that do not fit in a slot
    NoValue,    \* the NULL value
    NSlots,     \* hdr->nslots (OIDCCacheShmMax)
    Buckets,    \* 0 .. hdr->nbuckets - 1
    Hash,       \* the bucket of a key: SipHash masked with nbuckets - 1
    TTLs,       \* the lifetimes that callers ask for
    MaxTime     \* bound: the clock stays in 0..MaxTime

Slots == 1..NSlots
Links == 0..NSlots

ASSUME WorkersAssumption == NoWorker \notin Workers
ASSUME KeysAssumption == NoKey \notin Keys /\ TooLong \subseteq Keys
ASSUME ValuesAssumption == NoValue \notin Values /\ TooBig \subseteq Values
ASSUME SlotsAssumption == NSlots \in Nat \ {0}
ASSUME HashAssumption == Hash \in [Keys -> Buckets]
ASSUME TimeAssumption == MaxTime \in Nat /\ TTLs \subseteq Nat

VARIABLES
    (* the segment *)
    free_head,      \* head of the free list
    bucket,         \* head of each bucket's chain
    section_key,    \* per slot: its key, NoKey when the slot is free
    access,         \* per slot: time of the last read or write
    expires,        \* per slot: expiry time
    next,           \* per slot: the next slot of its chain or of the free list
    value,          \* per slot: the stored string
    (* the mutex and the clock *)
    mutex,          \* the worker that holds the mutex, or NoWorker
    now,            \* apr_time_now()
    (* the locals of each worker's call *)
    pc,             \* where the call is
    op,             \* its arguments
    idx,            \* the slot the walk has reached
    prev,           \* the slot before it, 0 at the head of the chain
    victim,         \* the slot chosen for eviction
    time,           \* current_time
    res             \* what the call returns

segment == <<free_head, bucket, section_key, access, expires, next, value>>
locals == <<op, idx, prev, victim, time>>
vars == <<free_head, bucket, section_key, access, expires, next, value,
          mutex, now, pc, op, idx, prev, victim, time, res>>

NoOp == [type |-> "none", key |-> NoKey, value |-> NoValue, expiry |-> 0]
Result(status, v) == [status |-> status, value |-> v]
NoResult == Result("none", NoValue)

Ops == [type : {"none", "get", "set", "del"}, key : Keys \cup {NoKey},
        value : Values \cup {NoValue}, expiry : Nat]
Statuses == {"none", "ok", "rejected", "nolock", "noslot"}
Results == [status : Statuses, value : Values \cup {NoValue}]

(***************************************************************************)
(* oidc_cache_shm_post_config, before any worker runs: every slot is on    *)
(* the free list, every bucket is empty.                                   *)
(***************************************************************************)
InitialLinksUnended == [i \in Slots |-> i + 1]
InitialLinks == [i \in Slots |-> IF i < NSlots THEN i + 1 ELSE 0]

Init ==
    /\ free_head = 1
    /\ bucket = [b \in Buckets |-> 0]
    /\ section_key = [i \in Slots |-> NoKey]
    /\ access = [i \in Slots |-> 0]
    /\ expires = [i \in Slots |-> 0]
    /\ next = InitialLinks
    /\ value = [i \in Slots |-> NoValue]
    /\ mutex = NoWorker
    /\ now = 0
    /\ pc = [w \in Workers |-> "idle"]
    /\ op = [w \in Workers |-> NoOp]
    /\ idx = [w \in Workers |-> 0]
    /\ prev = [w \in Workers |-> 0]
    /\ victim = [w \in Workers |-> 0]
    /\ time = [w \in Workers |-> 0]
    /\ res = [w \in Workers |-> NoResult]

(***************************************************************************)
(* Entering a call.                                                        *)
(***************************************************************************)

(* get, delete (a set of NULL) and set, whose expiry the caller computes   *)
(* from the clock before it calls.                                         *)
Requests ==
    [type : {"get", "del"}, key : Keys, value : {NoValue}, expiry : {0}]
        \cup [type : {"set"}, key : Keys, value : Values, expiry : {now + t : t \in TTLs}]

(* The checks made before the mutex is taken: the length of the key and,   *)
(* for a set, the size of the value.                                       *)
Fits(o) == o.key \notin TooLong /\ o.value \notin TooBig

Call(w) ==
    /\ pc[w] = "idle"
    /\ \E o \in Requests :
         /\ op' = [op EXCEPT ![w] = o]
         /\ pc' = [pc EXCEPT ![w] = IF Fits(o) THEN "lock" ELSE "return"]
         /\ res' = [res EXCEPT ![w] = IF Fits(o) THEN NoResult ELSE Result("rejected", NoValue)]
    /\ UNCHANGED <<segment, mutex, now, idx, prev, victim, time>>

(* The mutex is granted.  The walk starts at the head of the key's bucket; *)
(* a get reads the clock here.                                             *)
Lock(w) ==
    /\ pc[w] = "lock" /\ mutex = NoWorker
    /\ mutex' = w
    /\ idx' = [idx EXCEPT ![w] = bucket[Hash[op[w].key]]]
    /\ prev' = [prev EXCEPT ![w] = 0]
    /\ time' = [time EXCEPT ![w] = IF op[w].type = "get" THEN now ELSE 0]
    /\ pc' = [pc EXCEPT ![w] = "find"]
    /\ UNCHANGED <<segment, now, op, victim, res>>

LockFailStep(w, target) ==
    /\ pc[w] = "lock"
    /\ pc' = [pc EXCEPT ![w] = target]
    /\ res' = [res EXCEPT ![w] = Result("nolock", NoValue)]
    /\ UNCHANGED <<segment, mutex, now, locals>>

LockFailIgnored(w) == LockFailStep(w, "find")

(* The mutex call returns an error: the call fails without the lock. *)
LockFail(w) == LockFailStep(w, "return")

(***************************************************************************)
(* oidc_cache_shm_find, one link per step.                                 *)
(***************************************************************************)
FindNext(w) ==
    /\ pc[w] = "find" /\ idx[w] # 0
    /\ section_key[idx[w]] # op[w].key
    /\ prev' = [prev EXCEPT ![w] = idx[w]]
    /\ idx' = [idx EXCEPT ![w] = next[idx[w]]]
    /\ UNCHANGED <<segment, mutex, now, pc, op, victim, time, res>>

Found(w, type) ==
    /\ pc[w] = "find" /\ op[w].type = type
    /\ idx[w] # 0 /\ section_key[idx[w]] = op[w].key

NotSearched(w) == pc[w] = "find" /\ (IF op[w].type = "set" THEN TRUE ELSE idx[w] = 0)
NotFound(w) == pc[w] = "find" /\ idx[w] = 0

(* The call has its result and goes on to release the mutex. *)
Finish(w, status, v) ==
    /\ pc' = [pc EXCEPT ![w] = "unlock"]
    /\ res' = [res EXCEPT ![w] = Result(status, v)]

(***************************************************************************)
(* The list operations.                                                    *)
(***************************************************************************)

(* Slot i, which follows p on chain b (p = 0: it is the head), leaves it.  *)
ChainWithout(p, i) == IF p # 0 THEN [next EXCEPT ![p] = next[i]] ELSE next
BucketWithoutAlways(p, i, b) == [bucket EXCEPT ![b] = next[i]]
BucketWithout(p, i, b) == IF p # 0 THEN bucket ELSE [bucket EXCEPT ![b] = next[i]]

(* oidc_cache_shm_slot_free: slot i, already unlinked, becomes the head of *)
(* the free list; its value and expiry stay behind.                        *)
SlotFreeKeepsLink(i, unlinked) ==
    /\ next' = unlinked
    /\ free_head' = i
    /\ section_key' = [section_key EXCEPT ![i] = NoKey]
    /\ access' = [access EXCEPT ![i] = 0]

SlotFree(i, unlinked) ==
    /\ next' = [unlinked EXCEPT ![i] = free_head]
    /\ free_head' = i
    /\ section_key' = [section_key EXCEPT ![i] = NoKey]
    /\ access' = [access EXCEPT ![i] = 0]

(* The entry that the walk has found is unlinked and freed. *)
Remove(w) ==
    /\ bucket' = BucketWithout(prev[w], idx[w], Hash[op[w].key])
    /\ SlotFree(idx[w], ChainWithout(prev[w], idx[w]))
    /\ UNCHANGED <<expires, value>>

(* oidc_cache_shm_entry_update *)
EntryUpdate(w, i, t) ==
    /\ value' = [value EXCEPT ![i] = op[w].value]
    /\ expires' = [expires EXCEPT ![i] = op[w].expiry]
    /\ access' = [access EXCEPT ![i] = t]

(* oidc_cache_shm_entry_insert: slot i, on no list, becomes the head of    *)
(* the bucket of the key that is set.                                      *)
EntryInsert(w, i, unlinked, heads, t) ==
    LET b == Hash[op[w].key]
    IN  /\ next' = [unlinked EXCEPT ![i] = heads[b]]
        /\ bucket' = [heads EXCEPT ![b] = i]
        /\ section_key' = [section_key EXCEPT ![i] = op[w].key]
        /\ EntryUpdate(w, i, t)

(***************************************************************************)
(* oidc_cache_shm_get and the delete of oidc_cache_shm_set.                *)
(***************************************************************************)
LiveAtExpiry(i, t) == expires[i] >= t
Live(i, t) == expires[i] > t

GetHit(w) ==
    /\ Found(w, "get") /\ Live(idx[w], time[w])
    /\ access' = [access EXCEPT ![idx[w]] = time[w]]
    /\ Finish(w, "ok", value[idx[w]])
    /\ UNCHANGED <<free_head, bucket, section_key, expires, next, value, mutex, now, locals>>

GetExpired(w) ==
    /\ Found(w, "get") /\ ~Live(idx[w], time[w])
    /\ Remove(w)
    /\ Finish(w, "ok", NoValue)
    /\ UNCHANGED <<mutex, now, locals>>

DelHit(w) ==
    /\ Found(w, "del")
    /\ Remove(w)
    /\ Finish(w, "ok", NoValue)
    /\ UNCHANGED <<mutex, now, locals>>

Miss(w) ==
    /\ NotFound(w) /\ op[w].type \in {"get", "del"}
    /\ Finish(w, "ok", NoValue)
    /\ UNCHANGED <<segment, mutex, now, locals>>

(***************************************************************************)
(* oidc_cache_shm_set: update in place, take a free slot, or evict.        *)
(***************************************************************************)
SetUpdate(w) ==
    /\ Found(w, "set")
    /\ EntryUpdate(w, idx[w], now)
    /\ Finish(w, "ok", NoValue)
    /\ UNCHANGED <<free_head, bucket, section_key, next, mutex, now, locals>>

SetFree(w) ==
    /\ NotFound(w) /\ op[w].type = "set" /\ free_head # 0
    /\ free_head' = next[free_head]
    /\ EntryInsert(w, free_head, next, bucket, now)
    /\ Finish(w, "ok", NoValue)
    /\ UNCHANGED <<mutex, now, locals>>

(* oidc_cache_shm_evict, the scan: the first expired slot, else the first  *)
(* of those with the oldest access; 0 when no slot is occupied.            *)
Occupied == {i \in Slots : section_key[i] # NoKey}
Expired(t) == {i \in Occupied : expires[i] <= t}
Oldest == {i \in Occupied : \A j \in Occupied : access[i] <= access[j]}
First(i, S) == i \in S /\ \A j \in S : i <= j

IsVictimLruOnly(v, t) ==
    IF Occupied = {} THEN v = 0 ELSE First(v, Oldest)

IsVictim(v, t) ==
    IF Occupied = {} THEN v = 0
    ELSE First(v, IF Expired(t) # {} THEN Expired(t) ELSE Oldest)

(* oidc_cache_shm_unlink starts at the head of the victim's own bucket. *)
UnlinkHeadOfNewKey(w, v) == IF v = 0 THEN 0 ELSE bucket[Hash[op[w].key]]
UnlinkHead(w, v) == IF v = 0 THEN 0 ELSE bucket[Hash[section_key[v]]]

(* The scan, and the start of the unlink walk. *)
EvictStart(w) ==
    /\ NotFound(w) /\ op[w].type = "set" /\ free_head = 0
    /\ \E v \in Links :
         /\ IsVictim(v, now)
         /\ victim' = [victim EXCEPT ![w] = v]
         /\ idx' = [idx EXCEPT ![w] = UnlinkHead(w, v)]
    /\ prev' = [prev EXCEPT ![w] = 0]
    /\ time' = [time EXCEPT ![w] = now]
    /\ pc' = [pc EXCEPT ![w] = "unlink"]
    /\ UNCHANGED <<segment, mutex, now, op, res>>

(* One link of the unlink walk; at the end of the chain the eviction has   *)
(* failed ("could not obtain a cache slot"), as it has without a victim.   *)
UnlinkNext(w) ==
    /\ pc[w] = "unlink" /\ (idx[w] = 0 \/ idx[w] # victim[w])
    /\ IF idx[w] = 0
       THEN Finish(w, "noslot", NoValue) /\ UNCHANGED <<idx, prev>>
       ELSE /\ prev' = [prev EXCEPT ![w] = idx[w]]
            /\ idx' = [idx EXCEPT ![w] = next[idx[w]]]
            /\ UNCHANGED <<pc, res>>
    /\ UNCHANGED <<segment, mutex, now, op, victim, time>>

(* The victim is unlinked from its chain and reused for the new entry. *)
EvictInsertKeepsLinks(w) ==
    LET i == victim[w]
    IN  /\ pc[w] = "unlink" /\ idx[w] # 0 /\ idx[w] = i
        /\ EntryInsert(w, i, next, bucket, time[w])
        /\ Finish(w, "ok", NoValue)
        /\ UNCHANGED <<free_head, mutex, now, locals>>

EvictInsert(w) ==
    LET i == victim[w]
        p == prev[w]
    IN  /\ pc[w] = "unlink" /\ idx[w] # 0 /\ idx[w] = i
        /\ EntryInsert(w, i, ChainWithout(p, i),
                       BucketWithout(p, i, Hash[section_key[i]]), time[w])
        /\ Finish(w, "ok", NoValue)
        /\ UNCHANGED <<free_head, mutex, now, locals>>

(***************************************************************************)
(* Leaving a call.                                                         *)
(***************************************************************************)
Leave(w) ==
    /\ pc' = [pc EXCEPT ![w] = "idle"]
    /\ op' = [op EXCEPT ![w] = NoOp]
    /\ idx' = [idx EXCEPT ![w] = 0]
    /\ prev' = [prev EXCEPT ![w] = 0]
    /\ victim' = [victim EXCEPT ![w] = 0]
    /\ time' = [time EXCEPT ![w] = 0]
    /\ res' = [res EXCEPT ![w] = NoResult]

(* The mutex is released and the call returns res[w]. *)
Unlock(w) ==
    /\ pc[w] = "unlock"
    /\ mutex' = NoWorker
    /\ Leave(w)
    /\ UNCHANGED <<segment, now>>

(* The early returns, without the mutex. *)
Return(w) ==
    /\ pc[w] = "return"
    /\ Leave(w)
    /\ UNCHANGED <<segment, mutex, now>>

(* The wall clock moves, in either direction: it can be set back. *)
Tick ==
    /\ now' \in 0..MaxTime \ {now}
    /\ UNCHANGED <<segment, mutex, pc, locals, res>>

(* What the holder of the mutex does. *)
Holding(w) ==
    \/ FindNext(w)
    \/ GetHit(w) \/ GetExpired(w) \/ DelHit(w) \/ Miss(w)
    \/ SetUpdate(w) \/ SetFree(w) \/ EvictStart(w) \/ UnlinkNext(w) \/ EvictInsert(w)
    \/ Unlock(w)

Next ==
    \/ Tick
    \/ \E w \in Workers :
         Call(w) \/ Lock(w) \/ LockFail(w) \/ Holding(w) \/ Return(w)

(* A worker that holds the mutex is running C code without blocking calls: *)
(* the operating system schedules it again.  Nothing is assumed of workers *)
(* that wait for the mutex or do not call at all.                          *)
Fairness == \A w \in Workers : WF_vars(Holding(w))

Spec == Init /\ [][Next]_vars /\ Fairness

(***************************************************************************)
(* Properties.                                                             *)
(***************************************************************************)
TypeOK ==
    /\ free_head \in Links
    /\ bucket \in [Buckets -> Links]
    /\ section_key \in [Slots -> Keys \cup {NoKey}]
    /\ access \in [Slots -> Nat]
    /\ expires \in [Slots -> Nat]
    /\ next \in [Slots -> Links]
    /\ value \in [Slots -> Values \cup {NoValue}]
    /\ mutex \in Workers \cup {NoWorker}
    /\ now \in Nat
    /\ pc \in [Workers -> {"idle", "lock", "find", "unlink", "unlock", "return"}]
    /\ op \in [Workers -> Ops]
    /\ \A w \in Workers : pc[w] # "idle" => op[w].key \in Keys
    /\ idx \in [Workers -> Links]
    /\ prev \in [Workers -> Links]
    /\ victim \in [Workers -> Links]
    /\ time \in [Workers -> Nat]
    /\ res \in [Workers -> Results]

(* oidc_cache_shm_validate: the slots met on the walk from head h, in      *)
(* order, then 0 once the list has ended.                                  *)
Walk(h) ==
    LET at[n \in 0..NSlots] ==
            IF n = 0 THEN h ELSE IF at[n - 1] = 0 THEN 0 ELSE next[at[n - 1]]
    IN  at

OnList(h) == {Walk(h)[n] : n \in 0..NSlots} \ {0}

(* Every list ends, the slots of a bucket are occupied and hash to it, the *)
(* slots of the free list are free, and no slot is orphaned.               *)
Validate ==
    /\ \A b \in Buckets :
         /\ Walk(bucket[b])[NSlots] = 0
         /\ \A i \in OnList(bucket[b]) : section_key[i] # NoKey /\ Hash[section_key[i]] = b
    /\ Walk(free_head)[NSlots] = 0
    /\ \A i \in OnList(free_head) : section_key[i] = NoKey
    /\ Slots = OnList(free_head) \cup UNION {OnList(bucket[b]) : b \in Buckets}

(* Whenever a process can take the mutex, oidc_cache_shm_validate succeeds *)
(* in it: no sequence of interleaved get, set, delete and eviction breaks  *)
(* or crosses the lists or loses a slot.                                   *)
SegmentValid == mutex = NoWorker => Validate

(* A key is stored in at most one slot, so that a delete or an update by   *)
(* oidc_cache_shm_set leaves no second copy for a later get to return.     *)
UniqueKeys ==
    \A i, j \in Occupied : section_key[i] = section_key[j] => i = j

(* The error path "could not obtain a cache slot" of oidc_cache_shm_set is *)
(* never taken: a full cache always has a victim, and the victim is found  *)
(* on the chain of its own bucket.                                         *)
SlotObtained == \A w \in Workers : res[w].status # "noslot"

(* Only the holder of the mutex is between oidc_cache_mutex_lock and       *)
(* oidc_cache_mutex_unlock, also when taking the mutex fails.              *)
MutualExclusion ==
    \A w \in Workers : pc[w] \in {"find", "unlink", "unlock"} <=> mutex = w

(***************************************************************************)
(* The inductive invariant: what makes the properties above true, stated   *)
(* link by link.                                                           *)
(***************************************************************************)

(* The free list holds free slots only. *)
FreeListSound ==
    /\ free_head # 0 => section_key[free_head] = NoKey
    /\ \A i \in Slots :
         section_key[i] = NoKey /\ next[i] # 0 => section_key[next[i]] = NoKey

(* A bucket's chain holds occupied slots whose keys hash to that bucket. *)
BucketsSound ==
    /\ \A b \in Buckets : bucket[b] # 0 =>
         section_key[bucket[b]] # NoKey /\ Hash[section_key[bucket[b]]] = b
    /\ \A i \in Slots : section_key[i] # NoKey /\ next[i] # 0 =>
         /\ section_key[next[i]] # NoKey
         /\ Hash[section_key[next[i]]] = Hash[section_key[i]]

(* No slot is reached by two links. *)
NoSharedLink ==
    /\ \A i \in Slots : next[i] # 0 => next[i] # free_head
    /\ \A i \in Slots, b \in Buckets : next[i] # 0 => next[i] # bucket[b]
    /\ \A i, j \in Slots : next[i] # 0 /\ next[i] = next[j] => i = j

(* Every slot is reached by a link. *)
NoOrphan ==
    \A j \in Slots :
        j = free_head \/ (\E b \in Buckets : bucket[b] = j) \/ (\E i \in Slots : next[i] = j)

(* There is no cycle: every set of slots has one that no other in the set  *)
(* is followed by.                                                         *)
Acyclic ==
    \A S \in SUBSET Slots : S # {} => \E j \in S : \A i \in S : next[i] # j

LinksSound == FreeListSound /\ BucketsSound /\ NoSharedLink /\ NoOrphan /\ Acyclic

(* The chain that a walk follows, and whether slot i is what it looks for. *)
ChainWalked(w) == IF pc[w] = "find" THEN Hash[op[w].key] ELSE Hash[section_key[victim[w]]]
Sought(w, i) == IF pc[w] = "find" THEN section_key[i] = op[w].key ELSE i = victim[w]

(* prev is the link to change if the slot at idx is taken off the chain.   *)
PrevSound(w) ==
    LET b == ChainWalked(w)
    IN  /\ prev[w] = 0 => bucket[b] = idx[w]
        /\ prev[w] # 0 => /\ next[prev[w]] = idx[w]
                          /\ section_key[prev[w]] # NoKey
                          /\ Hash[section_key[prev[w]]] = b
        /\ idx[w] # 0 => section_key[idx[w]] # NoKey /\ Hash[section_key[idx[w]]] = b

(* The slots passed so far, from the head up to idx, are not what is       *)
(* sought.                                                                 *)
PassedSound(w) ==
    \E V \in SUBSET Slots :
        /\ bucket[ChainWalked(w)] \in V \cup {idx[w]}
        /\ \A v \in V : next[v] \in V \cup {idx[w]} /\ ~Sought(w, v)

(* What is known at each place of a call. *)
CallSound(w) ==
    /\ pc[w] \in {"find", "unlink"} => PrevSound(w) /\ PassedSound(w)
    /\ pc[w] = "unlink" => /\ victim[w] # 0
                           /\ section_key[victim[w]] # NoKey
                           /\ \A i \in Slots : section_key[i] # op[w].key

(* The links are sound at every step, every walk knows the link before it  *)
(* and has passed only slots it does not look for: the invariant that      *)
(* makes eviction succeed and keys unique.                                 *)
IInv ==
    /\ TypeOK /\ MutualExclusion /\ LinksSound /\ UniqueKeys /\ SlotObtained
    /\ \A w \in Workers : CallSound(w)

(* The holder of the mutex gives it back: no walk of oidc_cache_shm_find   *)
(* or oidc_cache_shm_unlink runs around a cycle.                           *)
LockReleased == \A w \in Workers : mutex = w ~> mutex # w

(***************************************************************************)
(* The segment implements a cache: the entries are those of the occupied   *)
(* slots, and a call is pending until its result is known.                 *)
(***************************************************************************)
SlotOf(k) == CHOOSE i \in Slots : section_key[i] = k

StoredEntries ==
    [k \in Keys |->
        IF \E i \in Slots : section_key[i] = k
        THEN [value |-> value[SlotOf(k)], expires |-> expires[SlotOf(k)],
              access |-> access[SlotOf(k)], present |-> TRUE]
        ELSE [value |-> NoValue, expires |-> 0, access |-> 0, present |-> FALSE]]

Phases ==
    [w \in Workers |-> CASE pc[w] = "idle" -> "idle"
                         [] pc[w] \in {"lock", "find", "unlink"} -> "pending"
                         [] OTHER -> "done"]

Abstract ==
    INSTANCE Cache WITH Clients <- Workers, Capacity <- NSlots, store <- StoredEntries,
                        phase <- Phases, req <- op, clock <- time, reply <- res

(* Every step of the shared-memory cache is a step of the abstract cache:  *)
(* get, set and delete are atomic, get never returns an expired value, and *)
(* an entry is dropped only when the cache is full, expired entries first. *)
ImplementsCache == Abstract!Spec
=============================================================================
