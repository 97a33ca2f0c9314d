--------------------------- MODULE ShmCacheProofs ---------------------------
(***************************************************************************)
(* Proofs about the shared-memory cache, for every number of workers,      *)
(* slots, buckets and keys and every hash function: the links are sound,   *)
(* the segment implements a cache, oidc_cache_shm_validate succeeds, and   *)
(* the mutex is held for a bounded number of steps.                        *)
(***************************************************************************)
EXTENDS ShmCache, FiniteSetTheorems, TLAPS, WellFoundedInduction

(* The results of calls and the arguments of requests are well typed. *)
LEMMA ResultType ==
  ASSUME NEW s \in Statuses, NEW v \in Values \cup {NoValue}
  PROVE  Result(s, v) \in Results /\ Result(s, v).status = s
  BY DEF Result, Results

LEMMA RequestsType ==
  ASSUME now \in Nat
  PROVE  \A o \in Requests : o \in Ops /\ o.key \in Keys
<1>1. \A t \in TTLs : now + t \in Nat
  BY TimeAssumption
<1> QED
  BY <1>1 DEF Requests, Ops

(* A link is a slot or 0, the end of a list. *)
LEMMA LinkFacts == Links = Slots \cup {0} /\ 0 \notin Slots /\ Slots \subseteq Nat
  BY SlotsAssumption DEF Links, Slots

(* Types hold initially. *)
LEMMA TypeInit == Init => TypeOK
<1> SUFFICES ASSUME Init PROVE TypeOK
  OBVIOUS
<1>1. NoOp \in Ops
  BY DEF NoOp, Ops
<1>2. NoResult \in Results
  BY ResultType DEF NoResult, Statuses
<1> QED
  BY <1>1, <1>2, SlotsAssumption DEF Init, InitialLinks, TypeOK, Slots, Links

(* A step of the list operations keeps links within 0..NSlots. *)
LEMMA TypeStep == ASSUME TypeOK, [Next]_vars PROVE TypeOK'
<1> USE LinkFacts
<1>1. CASE Tick
  <2>1. now' \in Nat
    BY <1>1, TimeAssumption DEF Tick
  <2> QED BY <1>1, <2>1 DEF TypeOK, Tick, segment, locals
<1>2. ASSUME NEW w \in Workers, Call(w) PROVE TypeOK'
  <2>1. PICK o \in Requests :
          /\ op' = [op EXCEPT ![w] = o]
          /\ pc' = [pc EXCEPT ![w] = IF Fits(o) THEN "lock" ELSE "return"]
          /\ res' = [res EXCEPT ![w] = IF Fits(o) THEN NoResult ELSE Result("rejected", NoValue)]
    BY <1>2 DEF Call
  <2>2. o \in Ops /\ o.key \in Keys
    BY RequestsType DEF TypeOK
  <2>3. res' \in [Workers -> Results]
    BY <2>1, ResultType DEF TypeOK, NoResult, Statuses
  <2> QED BY <1>2, <2>1, <2>2, <2>3 DEF TypeOK, Call, segment
<1>3. ASSUME NEW w \in Workers, Lock(w) PROVE TypeOK'
  <2>1. bucket[Hash[op[w].key]] \in Links
    BY <1>3, HashAssumption DEF Lock, TypeOK
  <2>2. idx' \in [Workers -> Links] /\ time' \in [Workers -> Nat]
    BY <1>3, <2>1 DEF TypeOK, Lock
  <2>3. \A u \in Workers : pc'[u] # "idle" => op'[u].key \in Keys
    BY <1>3 DEF TypeOK, Lock
  <2> QED BY <1>3, <2>2, <2>3 DEF TypeOK, Lock, segment
<1>4. ASSUME NEW w \in Workers, LockFail(w) PROVE TypeOK'
  BY <1>4, ResultType DEF TypeOK, LockFail, LockFailStep, segment, locals, Statuses
<1>5. ASSUME NEW w \in Workers, FindNext(w) PROVE TypeOK'
  <2>1. idx' \in [Workers -> Links] /\ prev' \in [Workers -> Links]
    BY <1>5 DEF TypeOK, FindNext
  <2> QED BY <1>5, <2>1 DEF TypeOK, FindNext, segment
<1>6. ASSUME NEW w \in Workers, GetHit(w) PROVE TypeOK'
  <2>1. idx[w] \in Slots
    BY <1>6 DEF TypeOK, GetHit, Found
  <2>2. res' \in [Workers -> Results]
    BY <1>6, <2>1, ResultType DEF TypeOK, GetHit, Finish, Statuses
  <2> QED BY <1>6, <2>1, <2>2 DEF TypeOK, GetHit, Found, Finish, locals
<1>7. ASSUME NEW w \in Workers, Remove(w), Finish(w, "ok", NoValue),
             pc[w] = "find", idx[w] # 0, UNCHANGED <<mutex, now, locals>>
      PROVE  TypeOK'
  <2>1. idx[w] \in Slots /\ free_head \in Links /\ next[idx[w]] \in Links
    BY <1>7 DEF TypeOK
  <2>2. ChainWithout(prev[w], idx[w]) \in [Slots -> Links]
    BY <2>1 DEF TypeOK, ChainWithout
  <2>3. bucket' \in [Buckets -> Links]
    BY <1>7, <2>1 DEF TypeOK, Remove, BucketWithout
  <2>4. /\ next' \in [Slots -> Links] /\ free_head' \in Links
        /\ section_key' \in [Slots -> Keys \cup {NoKey}]
        /\ access' \in [Slots -> Nat]
    BY <1>7, <2>1, <2>2 DEF TypeOK, Remove, SlotFree
  <2>5. res' \in [Workers -> Results]
    BY <1>7, ResultType DEF TypeOK, Finish, Statuses
  <2> QED BY <1>7, <2>3, <2>4, <2>5 DEF TypeOK, Remove, Finish, locals
<1>8. ASSUME NEW w \in Workers, GetExpired(w) PROVE TypeOK'
  BY <1>7, <1>8 DEF GetExpired, Found
<1>9. ASSUME NEW w \in Workers, DelHit(w) PROVE TypeOK'
  BY <1>7, <1>9 DEF DelHit, Found
<1>10. ASSUME NEW w \in Workers, Miss(w) PROVE TypeOK'
  BY <1>10, ResultType DEF TypeOK, Miss, NotFound, Finish, segment, locals, Statuses
<1>11. ASSUME NEW w \in Workers, NEW i \in Slots, NEW t \in Nat, EntryUpdate(w, i, t)
       PROVE  /\ value' \in [Slots -> Values \cup {NoValue}]
              /\ expires' \in [Slots -> Nat]
              /\ access' \in [Slots -> Nat]
  BY <1>11 DEF TypeOK, EntryUpdate, Ops
<1>12. ASSUME NEW w \in Workers, SetUpdate(w) PROVE TypeOK'
  <2>1. idx[w] \in Slots /\ now \in Nat
    BY <1>12 DEF TypeOK, SetUpdate, Found
  <2>2. res' \in [Workers -> Results]
    BY <1>12, ResultType DEF TypeOK, SetUpdate, Finish, Statuses
  <2> QED BY <1>11, <1>12, <2>1, <2>2 DEF TypeOK, SetUpdate, Found, Finish, locals
<1>13. ASSUME NEW w \in Workers, NEW i \in Slots, NEW t \in Nat,
              NEW unlinked \in [Slots -> Links], NEW heads \in [Buckets -> Links],
              pc[w] # "idle", EntryInsert(w, i, unlinked, heads, t),
              free_head' \in Links, Finish(w, "ok", NoValue), UNCHANGED <<mutex, now, locals>>
       PROVE  TypeOK'
  <2>1. op[w].key \in Keys /\ Hash[op[w].key] \in Buckets
    BY <1>13, HashAssumption DEF TypeOK
  <2>2. next' \in [Slots -> Links] /\ bucket' \in [Buckets -> Links]
    BY <1>13, <2>1 DEF EntryInsert
  <2>3. section_key' \in [Slots -> Keys \cup {NoKey}]
    BY <1>13, <2>1 DEF TypeOK, EntryInsert
  <2>4. res' \in [Workers -> Results]
    BY <1>13, ResultType DEF TypeOK, Finish, Statuses
  <2>5. EntryUpdate(w, i, t)
    BY <1>13 DEF EntryInsert
  <2> QED BY <1>11, <1>13, <2>2, <2>3, <2>4, <2>5 DEF TypeOK, Finish, locals
<1>14. ASSUME NEW w \in Workers, SetFree(w) PROVE TypeOK'
  <2>1. free_head \in Slots /\ next[free_head] \in Links /\ now \in Nat
    BY <1>14 DEF TypeOK, SetFree
  <2>2. next \in [Slots -> Links] /\ bucket \in [Buckets -> Links]
    BY DEF TypeOK
  <2> QED BY <1>13, <1>14, <2>1, <2>2 DEF SetFree, NotFound
<1>15. ASSUME NEW w \in Workers, EvictStart(w) PROVE TypeOK'
  <2>1. PICK v \in Links :
          /\ IsVictim(v, now)
          /\ victim' = [victim EXCEPT ![w] = v]
          /\ idx' = [idx EXCEPT ![w] = IF v = 0 THEN 0 ELSE bucket[Hash[section_key[v]]]]
    BY <1>15 DEF EvictStart, UnlinkHead
  <2>2. v # 0 => v \in Slots /\ section_key[v] # NoKey
    BY <2>1 DEF IsVictim, First, Occupied, Expired, Oldest
  <2>3. v # 0 => bucket[Hash[section_key[v]]] \in Links
    BY <2>2, HashAssumption DEF TypeOK
  <2>4. idx' \in [Workers -> Links] /\ victim' \in [Workers -> Links]
    BY <2>1, <2>3 DEF TypeOK
  <2> QED BY <1>15, <2>4 DEF TypeOK, EvictStart, NotFound, segment
<1>16. ASSUME NEW w \in Workers, UnlinkNext(w) PROVE TypeOK'
  <2>1. CASE idx[w] = 0
    BY <1>16, <2>1, ResultType DEF TypeOK, UnlinkNext, Finish, segment, Statuses
  <2>2. CASE idx[w] # 0
    <3>1. idx[w] \in Slots /\ next[idx[w]] \in Links
      BY <2>2 DEF TypeOK
    <3>2. idx' \in [Workers -> Links] /\ prev' \in [Workers -> Links]
      BY <1>16, <2>2, <3>1 DEF TypeOK, UnlinkNext
    <3> QED BY <1>16, <2>2, <3>2 DEF TypeOK, UnlinkNext, segment
  <2> QED BY <2>1, <2>2
<1>17. ASSUME NEW w \in Workers, EvictInsert(w) PROVE TypeOK'
  <2>1. victim[w] \in Slots /\ next[victim[w]] \in Links /\ time[w] \in Nat
    BY <1>17 DEF TypeOK, EvictInsert
  <2>2. ChainWithout(prev[w], victim[w]) \in [Slots -> Links]
    BY <2>1 DEF TypeOK, ChainWithout
  <2>3. BucketWithout(prev[w], victim[w], Hash[section_key[victim[w]]]) \in [Buckets -> Links]
    BY <2>1 DEF TypeOK, BucketWithout
  <2>4. free_head' \in Links
    BY <1>17 DEF TypeOK, EvictInsert
  <2> QED BY <1>13, <1>17, <2>1, <2>2, <2>3, <2>4 DEF EvictInsert
<1>18. ASSUME NEW w \in Workers, Unlock(w) \/ Return(w) PROVE TypeOK'
  <2>1. NoOp \in Ops /\ NoResult \in Results
    BY ResultType DEF NoOp, Ops, NoResult, Statuses
  <2>2. mutex' \in Workers \cup {NoWorker} /\ UNCHANGED <<segment, now>> /\ Leave(w)
    BY <1>18 DEF Unlock, Return, TypeOK
  <2> QED BY <2>1, <2>2 DEF TypeOK, Leave, segment
<1>19. CASE UNCHANGED vars
  BY <1>19 DEF TypeOK, vars
<1> QED
  BY <1>1, <1>2, <1>3, <1>4, <1>5, <1>6, <1>8, <1>9, <1>10, <1>12, <1>14, <1>15, <1>16, <1>17,
     <1>18, <1>19 DEF Next, Holding

-----------------------------------------------------------------------------
(***************************************************************************)
(* The links.                                                              *)
(***************************************************************************)

(* The only link to an occupied slot i of chain b is the one before it:    *)
(* next of p, or the head of the bucket when p is 0.                       *)
LEMMA OnlyLink ==
  ASSUME TypeOK, LinksSound,
         NEW i \in Slots, NEW p \in Links, NEW b \in Buckets,
         section_key[i] # NoKey, Hash[section_key[i]] = b,
         p = 0 => bucket[b] = i, p # 0 => next[p] = i
  PROVE  /\ next[i] # i /\ p # i
         /\ free_head # i
         /\ \A j \in Slots : next[j] = i => j = p
         /\ \A c \in Buckets : bucket[c] = i => p = 0 /\ c = b
         /\ p # 0 => p \in Slots /\ section_key[p] # NoKey /\ Hash[section_key[p]] = b
         /\ next[i] # 0 => /\ next[i] \in Slots /\ section_key[next[i]] # NoKey
                           /\ Hash[section_key[next[i]]] = b
<1> USE LinkFacts
<1>1. next[i] # i
  <2>1. {i} \in SUBSET Slots /\ {i} # {}
    OBVIOUS
  <2> QED BY <2>1 DEF LinksSound, Acyclic
<1>2. p # i
  BY <1>1
<1>3. free_head # i
  BY DEF LinksSound, FreeListSound, TypeOK
<1>4. \A j \in Slots : next[j] = i => j = p
  BY DEF LinksSound, NoSharedLink, TypeOK
<1>5. \A c \in Buckets : bucket[c] = i => p = 0 /\ c = b
  BY DEF LinksSound, NoSharedLink, BucketsSound, TypeOK
<1>6. p # 0 => p \in Slots /\ section_key[p] # NoKey /\ Hash[section_key[p]] = b
  BY DEF LinksSound, FreeListSound, BucketsSound, TypeOK
<1>7. next[i] # 0 => /\ next[i] \in Slots /\ section_key[next[i]] # NoKey
                     /\ Hash[section_key[next[i]]] = b
  BY DEF LinksSound, BucketsSound, TypeOK
<1> QED
  BY <1>1, <1>2, <1>3, <1>4, <1>5, <1>6, <1>7

(* Taking slot i out between its predecessor p and its successor creates   *)
(* no cycle, if nothing points to i afterwards.                            *)
LEMMA AcyclicWithout ==
  ASSUME TypeOK, Acyclic, TypeOK',
         NEW i \in Slots, NEW p \in Links, p # 0 => next[p] = i,
         \A j \in Slots \ {i, p} : next'[j] = next[j],
         p # 0 => next'[p] = next[i],
         \A j \in Slots : next'[j] # i
  PROVE  Acyclic'
<1> SUFFICES ASSUME NEW S \in SUBSET Slots, S # {}
             PROVE  \E j \in S : \A k \in S : next'[k] # j
  BY DEF Acyclic
<1>1. CASE i \in S
  BY <1>1
<1>2. CASE i \notin S /\ p \in S
  <2>1. p # 0
    BY <1>2, LinkFacts
  <2>2. S \cup {i} \in SUBSET Slots /\ S \cup {i} # {}
    OBVIOUS
  <2>3. PICK j \in S \cup {i} : \A k \in S \cup {i} : next[k] # j
    BY <2>2 DEF Acyclic
  <2>4. j # i /\ j # next[i]
    BY <1>2, <2>1, <2>3
  <2>5. \A k \in S : next'[k] # j
    BY <1>2, <2>1, <2>3, <2>4
  <2> QED BY <2>4, <2>5
<1>3. CASE i \notin S /\ p \notin S
  <2>1. PICK j \in S : \A k \in S : next[k] # j
    BY DEF Acyclic
  <2>2. \A k \in S : next'[k] = next[k]
    BY <1>3
  <2> QED BY <2>1, <2>2
<1> QED BY <1>1, <1>2, <1>3

(* Unlinking a found entry and freeing its slot keeps the links sound. *)
LEMMA RemoveLinks ==
  ASSUME TypeOK, TypeOK', LinksSound,
         NEW i \in Slots, NEW p \in Links, NEW b \in Buckets,
         section_key[i] # NoKey, Hash[section_key[i]] = b,
         p = 0 => bucket[b] = i, p # 0 => next[p] = i,
         bucket' = BucketWithout(p, i, b), SlotFree(i, ChainWithout(p, i))
  PROVE  LinksSound'
<1> USE LinkFacts
<1> HIDE DEF LinksSound
<1>0. /\ next[i] # i /\ p # i
      /\ free_head # i
      /\ \A j \in Slots : next[j] = i => j = p
      /\ \A c \in Buckets : bucket[c] = i => p = 0 /\ c = b
      /\ p # 0 => p \in Slots /\ section_key[p] # NoKey /\ Hash[section_key[p]] = b
      /\ next[i] # 0 => /\ next[i] \in Slots /\ section_key[next[i]] # NoKey
                        /\ Hash[section_key[next[i]]] = b
  BY OnlyLink
<1>1. /\ next'[i] = free_head
      /\ p # 0 => next'[p] = next[i]
      /\ \A j \in Slots \ {i, p} : next'[j] = next[j]
  BY <1>0 DEF TypeOK, SlotFree, ChainWithout
<1>2. /\ p = 0 => bucket'[b] = next[i]
      /\ \A c \in Buckets : c # b \/ p # 0 => bucket'[c] = bucket[c]
  BY DEF TypeOK, BucketWithout
<1>3. /\ section_key'[i] = NoKey
      /\ \A j \in Slots \ {i} : section_key'[j] = section_key[j]
      /\ free_head' = i
  BY DEF TypeOK, SlotFree
<1>t. /\ free_head \in Links
      /\ \A j \in Slots : next[j] \in Links
      /\ \A c \in Buckets : bucket[c] \in Links
  BY DEF TypeOK
<1>s. FreeListSound /\ BucketsSound /\ NoSharedLink
  BY DEF LinksSound
<1>4. FreeListSound'
  <2> SUFFICES ASSUME NEW j \in Slots, section_key'[j] = NoKey, next'[j] # 0
               PROVE  section_key'[next'[j]] = NoKey
    BY <1>3 DEF FreeListSound
  <2>1. CASE j = i
    BY <2>1, <1>0, <1>1, <1>3, <1>s, <1>t DEF FreeListSound
  <2>2. CASE j # i
    <3>1. j # p /\ section_key[j] = NoKey /\ next'[j] = next[j] /\ next[j] \in Slots
      BY <2>2, <1>0, <1>1, <1>3, <1>t
    <3> QED BY <3>1, <1>3, <1>s DEF FreeListSound
  <2> QED BY <2>1, <2>2
<1>5. BucketsSound'
  <2>1. ASSUME NEW c \in Buckets, bucket'[c] # 0
        PROVE  section_key'[bucket'[c]] # NoKey /\ Hash[section_key'[bucket'[c]]] = c
    <3>1. bucket'[c] \in Slots /\ bucket'[c] # i
      BY <2>1, <1>0, <1>2, <1>t
    <3>2. section_key'[bucket'[c]] = section_key[bucket'[c]]
      BY <3>1, <1>3
    <3>3. section_key[bucket'[c]] # NoKey /\ Hash[section_key[bucket'[c]]] = c
      BY <2>1, <1>0, <1>2, <1>s DEF BucketsSound
    <3> QED BY <3>2, <3>3
  <2>2. ASSUME NEW j \in Slots, section_key'[j] # NoKey, next'[j] # 0
        PROVE  /\ section_key'[next'[j]] # NoKey
               /\ Hash[section_key'[next'[j]]] = Hash[section_key'[j]]
    <3>1. j # i /\ section_key'[j] = section_key[j]
      BY <2>2, <1>3
    <3>2. CASE j = p
      BY <2>2, <3>1, <3>2, <1>0, <1>1, <1>3
    <3>3. CASE j # p
      <4>1. next'[j] = next[j] /\ next[j] \in Slots /\ next[j] # i
        BY <2>2, <3>1, <3>3, <1>0, <1>1, <1>t
      <4>2. section_key'[next[j]] = section_key[next[j]]
        BY <4>1, <1>3
      <4>3. /\ section_key[next[j]] # NoKey
            /\ Hash[section_key[next[j]]] = Hash[section_key[j]]
        BY <2>2, <3>1, <4>1, <1>s DEF BucketsSound
      <4> QED BY <3>1, <4>1, <4>2, <4>3
    <3> QED BY <3>2, <3>3
  <2> QED BY <2>1, <2>2 DEF BucketsSound
<1>6. NoSharedLink'
  <2>1. ASSUME NEW j \in Slots, next'[j] # 0
        PROVE  next'[j] # free_head'
    BY <2>1, <1>0, <1>1, <1>3
  <2>2. ASSUME NEW j \in Slots, NEW c \in Buckets, next'[j] # 0
        PROVE  next'[j] # bucket'[c]
    <3>1. CASE j = i
      <4>1. next'[j] = free_head /\ section_key[free_head] = NoKey /\ free_head \in Slots
        BY <2>2, <3>1, <1>1, <1>s, <1>t DEF FreeListSound
      <4>2. bucket'[c] # 0 => section_key[bucket'[c]] # NoKey
        BY <1>0, <1>2, <1>s DEF BucketsSound
      <4> QED BY <2>2, <4>1, <4>2
    <3>2. CASE j = p /\ j # i
      BY <2>2, <3>2, <1>0, <1>1, <1>2, <1>s DEF NoSharedLink
    <3>3. CASE j # p /\ j # i
      BY <2>2, <3>3, <1>0, <1>1, <1>2, <1>s DEF NoSharedLink
    <3> QED BY <3>1, <3>2, <3>3
  <2>3. ASSUME NEW j \in Slots, NEW k \in Slots, next'[j] # 0, next'[j] = next'[k]
        PROVE  j = k
    <3>1. \A m \in Slots : m # i /\ next'[m] # 0 => next'[m] # free_head
      BY <1>0, <1>1, <1>s DEF NoSharedLink
    <3> QED BY <2>3, <3>1, <1>0, <1>1, <1>s DEF NoSharedLink
  <2> QED BY <2>1, <2>2, <2>3 DEF NoSharedLink
<1>7. NoOrphan'
  <2> SUFFICES ASSUME NEW j \in Slots
               PROVE  \/ j = free_head' \/ (\E c \in Buckets : bucket'[c] = j)
                      \/ (\E k \in Slots : next'[k] = j)
    BY DEF NoOrphan
  <2>1. CASE j = i
    BY <2>1, <1>3
  <2>2. CASE j # i /\ next[i] = j
    BY <2>2, <1>0, <1>1, <1>2
  <2>3. CASE j # i /\ next[i] # j
    <3>1. CASE j = free_head
      BY <3>1, <1>1
    <3>2. ASSUME NEW c \in Buckets, bucket[c] = j PROVE bucket'[c] = j
      BY <3>2, <2>3, <1>2
    <3>3. ASSUME NEW k \in Slots, next[k] = j PROVE next'[k] = j
      BY <3>3, <2>3, <1>1
    <3> QED BY <3>1, <3>2, <3>3 DEF LinksSound, NoOrphan
  <2> QED BY <2>1, <2>2, <2>3
<1>8. Acyclic'
  <2>1. \A j \in Slots : next'[j] # i
    BY <1>0, <1>1
  <2>2. Acyclic
    BY DEF LinksSound
  <2> QED BY <1>1, <2>1, <2>2, AcyclicWithout
<1> QED
  BY <1>4, <1>5, <1>6, <1>7, <1>8 DEF LinksSound

-----------------------------------------------------------------------------
(* The lists with slot i on none of them: links nx, heads H, free list fh. *)
Detached(i, fh, H, nx) ==
    /\ nx \in [Slots -> Links] /\ H \in [Buckets -> Links] /\ fh \in Links
    /\ fh # 0 => fh # i /\ section_key[fh] = NoKey
    /\ \A b \in Buckets : H[b] # 0 =>
         H[b] # i /\ section_key[H[b]] # NoKey /\ Hash[section_key[H[b]]] = b
    /\ \A j \in Slots \ {i} : nx[j] # 0 =>
         /\ nx[j] # i /\ nx[j] # fh /\ \A b \in Buckets : nx[j] # H[b]
         /\ section_key[j] = NoKey => section_key[nx[j]] = NoKey
         /\ section_key[j] # NoKey => /\ section_key[nx[j]] # NoKey
                                      /\ Hash[section_key[nx[j]]] = Hash[section_key[j]]
    /\ \A j, k \in Slots \ {i} : nx[j] # 0 /\ nx[j] = nx[k] => j = k
    /\ \A j \in Slots \ {i} :
         j = fh \/ (\E b \in Buckets : H[b] = j) \/ (\E k \in Slots \ {i} : nx[k] = j)

(* A slot that is on no list can be put at the head of a bucket. *)
LEMMA InsertLinks ==
  ASSUME NEW i \in Slots, NEW k \in Keys, NEW fh, NEW H, NEW nx,
         TypeOK, Detached(i, fh, H, nx),
         next' = [nx EXCEPT ![i] = H[Hash[k]]],
         bucket' = [H EXCEPT ![Hash[k]] = i],
         section_key' = [section_key EXCEPT ![i] = k],
         free_head' = fh
  PROVE  /\ FreeListSound' /\ BucketsSound' /\ NoSharedLink' /\ NoOrphan'
         /\ \A j \in Slots : next'[j] # i
<1> USE LinkFacts
<1> DEFINE c == Hash[k]
<1>0. c \in Buckets /\ k # NoKey
  BY HashAssumption, KeysAssumption
<1>1. next'[i] = H[c] /\ \A j \in Slots \ {i} : next'[j] = nx[j]
  BY DEF Detached
<1>2. bucket'[c] = i /\ \A b \in Buckets \ {c} : bucket'[b] = H[b]
  BY <1>0 DEF Detached
<1>3. section_key'[i] = k /\ \A j \in Slots \ {i} : section_key'[j] = section_key[j]
  BY DEF TypeOK
<1>t. fh \in Links /\ (\A j \in Slots : nx[j] \in Links) /\ (\A b \in Buckets : H[b] \in Links)
  BY DEF Detached
<1>d. /\ fh # 0 => fh # i /\ section_key[fh] = NoKey
      /\ \A b \in Buckets : H[b] # 0 =>
           H[b] # i /\ section_key[H[b]] # NoKey /\ Hash[section_key[H[b]]] = b
      /\ \A j \in Slots \ {i} : nx[j] # 0 =>
           /\ nx[j] # i /\ nx[j] # fh /\ \A b \in Buckets : nx[j] # H[b]
           /\ section_key[j] = NoKey => section_key[nx[j]] = NoKey
           /\ section_key[j] # NoKey => /\ section_key[nx[j]] # NoKey
                                        /\ Hash[section_key[nx[j]]] = Hash[section_key[j]]
      /\ \A j, m \in Slots \ {i} : nx[j] # 0 /\ nx[j] = nx[m] => j = m
      /\ \A j \in Slots \ {i} :
           j = fh \/ (\E b \in Buckets : H[b] = j) \/ (\E m \in Slots \ {i} : nx[m] = j)
  BY DEF Detached
<1> HIDE DEF c
<1>4. FreeListSound'
  <2>1. free_head' # 0 => section_key'[free_head'] = NoKey
    BY <1>3, <1>d, <1>t
  <2>2. ASSUME NEW j \in Slots, section_key'[j] = NoKey, next'[j] # 0
        PROVE  section_key'[next'[j]] = NoKey
    <3>1. j # i /\ section_key[j] = NoKey /\ next'[j] = nx[j]
      BY <2>2, <1>0, <1>1, <1>3
    <3>2. nx[j] \in Slots /\ nx[j] # i /\ section_key[nx[j]] = NoKey
      BY <2>2, <3>1, <1>d, <1>t
    <3> QED BY <3>1, <3>2, <1>3
  <2> QED BY <2>1, <2>2 DEF FreeListSound
<1>5. BucketsSound'
  <2>1. ASSUME NEW b \in Buckets, bucket'[b] # 0
        PROVE  section_key'[bucket'[b]] # NoKey /\ Hash[section_key'[bucket'[b]]] = b
    <3>1. CASE b = c
      BY <3>1, <1>0, <1>2, <1>3 DEF c
    <3>2. CASE b # c
      <4>1. bucket'[b] = H[b] /\ H[b] \in Slots /\ H[b] # i
        BY <2>1, <3>2, <1>2, <1>d, <1>t
      <4>2. section_key'[H[b]] = section_key[H[b]]
        BY <4>1, <1>3
      <4> QED BY <2>1, <4>1, <4>2, <1>d
    <3> QED BY <3>1, <3>2
  <2>2. ASSUME NEW j \in Slots, section_key'[j] # NoKey, next'[j] # 0
        PROVE  /\ section_key'[next'[j]] # NoKey
               /\ Hash[section_key'[next'[j]]] = Hash[section_key'[j]]
    <3>1. CASE j = i
      <4>1. next'[j] = H[c] /\ H[c] \in Slots /\ H[c] # i
        BY <2>2, <3>1, <1>0, <1>1, <1>d, <1>t
      <4>2. section_key'[H[c]] = section_key[H[c]]
        BY <4>1, <1>3
      <4>3. section_key[H[c]] # NoKey /\ Hash[section_key[H[c]]] = c
        BY <2>2, <4>1, <1>0, <1>d
      <4> QED BY <3>1, <4>1, <4>2, <4>3, <1>3 DEF c
    <3>2. CASE j # i
      <4>1. next'[j] = nx[j] /\ nx[j] \in Slots /\ nx[j] # i
        BY <2>2, <3>2, <1>1, <1>d, <1>t
      <4>2. section_key'[nx[j]] = section_key[nx[j]] /\ section_key'[j] = section_key[j]
        BY <3>2, <4>1, <1>3
      <4> QED BY <2>2, <3>2, <4>1, <4>2, <1>d
    <3> QED BY <3>1, <3>2
  <2> QED BY <2>1, <2>2 DEF BucketsSound
<1>6. \A j \in Slots : next'[j] # i
  BY <1>0, <1>1, <1>d
<1>7. NoSharedLink'
  <2>1. ASSUME NEW j \in Slots, next'[j] # 0 PROVE next'[j] # free_head'
    <3>1. CASE j = i
      <4>1. section_key[H[c]] # NoKey
        BY <2>1, <3>1, <1>0, <1>1, <1>d
      <4> QED BY <2>1, <3>1, <4>1, <1>1, <1>d
    <3>2. CASE j # i
      BY <2>1, <3>2, <1>1, <1>d
    <3> QED BY <3>1, <3>2
  <2>2. ASSUME NEW j \in Slots, NEW b \in Buckets, next'[j] # 0 PROVE next'[j] # bucket'[b]
    <3>1. CASE b = c
      BY <2>2, <3>1, <1>2, <1>6
    <3>2. CASE b # c /\ j = i
      <4>1. next'[j] = H[c] /\ bucket'[b] = H[b] /\ H[c] # 0
        BY <2>2, <3>2, <1>1, <1>2
      <4>2. Hash[section_key[H[c]]] = c
        BY <4>1, <1>0, <1>d
      <4>3. H[b] # 0 => Hash[section_key[H[b]]] = b
        BY <1>d
      <4> QED BY <3>2, <4>1, <4>2, <4>3
    <3>3. CASE b # c /\ j # i
      BY <2>2, <3>3, <1>1, <1>2, <1>d
    <3> QED BY <3>1, <3>2, <3>3
  <2>3. ASSUME NEW j \in Slots, NEW m \in Slots, next'[j] # 0, next'[j] = next'[m]
        PROVE  j = m
    BY <2>3, <1>0, <1>1, <1>d
  <2> QED BY <2>1, <2>2, <2>3 DEF NoSharedLink
<1>8. NoOrphan'
  <2> SUFFICES ASSUME NEW j \in Slots
               PROVE  \/ j = free_head' \/ (\E b \in Buckets : bucket'[b] = j)
                      \/ (\E m \in Slots : next'[m] = j)
    BY DEF NoOrphan
  <2>1. CASE j = i
    BY <2>1, <1>0, <1>2
  <2>2. CASE j # i
    <3>1. ASSUME NEW b \in Buckets, H[b] = j
          PROVE  (\E d \in Buckets : bucket'[d] = j) \/ (\E m \in Slots : next'[m] = j)
      BY <3>1, <1>1, <1>2
    <3>2. ASSUME NEW m \in Slots \ {i}, nx[m] = j PROVE next'[m] = j
      BY <3>2, <1>1
    <3> QED BY <2>2, <3>1, <3>2, <1>d
  <2> QED BY <2>1, <2>2
<1> QED BY <1>4, <1>5, <1>6, <1>7, <1>8

(* A slot taken from the free list for a new key keeps the links sound. *)
LEMMA SetFreeLinks ==
  ASSUME TypeOK, TypeOK', LinksSound, free_head # 0, NEW k \in Keys,
         next' = [next EXCEPT ![free_head] = bucket[Hash[k]]],
         bucket' = [bucket EXCEPT ![Hash[k]] = free_head],
         section_key' = [section_key EXCEPT ![free_head] = k],
         free_head' = next[free_head]
  PROVE  LinksSound'
<1> USE LinkFacts
<1> DEFINE i == free_head
<1>1. i \in Slots /\ section_key[i] = NoKey
  BY DEF TypeOK, LinksSound, FreeListSound
<1>2. FreeListSound /\ BucketsSound /\ NoSharedLink /\ NoOrphan /\ Acyclic
  BY DEF LinksSound
<1>3. Detached(i, next[i], bucket, next)
  <2>1. next \in [Slots -> Links] /\ bucket \in [Buckets -> Links] /\ next[i] \in Links
    BY <1>1 DEF TypeOK
  <2>2. next[i] # 0 => next[i] # i /\ section_key[next[i]] = NoKey
    BY <1>1, <1>2 DEF FreeListSound, NoSharedLink
  <2>3. \A b \in Buckets : bucket[b] # 0 =>
          bucket[b] # i /\ section_key[bucket[b]] # NoKey /\ Hash[section_key[bucket[b]]] = b
    BY <1>1, <1>2 DEF BucketsSound
  <2>4. ASSUME NEW j \in Slots \ {i}, next[j] # 0
        PROVE  /\ next[j] # i /\ next[j] # next[i] /\ \A b \in Buckets : next[j] # bucket[b]
               /\ section_key[j] = NoKey => section_key[next[j]] = NoKey
               /\ section_key[j] # NoKey => /\ section_key[next[j]] # NoKey
                                            /\ Hash[section_key[next[j]]] = Hash[section_key[j]]
    BY <2>4, <1>1, <1>2 DEF FreeListSound, BucketsSound, NoSharedLink
  <2>5. \A j, m \in Slots \ {i} : next[j] # 0 /\ next[j] = next[m] => j = m
    BY <1>2 DEF NoSharedLink
  <2>6. \A j \in Slots \ {i} :
          j = next[i] \/ (\E b \in Buckets : bucket[b] = j) \/ (\E m \in Slots \ {i} : next[m] = j)
    BY <1>2 DEF NoOrphan
  <2> QED BY <2>1, <2>2, <2>3, <2>4, <2>5, <2>6 DEF Detached
<1>4. /\ FreeListSound' /\ BucketsSound' /\ NoSharedLink' /\ NoOrphan'
      /\ \A j \in Slots : next'[j] # i
  BY <1>1, <1>3, InsertLinks
<1>5. Acyclic'
  <2>1. \A j \in Slots \ {i, 0} : next'[j] = next[j]
    BY <1>1 DEF TypeOK
  <2> QED BY <1>1, <1>2, <1>4, <2>1, AcyclicWithout
<1> QED BY <1>4, <1>5 DEF LinksSound

(* A victim unlinked from its own chain and reused keeps the links sound,  *)
(* also when the new key hashes to the same bucket.                        *)
LEMMA EvictLinks ==
  ASSUME TypeOK, TypeOK', LinksSound,
         NEW i \in Slots, NEW p \in Links, NEW b \in Buckets, NEW k \in Keys,
         section_key[i] # NoKey, Hash[section_key[i]] = b,
         p = 0 => bucket[b] = i, p # 0 => next[p] = i,
         next' = [ChainWithout(p, i) EXCEPT ![i] = BucketWithout(p, i, b)[Hash[k]]],
         bucket' = [BucketWithout(p, i, b) EXCEPT ![Hash[k]] = i],
         section_key' = [section_key EXCEPT ![i] = k],
         free_head' = free_head
  PROVE  LinksSound'
<1> USE LinkFacts
<1> DEFINE H == BucketWithout(p, i, b)
           nx == ChainWithout(p, i)
<1>0. /\ next[i] # i /\ p # i
      /\ free_head # i
      /\ \A j \in Slots : next[j] = i => j = p
      /\ \A c \in Buckets : bucket[c] = i => p = 0 /\ c = b
      /\ p # 0 => p \in Slots /\ section_key[p] # NoKey /\ Hash[section_key[p]] = b
      /\ next[i] # 0 => /\ next[i] \in Slots /\ section_key[next[i]] # NoKey
                        /\ Hash[section_key[next[i]]] = b
  BY OnlyLink
<1>1. /\ p # 0 => nx[p] = next[i]
      /\ \A j \in Slots \ {p} : nx[j] = next[j]
      /\ nx \in [Slots -> Links]
  BY <1>0 DEF TypeOK, ChainWithout
<1>2. /\ p = 0 => H[b] = next[i]
      /\ \A c \in Buckets : c # b \/ p # 0 => H[c] = bucket[c]
      /\ H \in [Buckets -> Links]
  BY DEF TypeOK, BucketWithout
<1>s. FreeListSound /\ BucketsSound /\ NoSharedLink /\ NoOrphan /\ Acyclic
  BY DEF LinksSound
<1> HIDE DEF H, nx
<1>3. Detached(i, free_head, H, nx)
  <2>1. free_head \in Links /\ (free_head # 0 => free_head # i /\ section_key[free_head] = NoKey)
    BY <1>0, <1>s DEF TypeOK, FreeListSound
  <2>2. \A c \in Buckets : H[c] # 0 =>
          H[c] # i /\ section_key[H[c]] # NoKey /\ Hash[section_key[H[c]]] = c
    BY <1>0, <1>2, <1>s DEF BucketsSound
  <2>3. ASSUME NEW j \in Slots \ {i}, nx[j] # 0
        PROVE  /\ nx[j] # i /\ nx[j] # free_head /\ \A c \in Buckets : nx[j] # H[c]
               /\ section_key[j] = NoKey => section_key[nx[j]] = NoKey
               /\ section_key[j] # NoKey => /\ section_key[nx[j]] # NoKey
                                            /\ Hash[section_key[nx[j]]] = Hash[section_key[j]]
    <3>1. CASE j = p
      <4>1. nx[j] = next[i] /\ p # 0
        BY <2>3, <3>1, <1>1
      <4>2. \A c \in Buckets : H[c] = bucket[c]
        BY <4>1, <1>2
      <4> QED BY <2>3, <3>1, <4>1, <4>2, <1>0, <1>s DEF NoSharedLink
    <3>2. CASE j # p
      <4>1. nx[j] = next[j]
        BY <3>2, <1>1
      <4>2. nx[j] # i /\ nx[j] # free_head
        BY <2>3, <3>2, <4>1, <1>0, <1>s DEF NoSharedLink
      <4>3. \A c \in Buckets : nx[j] # H[c]
        BY <2>3, <4>1, <1>2, <1>s DEF NoSharedLink
      <4> QED BY <2>3, <4>1, <4>2, <4>3, <1>s DEF FreeListSound, BucketsSound
    <3> QED BY <3>1, <3>2
  <2>4. \A j, m \in Slots \ {i} : nx[j] # 0 /\ nx[j] = nx[m] => j = m
    BY <1>0, <1>1, <1>s DEF NoSharedLink
  <2>5. ASSUME NEW j \in Slots \ {i}
        PROVE  j = free_head \/ (\E c \in Buckets : H[c] = j) \/ (\E m \in Slots \ {i} : nx[m] = j)
    <3>1. CASE next[i] = j
      BY <3>1, <1>0, <1>1, <1>2
    <3>2. CASE next[i] # j
      <4>1. ASSUME NEW c \in Buckets, bucket[c] = j PROVE H[c] = j
        BY <4>1, <1>0, <1>2
      <4>2. ASSUME NEW m \in Slots, next[m] = j PROVE m # i /\ nx[m] = j
        BY <4>2, <3>2, <1>0, <1>1
      <4> QED BY <4>1, <4>2, <1>s DEF NoOrphan
    <3> QED BY <3>1, <3>2
  <2> QED BY <2>1, <2>2, <2>3, <2>4, <2>5, <1>1, <1>2 DEF Detached
<1>4. /\ FreeListSound' /\ BucketsSound' /\ NoSharedLink' /\ NoOrphan'
      /\ \A j \in Slots : next'[j] # i
  BY <1>3, InsertLinks DEF H, nx
<1>5. Acyclic'
  <2>1. /\ \A j \in Slots \ {i, p} : next'[j] = next[j]
        /\ p # 0 => next'[p] = next[i]
    BY <1>0, <1>1 DEF nx
  <2> QED BY <1>s, <1>4, <2>1, AcyclicWithout
<1> QED BY <1>4, <1>5 DEF LinksSound

-----------------------------------------------------------------------------
(***************************************************************************)
(* The initial free list and the walks.                                    *)
(***************************************************************************)

(* A set of natural numbers has a least element. *)
LEMMA LeastNat ==
  ASSUME NEW S \in SUBSET Nat, S # {}
  PROVE  \E x \in S : \A y \in S : x <= y
<1> DEFINE R == OpToRel(<, Nat)
<1>1. IsWellFoundedOn(R, Nat)
  BY NatLessThanWellFounded
<1>2. \A x, y \in Nat : x < y => <<x, y>> \in R
  BY DEF OpToRel
<1> HIDE DEF R
<1>3. PICK x \in S : \A y \in S : ~(<<y, x>> \in R)
  BY <1>1, WFMin
<1>4. \A y \in S : ~(y < x)
  BY <1>2, <1>3
<1>5. \A y \in S : x <= y
  BY <1>4
<1> QED BY <1>5

(* The free list that oidc_cache_shm_post_config builds holds every slot. *)
LEMMA InitLinks == Init => LinksSound
<1> SUFFICES ASSUME Init PROVE LinksSound
  OBVIOUS
<1>1. FreeListSound /\ BucketsSound
  BY SlotsAssumption DEF Init, InitialLinks, FreeListSound, BucketsSound, Slots
<1>2. NoSharedLink
  <2>1. \A i \in Slots : i \in Nat /\ i >= 1 /\ next[i] = IF i < NSlots THEN i + 1 ELSE 0
    BY SlotsAssumption DEF Init, InitialLinks, Slots
  <2>2. \A i, j \in Slots : next[i] # 0 /\ next[i] = next[j] => i = j
    BY <2>1, SlotsAssumption
  <2>3. \A i \in Slots : next[i] # 1
    BY <2>1, SlotsAssumption
  <2> QED BY <2>2, <2>3 DEF Init, InitialLinks, NoSharedLink
<1>3. NoOrphan
  <2> SUFFICES ASSUME NEW j \in Slots, j # 1
               PROVE  \E i \in Slots : next[i] = j
    BY DEF NoOrphan, Init
  <2>1. j - 1 \in Slots /\ j - 1 < NSlots /\ j - 1 + 1 = j
    BY SlotsAssumption DEF Slots
  <2> QED BY <2>1 DEF Init, InitialLinks
<1>4. Acyclic
  <2> SUFFICES ASSUME NEW S \in SUBSET Slots, S # {}
               PROVE  \E j \in S : \A i \in S : next[i] # j
    BY DEF Acyclic
  <2>1. S \in SUBSET Nat
    BY SlotsAssumption DEF Slots
  <2>2. PICK j \in S : \A i \in S : j <= i
    BY <2>1, LeastNat
  <2>3. ASSUME NEW i \in S PROVE next[i] # j
    <3>1. i \in 1..NSlots /\ j \in 1..NSlots /\ j <= i
      BY <2>2 DEF Slots
    <3>2. next[i] = IF i < NSlots THEN i + 1 ELSE 0
      BY DEF Init, InitialLinks
    <3> QED BY <3>1, <3>2, SlotsAssumption
  <2> QED BY <2>3
<1> QED BY <1>1, <1>2, <1>3, <1>4 DEF LinksSound

(* A set of slots that contains the head of chain b and is closed under    *)
(* next contains every slot of the chain: a walk that reaches the end has  *)
(* passed them all.                                                        *)
LEMMA WalkComplete ==
  ASSUME TypeOK, LinksSound, NEW b \in Buckets, NEW V \in SUBSET Slots,
         bucket[b] \in V \cup {0},
         \A v \in V : next[v] \in V \cup {0}
  PROVE  \A j \in Slots : section_key[j] # NoKey /\ Hash[section_key[j]] = b => j \in V
<1> DEFINE U == {j \in Slots \ V : section_key[j] # NoKey /\ Hash[section_key[j]] = b}
<1> SUFFICES ASSUME U # {} PROVE FALSE
  OBVIOUS
<1>1. U \in SUBSET Slots
  OBVIOUS
<1>2. PICK m \in U : \A i \in U : next[i] # m
  BY <1>1 DEF LinksSound, Acyclic
<1>3. m \in Slots /\ m \notin V /\ section_key[m] # NoKey /\ Hash[section_key[m]] = b
  OBVIOUS
<1>4. m # free_head
  BY <1>3, LinkFacts DEF LinksSound, FreeListSound
<1>5. ASSUME NEW c \in Buckets, bucket[c] = m PROVE FALSE
  <2>1. c = b
    BY <1>3, <1>5, LinkFacts DEF LinksSound, BucketsSound
  <2> QED BY <1>3, <1>5, <2>1, LinkFacts
<1>6. ASSUME NEW i \in Slots, next[i] = m PROVE FALSE
  <2>1. section_key[i] # NoKey
    BY <1>3, <1>6, LinkFacts DEF LinksSound, FreeListSound
  <2>2. Hash[section_key[i]] = b
    BY <1>3, <1>6, <2>1, LinkFacts DEF LinksSound, BucketsSound
  <2>3. i \in V
    BY <1>2, <1>6, <2>1, <2>2
  <2> QED BY <1>3, <1>6, <2>3, LinkFacts
<1> QED BY <1>3, <1>4, <1>5, <1>6 DEF LinksSound, NoOrphan

(* A full cache has an occupied slot. *)
LEMMA FullOccupied ==
  ASSUME TypeOK, LinksSound, free_head = 0
  PROVE  Occupied # {}
<1>1. 1 \in Slots
  BY SlotsAssumption DEF Slots
<1>2. PICK j \in Slots : \A i \in Slots : next[i] # j
  BY <1>1 DEF LinksSound, Acyclic
<1>3. PICK b \in Buckets : bucket[b] = j
  BY <1>2, LinkFacts DEF LinksSound, NoOrphan
<1>4. section_key[j] # NoKey
  BY <1>3, LinkFacts DEF LinksSound, BucketsSound
<1> QED BY <1>4 DEF Occupied

(* The first step of a walk: it is at the head of the chain and has passed *)
(* nothing.                                                                *)
LEMMA WalkStart ==
  ASSUME TypeOK, LinksSound, NEW w \in Workers,
         UNCHANGED <<bucket, next, section_key>>,
         prev'[w] = 0, ChainWalked(w)' \in Buckets, idx'[w] = bucket[ChainWalked(w)']
  PROVE  PrevSound(w)' /\ PassedSound(w)'
<1>1. PrevSound(w)'
  BY DEF PrevSound, LinksSound, BucketsSound
<1>2. PassedSound(w)'
  <2>1. {} \in SUBSET Slots
    OBVIOUS
  <2> QED BY <2>1 DEF PassedSound
<1> QED BY <1>1, <1>2

(* The next step of a walk: it moves on past a slot that is not sought. *)
LEMMA WalkNext ==
  ASSUME TypeOK, LinksSound, NEW w \in Workers, idx[w] # 0,
         PrevSound(w), PassedSound(w), ~Sought(w, idx[w]),
         UNCHANGED <<bucket, next, section_key, op, victim>>, pc'[w] = pc[w],
         prev'[w] = idx[w], idx'[w] = next[idx[w]]
  PROVE  PrevSound(w)' /\ PassedSound(w)'
<1>0. idx[w] \in Slots /\ next[idx[w]] \in Links
  BY LinkFacts DEF TypeOK
<1>1. ChainWalked(w)' = ChainWalked(w) /\ \A i \in Slots : Sought(w, i)' <=> Sought(w, i)
  BY DEF ChainWalked, Sought
<1>2. PrevSound(w)'
  <2>1. section_key[idx[w]] # NoKey /\ Hash[section_key[idx[w]]] = ChainWalked(w)
    BY DEF PrevSound
  <2>2. next[idx[w]] # 0 => /\ section_key[next[idx[w]]] # NoKey
                            /\ Hash[section_key[next[idx[w]]]] = ChainWalked(w)
    BY <1>0, <2>1 DEF LinksSound, BucketsSound
  <2> QED BY <1>0, <1>1, <2>1, <2>2 DEF PrevSound
<1>3. PassedSound(w)'
  <2>1. PICK V \in SUBSET Slots :
          /\ bucket[ChainWalked(w)] \in V \cup {idx[w]}
          /\ \A v \in V : next[v] \in V \cup {idx[w]} /\ ~Sought(w, v)
    BY DEF PassedSound
  <2> DEFINE W == V \cup {idx[w]}
  <2>2. W \in SUBSET Slots
    BY <1>0
  <2>3. /\ bucket'[ChainWalked(w)'] \in W \cup {idx'[w]}
        /\ \A v \in W : next'[v] \in W \cup {idx'[w]} /\ ~Sought(w, v)'
    BY <1>0, <1>1, <2>1
  <2> QED BY <2>2, <2>3 DEF PassedSound
<1> QED BY <1>2, <1>3

-----------------------------------------------------------------------------
(***************************************************************************)
(* The inductive invariant.                                                *)
(***************************************************************************)

(* It holds when the server starts. *)
LEMMA InvInit == Init => IInv
<1> SUFFICES ASSUME Init PROVE IInv
  OBVIOUS
<1>1. TypeOK /\ LinksSound
  BY TypeInit, InitLinks
<1>2. MutualExclusion
  BY WorkersAssumption DEF Init, InitialLinks, MutualExclusion
<1>3. UniqueKeys
  BY DEF Init, InitialLinks, UniqueKeys, Occupied
<1>4. SlotObtained
  BY DEF Init, InitialLinks, SlotObtained, NoResult, Result
<1>5. \A w \in Workers : CallSound(w)
  BY DEF Init, InitialLinks, CallSound
<1> QED BY <1>1, <1>2, <1>3, <1>4, <1>5 DEF IInv

(* What is known of a call whose locals and chains do not change. *)
LEMMA SameCall ==
  ASSUME NEW u \in Workers, CallSound(u), UNCHANGED <<bucket, next, section_key>>,
         pc'[u] = pc[u], op'[u] = op[u], idx'[u] = idx[u],
         prev'[u] = prev[u], victim'[u] = victim[u]
  PROVE  CallSound(u)'
<1>1. ChainWalked(u)' = ChainWalked(u) /\ \A i \in Slots : Sought(u, i)' <=> Sought(u, i)
  BY DEF ChainWalked, Sought
<1>2. PrevSound(u) => PrevSound(u)'
  BY <1>1 DEF PrevSound
<1>3. PassedSound(u) => PassedSound(u)'
  BY <1>1 DEF PassedSound
<1> QED BY <1>2, <1>3 DEF CallSound

(* A step of worker w leaves what is known of the other calls intact: it   *)
(* changes the lists only while w holds the mutex, when no other call is   *)
(* walking.                                                                *)
LEMMA OtherCalls ==
  ASSUME IInv, NEW w \in Workers,
         UNCHANGED <<bucket, next, section_key>> \/ mutex = w,
         \A u \in Workers \ {w} :
            /\ pc'[u] = pc[u] /\ op'[u] = op[u] /\ idx'[u] = idx[u]
            /\ prev'[u] = prev[u] /\ victim'[u] = victim[u]
  PROVE  \A u \in Workers \ {w} : CallSound(u)'
<1> SUFFICES ASSUME NEW u \in Workers \ {w} PROVE CallSound(u)'
  OBVIOUS
<1>1. CASE mutex = w
  <2>1. pc[u] \notin {"find", "unlink", "unlock"}
    BY <1>1 DEF IInv, MutualExclusion
  <2> QED BY <2>1 DEF CallSound
<1>2. CASE UNCHANGED <<bucket, next, section_key>>
  BY <1>2, SameCall DEF IInv
<1> QED BY <1>1, <1>2

(* The key and the chain of a call that walks. *)
LEMMA WalkKey ==
  ASSUME IInv, NEW w \in Workers
  PROVE  /\ pc[w] # "idle" => op[w].key \in Keys /\ Hash[op[w].key] \in Buckets
         /\ \A i \in Slots : section_key[i] # NoKey =>
              section_key[i] \in Keys /\ Hash[section_key[i]] \in Buckets
  BY HashAssumption DEF IInv, TypeOK

(* The invariant's parts that a step preserves when it moves no slot. *)
LEMMA SameLists ==
  ASSUME IInv, UNCHANGED <<free_head, bucket, next, section_key>>
  PROVE  LinksSound' /\ UniqueKeys'
<1>1. LinksSound'
  BY DEF IInv, LinksSound, FreeListSound, BucketsSound, NoSharedLink, NoOrphan, Acyclic
<1>2. UniqueKeys'
  BY DEF IInv, UniqueKeys, Occupied
<1> QED BY <1>1, <1>2

(* A call that found its entry knows the link before it. *)
LEMMA FoundLink ==
  ASSUME IInv, NEW w \in Workers, NEW t, Found(w, t)
  PROVE  LET i == idx[w] p == prev[w] b == Hash[op[w].key] IN
         /\ mutex = w /\ i \in Slots /\ p \in Links /\ b \in Buckets
         /\ section_key[i] # NoKey /\ Hash[section_key[i]] = b
         /\ p = 0 => bucket[b] = i
         /\ p # 0 => next[p] = i
<1>1. pc[w] = "find" /\ idx[w] # 0 /\ section_key[idx[w]] = op[w].key
  BY DEF Found
<1>2. mutex = w /\ PrevSound(w)
  BY <1>1 DEF IInv, MutualExclusion, CallSound
<1>3. idx[w] \in Slots /\ prev[w] \in Links
  BY <1>1, LinkFacts DEF IInv, TypeOK
<1>4. Hash[op[w].key] \in Buckets
  BY <1>1, WalkKey
<1> QED BY <1>1, <1>2, <1>3, <1>4 DEF PrevSound, ChainWalked

(* A call that reached the end of the chain: its key is in no slot. *)
LEMMA AbsentKey ==
  ASSUME IInv, NEW w \in Workers, NotFound(w)
  PROVE  \A i \in Slots : section_key[i] # op[w].key
<1>1. pc[w] = "find" /\ idx[w] = 0
  BY DEF NotFound
<1>2. PICK V \in SUBSET Slots :
        /\ bucket[Hash[op[w].key]] \in V \cup {0}
        /\ \A v \in V : next[v] \in V \cup {0} /\ section_key[v] # op[w].key
  BY <1>1 DEF IInv, CallSound, PassedSound, ChainWalked, Sought
<1>3. op[w].key \in Keys /\ Hash[op[w].key] \in Buckets /\ op[w].key # NoKey
  BY <1>1, WalkKey, KeysAssumption
<1>4. \A j \in Slots : section_key[j] # NoKey /\ Hash[section_key[j]] = Hash[op[w].key] => j \in V
  BY <1>2, <1>3, WalkComplete DEF IInv
<1> QED BY <1>2, <1>3, <1>4

(* A call that unlinks its victim never reaches the end of the chain. *)
LEMMA VictimAhead ==
  ASSUME IInv, NEW w \in Workers, pc[w] = "unlink"
  PROVE  idx[w] # 0
<1> SUFFICES ASSUME idx[w] = 0 PROVE FALSE
  OBVIOUS
<1>0. victim[w] \in Slots /\ section_key[victim[w]] # NoKey
  BY LinkFacts DEF IInv, CallSound, TypeOK
<1>1. PICK V \in SUBSET Slots :
        /\ bucket[Hash[section_key[victim[w]]]] \in V \cup {0}
        /\ \A v \in V : next[v] \in V \cup {0} /\ v # victim[w]
  BY DEF IInv, CallSound, PassedSound, ChainWalked, Sought
<1>2. Hash[section_key[victim[w]]] \in Buckets
  BY <1>0, WalkKey
<1>3. victim[w] \in V
  BY <1>0, <1>1, <1>2, WalkComplete DEF IInv
<1> QED BY <1>1, <1>3

(* No step of the cache breaks the invariant. *)
LEMMA InvStep == ASSUME IInv, [Next]_vars PROVE IInv'
<1>0. TypeOK /\ TypeOK'
  BY TypeStep DEF IInv
<1>1. CASE Tick
  <2>1. UNCHANGED <<free_head, bucket, next, section_key, mutex, pc, op, idx, prev, victim, res>>
    BY <1>1 DEF Tick, segment, locals
  <2>2. MutualExclusion' /\ SlotObtained'
    BY <2>1 DEF IInv, MutualExclusion, SlotObtained
  <2>3. \A w \in Workers : CallSound(w)'
    BY <2>1, SameCall DEF IInv
  <2> QED BY <1>0, <2>1, <2>2, <2>3, SameLists DEF IInv
<1>2. ASSUME NEW w \in Workers, Call(w) \/ LockFail(w) \/ Unlock(w) \/ Return(w)
      PROVE  IInv'
  <2>1. UNCHANGED <<free_head, bucket, next, section_key>>
    BY <1>2 DEF Call, LockFail, LockFailStep, Unlock, Return, segment
  <2>2. \A u \in Workers \ {w} :
          /\ pc'[u] = pc[u] /\ op'[u] = op[u] /\ idx'[u] = idx[u]
          /\ prev'[u] = prev[u] /\ victim'[u] = victim[u] /\ res'[u] = res[u]
    BY <1>0, <1>2 DEF TypeOK, Call, LockFail, LockFailStep, Unlock, Return, Leave, locals
  <2>3. pc'[w] \in {"idle", "lock", "return"}
    BY <1>0, <1>2 DEF TypeOK, Call, LockFail, LockFailStep, Unlock, Return, Leave
  <2>4. res'[w].status # "noslot"
    BY <1>0, <1>2, ResultType
       DEF TypeOK, Call, LockFail, LockFailStep, Unlock, Return, Leave, NoResult, Statuses
  <2>5. MutualExclusion'
    <3>1. mutex' = IF mutex = w THEN NoWorker ELSE mutex
      BY <1>2 DEF IInv, MutualExclusion, Call, LockFail, LockFailStep, Unlock, Return
    <3> QED BY <2>2, <2>3, <3>1, WorkersAssumption DEF IInv, MutualExclusion
  <2>6. SlotObtained'
    BY <2>2, <2>4 DEF IInv, SlotObtained
  <2>7. CallSound(w)'
    BY <2>3 DEF CallSound
  <2> QED BY <1>0, <2>1, <2>2, <2>5, <2>6, <2>7, SameLists, OtherCalls DEF IInv
<1>3. ASSUME NEW w \in Workers, Lock(w) PROVE IInv'
  <2>1. UNCHANGED <<free_head, bucket, next, section_key, op, victim, res>>
    BY <1>3 DEF Lock, segment
  <2>2. \A u \in Workers \ {w} :
          /\ pc'[u] = pc[u] /\ op'[u] = op[u] /\ idx'[u] = idx[u]
          /\ prev'[u] = prev[u] /\ victim'[u] = victim[u]
    BY <1>0, <1>3 DEF TypeOK, Lock
  <2>3. /\ pc'[w] = "find" /\ prev'[w] = 0 /\ idx'[w] = bucket[Hash[op[w].key]]
        /\ Hash[op[w].key] \in Buckets
    BY <1>0, <1>3, WalkKey DEF TypeOK, Lock
  <2>4. ChainWalked(w)' = Hash[op[w].key]
    BY <2>1, <2>3 DEF ChainWalked
  <2>5. CallSound(w)'
    BY <1>0, <2>1, <2>3, <2>4, WalkStart DEF IInv, CallSound
  <2>6. MutualExclusion'
    BY <1>3, <2>2, <2>3, WorkersAssumption DEF IInv, MutualExclusion, Lock
  <2>7. SlotObtained'
    BY <2>1 DEF IInv, SlotObtained
  <2> QED BY <1>0, <2>1, <2>2, <2>5, <2>6, <2>7, SameLists, OtherCalls DEF IInv
<1>4. ASSUME NEW w \in Workers, FindNext(w) PROVE IInv'
  <2>1. UNCHANGED <<free_head, bucket, next, section_key, mutex, pc, op, victim, res>>
    BY <1>4 DEF FindNext, segment
  <2>2. \A u \in Workers \ {w} : idx'[u] = idx[u] /\ prev'[u] = prev[u]
    BY <1>0, <1>4 DEF TypeOK, FindNext
  <2>3. /\ pc[w] = "find" /\ idx[w] # 0 /\ ~Sought(w, idx[w])
        /\ prev'[w] = idx[w] /\ idx'[w] = next[idx[w]]
    BY <1>0, <1>4 DEF TypeOK, FindNext, Sought
  <2>4. PrevSound(w)' /\ PassedSound(w)'
    BY <1>0, <2>1, <2>3, WalkNext DEF IInv, CallSound
  <2>5. CallSound(w)'
    BY <2>1, <2>3, <2>4 DEF CallSound
  <2>6. MutualExclusion' /\ SlotObtained'
    BY <2>1 DEF IInv, MutualExclusion, SlotObtained
  <2> QED BY <1>0, <2>1, <2>2, <2>5, <2>6, SameLists, OtherCalls DEF IInv
<1>5. ASSUME NEW w \in Workers, NEW s \in Statuses, NEW v \in Values \cup {NoValue},
             Finish(w, s, v), s # "noslot", pc[w] \in {"find", "unlink"},
             UNCHANGED <<mutex, now, op, idx, prev, victim, time>>,
             LinksSound', UniqueKeys'
      PROVE  IInv'
  <2>1. mutex = w
    BY <1>5 DEF IInv, MutualExclusion
  <2>2. pc'[w] = "unlock" /\ \A u \in Workers \ {w} : pc'[u] = pc[u] /\ res'[u] = res[u]
    BY <1>0, <1>5 DEF TypeOK, Finish
  <2>3. res'[w].status # "noslot"
    BY <1>0, <1>5, ResultType DEF TypeOK, Finish
  <2>4. SlotObtained'
    BY <2>2, <2>3 DEF IInv, SlotObtained
  <2>5. MutualExclusion'
    BY <1>5, <2>1, <2>2 DEF IInv, MutualExclusion
  <2>6. CallSound(w)'
    BY <2>2 DEF CallSound
  <2> QED BY <1>0, <1>5, <2>1, <2>2, <2>4, <2>5, <2>6, OtherCalls DEF IInv
<1>6. ASSUME NEW w \in Workers, GetHit(w) PROVE IInv'
  <2>1. value[idx[w]] \in Values \cup {NoValue}
    BY <1>0, <1>6, FoundLink DEF TypeOK, GetHit
  <2> QED BY <1>5, <1>6, <2>1, SameLists DEF GetHit, Found, locals, Statuses
<1>7. ASSUME NEW w \in Workers, Miss(w) PROVE IInv'
  BY <1>5, <1>7, SameLists DEF Miss, NotFound, locals, segment, Statuses
<1>8. ASSUME NEW w \in Workers, SetUpdate(w) PROVE IInv'
  BY <1>5, <1>8, SameLists DEF SetUpdate, Found, locals, Statuses
<1>9. ASSUME NEW w \in Workers, GetExpired(w) \/ DelHit(w) PROVE IInv'
  <2>1. /\ Found(w, op[w].type) /\ Remove(w) /\ Finish(w, "ok", NoValue)
        /\ UNCHANGED <<mutex, now, op, idx, prev, victim, time>>
    BY <1>9 DEF GetExpired, DelHit, Found, locals
  <2>2. LinksSound'
    BY <1>0, <2>1, FoundLink, RemoveLinks DEF IInv, Remove
  <2>3. UniqueKeys'
    BY <1>0, <2>1, FoundLink DEF TypeOK, IInv, UniqueKeys, Occupied, Remove, SlotFree
  <2> QED BY <1>5, <2>1, <2>2, <2>3 DEF Found, Statuses
<1>10. ASSUME NEW w \in Workers, NEW i \in Slots,
              \A j \in Slots : section_key[j] # op[w].key,
              section_key' = [section_key EXCEPT ![i] = op[w].key]
       PROVE  UniqueKeys'
  BY <1>0, <1>10 DEF TypeOK, IInv, UniqueKeys, Occupied
<1>11. ASSUME NEW w \in Workers, SetFree(w) PROVE IInv'
  <2>1. /\ free_head \in Slots /\ op[w].key \in Keys
        /\ \A j \in Slots : section_key[j] # op[w].key
    BY <1>0, <1>11, AbsentKey, WalkKey, LinkFacts DEF TypeOK, SetFree, NotFound
  <2>2. LinksSound'
    BY <1>0, <1>11, <2>1, SetFreeLinks DEF IInv, SetFree, EntryInsert
  <2>3. UniqueKeys'
    BY <1>10, <1>11, <2>1 DEF SetFree, EntryInsert
  <2> QED BY <1>5, <1>11, <2>2, <2>3 DEF SetFree, NotFound, locals, Statuses
<1>12. ASSUME NEW w \in Workers, EvictStart(w) PROVE IInv'
  <2>1. PICK v \in Links :
          /\ IsVictim(v, now)
          /\ victim' = [victim EXCEPT ![w] = v]
          /\ idx' = [idx EXCEPT ![w] = IF v = 0 THEN 0 ELSE bucket[Hash[section_key[v]]]]
    BY <1>12 DEF EvictStart, UnlinkHead
  <2>2. UNCHANGED <<free_head, bucket, next, section_key, mutex, op, res>>
    BY <1>12 DEF EvictStart, segment
  <2>3. v \in Slots /\ section_key[v] # NoKey /\ Hash[section_key[v]] \in Buckets
    <3>1. Occupied # {}
      BY <1>0, <1>12, FullOccupied DEF IInv, EvictStart
    <3>2. v \in Occupied
      BY <2>1, <3>1 DEF IsVictim, First, Expired, Oldest
    <3> QED BY <3>2, WalkKey DEF Occupied
  <2>4. /\ pc[w] = "find" /\ pc'[w] = "unlink" /\ prev'[w] = 0 /\ victim'[w] = v
        /\ idx'[w] = bucket[Hash[section_key[v]]]
    BY <1>0, <1>12, <2>1, <2>3, LinkFacts DEF TypeOK, EvictStart, NotFound
  <2>5. \A u \in Workers \ {w} :
          pc'[u] = pc[u] /\ idx'[u] = idx[u] /\ prev'[u] = prev[u] /\ victim'[u] = victim[u]
    BY <1>0, <1>12, <2>1 DEF TypeOK, EvictStart
  <2>6. ChainWalked(w)' = Hash[section_key[v]]
    BY <2>2, <2>4 DEF ChainWalked
  <2>7. PrevSound(w)' /\ PassedSound(w)'
    BY <1>0, <2>2, <2>3, <2>4, <2>6, WalkStart DEF IInv
  <2>8. \A i \in Slots : section_key[i] # op[w].key
    BY <1>12, AbsentKey DEF EvictStart
  <2>9. CallSound(w)'
    BY <2>2, <2>3, <2>4, <2>7, <2>8, LinkFacts DEF CallSound
  <2>10. MutualExclusion' /\ SlotObtained'
    BY <2>2, <2>4, <2>5 DEF IInv, MutualExclusion, SlotObtained
  <2> QED BY <1>0, <2>2, <2>5, <2>9, <2>10, SameLists, OtherCalls DEF IInv
<1>13. ASSUME NEW w \in Workers, UnlinkNext(w) PROVE IInv'
  <2>0. pc[w] = "unlink" /\ idx[w] # 0
    BY <1>13, VictimAhead DEF UnlinkNext
  <2>1. UNCHANGED <<free_head, bucket, next, section_key, mutex, pc, op, victim, res>>
    BY <1>13, <2>0 DEF UnlinkNext, segment
  <2>2. \A u \in Workers \ {w} : idx'[u] = idx[u] /\ prev'[u] = prev[u]
    BY <1>0, <1>13, <2>0 DEF TypeOK, UnlinkNext
  <2>3. ~Sought(w, idx[w]) /\ prev'[w] = idx[w] /\ idx'[w] = next[idx[w]]
    BY <1>0, <1>13, <2>0 DEF TypeOK, UnlinkNext, Sought
  <2>4. PrevSound(w)' /\ PassedSound(w)'
    BY <1>0, <2>0, <2>1, <2>3, WalkNext DEF IInv, CallSound
  <2>5. CallSound(w)'
    BY <2>0, <2>1, <2>4 DEF IInv, CallSound
  <2>6. MutualExclusion' /\ SlotObtained'
    BY <2>1 DEF IInv, MutualExclusion, SlotObtained
  <2> QED BY <1>0, <2>1, <2>2, <2>5, <2>6, SameLists, OtherCalls DEF IInv
<1>14. ASSUME NEW w \in Workers, EvictInsert(w) PROVE IInv'
  <2> DEFINE i == victim[w]
             p == prev[w]
             b == Hash[section_key[i]]
             k == op[w].key
  <2>1. pc[w] = "unlink" /\ idx[w] # 0 /\ idx[w] = i
    BY <1>14 DEF EvictInsert
  <2>2. i \in Slots /\ section_key[i] # NoKey /\ p \in Links
    BY <1>0, <2>1, LinkFacts DEF IInv, CallSound, TypeOK
  <2>3. b \in Buckets /\ k \in Keys
    BY <2>1, <2>2, WalkKey
  <2>4. (p = 0 => bucket[b] = i) /\ (p # 0 => next[p] = i)
    BY <2>1 DEF IInv, CallSound, PrevSound, ChainWalked
  <2>5. \A j \in Slots : section_key[j] # k
    BY <2>1 DEF IInv, CallSound
  <2>6. LinksSound'
    BY <1>0, <1>14, <2>2, <2>3, <2>4, EvictLinks DEF IInv, EvictInsert, EntryInsert
  <2>7. UniqueKeys'
    BY <1>10, <1>14, <2>2, <2>5 DEF EvictInsert, EntryInsert
  <2> QED BY <1>5, <1>14, <2>1, <2>6, <2>7 DEF EvictInsert, locals, Statuses
<1>15. CASE UNCHANGED vars
  <2>1. UNCHANGED <<free_head, bucket, next, section_key, mutex, pc, op, idx, prev, victim, res>>
    BY <1>15 DEF vars
  <2>2. MutualExclusion' /\ SlotObtained'
    BY <2>1 DEF IInv, MutualExclusion, SlotObtained
  <2>3. \A w \in Workers : CallSound(w)'
    BY <2>1, SameCall DEF IInv
  <2> QED BY <1>0, <2>1, <2>2, <2>3, SameLists DEF IInv
<1> QED
  BY <1>1, <1>2, <1>3, <1>4, <1>6, <1>7, <1>8, <1>9, <1>11, <1>12, <1>13, <1>14, <1>15
     DEF Next, Holding

(* The inductive invariant holds in every reachable state of the segment:  *)
(* the free list and the bucket chains of cache/shm.c partition the slots  *)
(* without a cycle, and every walk knows the link before it.               *)
THEOREM Invariance == Spec => []IInv
<1>1. IInv /\ [Next]_vars => IInv'
  BY InvStep
<1> QED
  BY InvInit, <1>1, PTL DEF Spec

(* Types: the free list, the buckets and the slots hold links between 0    *)
(* and NSlots, and a call under way has a key.                             *)
THEOREM TypeCorrect == Spec => []TypeOK
<1>1. IInv => TypeOK
  BY DEF IInv
<1> QED
  BY Invariance, <1>1, PTL

(* oidc_cache_mutex_lock keeps calls apart, whatever their number and also *)
(* when taking the mutex fails.                                            *)
THEOREM MutexCorrect == Spec => []MutualExclusion
<1>1. IInv => MutualExclusion
  BY DEF IInv
<1> QED
  BY Invariance, <1>1, PTL

(* oidc_cache_shm_set never stores a key twice, for any number of slots,   *)
(* buckets and callers.                                                    *)
THEOREM KeysUnique == Spec => []UniqueKeys
<1>1. IInv => UniqueKeys
  BY DEF IInv
<1> QED
  BY Invariance, <1>1, PTL

(* oidc_cache_shm_set never reports "could not obtain a cache slot": the   *)
(* eviction scan finds a victim and the walk of its chain reaches it.      *)
THEOREM SlotAlwaysObtained == Spec => []SlotObtained
<1>1. IInv => SlotObtained
  BY DEF IInv
<1> QED
  BY Invariance, <1>1, PTL

-----------------------------------------------------------------------------
(***************************************************************************)
(* The segment implements a cache (module Cache).                          *)
(***************************************************************************)

(* What the refinement needs to know of a call besides IInv: a call that   *)
(* has not begun has no result, the clock is not read before the mutex is  *)
(* taken, and while the victim's chain is walked the cache is full and the *)
(* victim is still the one that the scan chose.                            *)
StageSound(w) ==
    /\ pc[w] = "idle" => res[w] = NoResult
    /\ pc[w] \in {"idle", "lock"} => time[w] = 0
    /\ pc[w] = "unlink" => op[w].type = "set" /\ free_head = 0 /\ IsVictim(victim[w], time[w])

Stages == \A w \in Workers : StageSound(w)

(* No call has begun when the server starts. *)
LEMMA StagesInit == Init => Stages
  BY DEF Init, Stages, StageSound

(* The scan would choose the same victim if the entries are the same. *)
LEMMA SameStage ==
  ASSUME NEW u \in Workers, StageSound(u), UNCHANGED <<free_head, section_key, access, expires>>,
         pc'[u] = pc[u], op'[u] = op[u], victim'[u] = victim[u], time'[u] = time[u], res'[u] = res[u]
  PROVE  StageSound(u)'
<1>1. IsVictim(victim[u], time[u])' <=> IsVictim(victim[u], time[u])
  BY DEF IsVictim, First, Expired, Oldest, Occupied
<1> QED
  BY <1>1 DEF StageSound

(* Only the holder of the mutex changes the entries, and no other call is  *)
(* in an eviction then.                                                    *)
LEMMA OtherStages ==
  ASSUME IInv, Stages, NEW w \in Workers,
         UNCHANGED <<free_head, section_key, access, expires>> \/ mutex = w,
         \A u \in Workers \ {w} :
            /\ pc'[u] = pc[u] /\ op'[u] = op[u] /\ victim'[u] = victim[u]
            /\ time'[u] = time[u] /\ res'[u] = res[u],
         StageSound(w)'
  PROVE  Stages'
<1> SUFFICES ASSUME NEW u \in Workers, u # w PROVE StageSound(u)'
  BY DEF Stages
<1>1. CASE mutex = w
  <2>1. pc[u] # "unlink"
    BY <1>1 DEF IInv, MutualExclusion
  <2> QED
    BY <2>1 DEF Stages, StageSound
<1>2. CASE UNCHANGED <<free_head, section_key, access, expires>>
  BY <1>2, SameStage DEF Stages
<1> QED
  BY <1>1, <1>2

(* No step breaks what is known of the stages. *)
LEMMA StagesStep == ASSUME IInv, Stages, [Next]_vars PROVE Stages'
<1>0. TypeOK
  BY DEF IInv
<1>1. CASE Tick
  BY <1>1, SameStage DEF Tick, segment, locals, Stages
<1>2. ASSUME NEW w \in Workers, Call(w) PROVE Stages'
  <2>1. UNCHANGED <<free_head, section_key, access, expires, victim, time>> /\ pc[w] = "idle"
    BY <1>2 DEF Call, segment
  <2>2. /\ pc'[w] \in {"lock", "return"}
        /\ \A u \in Workers \ {w} : pc'[u] = pc[u] /\ op'[u] = op[u] /\ res'[u] = res[u]
    BY <1>0, <1>2 DEF Call, TypeOK
  <2>3. StageSound(w)'
    BY <2>1, <2>2 DEF Stages, StageSound
  <2> QED
    BY <2>1, <2>2, <2>3, OtherStages
<1>3. ASSUME NEW w \in Workers, Lock(w) PROVE Stages'
  <2>1. UNCHANGED <<free_head, section_key, access, expires, op, victim, res>>
    BY <1>3 DEF Lock, segment
  <2>2. /\ pc'[w] = "find"
        /\ \A u \in Workers \ {w} : pc'[u] = pc[u] /\ time'[u] = time[u]
    BY <1>0, <1>3 DEF Lock, TypeOK
  <2>3. StageSound(w)'
    BY <2>2 DEF StageSound
  <2> QED
    BY <2>1, <2>2, <2>3, OtherStages
<1>4. ASSUME NEW w \in Workers, LockFail(w) PROVE Stages'
  <2>1. UNCHANGED <<free_head, section_key, access, expires, op, victim, time>>
    BY <1>4 DEF LockFail, LockFailStep, segment, locals
  <2>2. /\ pc'[w] = "return"
        /\ \A u \in Workers \ {w} : pc'[u] = pc[u] /\ res'[u] = res[u]
    BY <1>0, <1>4 DEF LockFail, LockFailStep, TypeOK
  <2>3. StageSound(w)'
    BY <2>2 DEF StageSound
  <2> QED
    BY <2>1, <2>2, <2>3, OtherStages
<1>5. ASSUME NEW w \in Workers, FindNext(w) PROVE Stages'
  BY <1>5, SameStage DEF FindNext, segment, Stages
<1>6. ASSUME NEW w \in Workers, NEW s, NEW v, Finish(w, s, v), mutex = w,
             UNCHANGED <<op, victim, time>>
      PROVE  Stages'
  <2>1. /\ pc'[w] = "unlock"
        /\ \A u \in Workers \ {w} : pc'[u] = pc[u] /\ res'[u] = res[u]
    BY <1>0, <1>6 DEF Finish, TypeOK
  <2>2. StageSound(w)'
    BY <2>1 DEF StageSound
  <2> QED
    BY <1>6, <2>1, <2>2, OtherStages
<1>7. ASSUME NEW w \in Workers, pc[w] \in {"find", "unlink"} PROVE mutex = w
  BY <1>7 DEF IInv, MutualExclusion
<1>8. ASSUME NEW w \in Workers,
             GetHit(w) \/ GetExpired(w) \/ DelHit(w) \/ Miss(w) \/ SetUpdate(w) \/ SetFree(w) \/ EvictInsert(w)
      PROVE  Stages'
  <2>1. pc[w] \in {"find", "unlink"} /\ UNCHANGED <<op, victim, time>>
    BY <1>8 DEF GetHit, GetExpired, DelHit, Miss, SetUpdate, SetFree, EvictInsert, Found, NotFound, locals
  <2>2. \E s, v : Finish(w, s, v)
    BY <1>8 DEF GetHit, GetExpired, DelHit, Miss, SetUpdate, SetFree, EvictInsert
  <2> QED
    BY <1>6, <1>7, <2>1, <2>2
<1>9. ASSUME NEW w \in Workers, EvictStart(w) PROVE Stages'
  <2>1. /\ UNCHANGED <<free_head, section_key, access, expires, op, res>>
        /\ free_head = 0 /\ op[w].type = "set"
    BY <1>9 DEF EvictStart, segment
  <2>2. PICK v \in Links : IsVictim(v, now) /\ victim' = [victim EXCEPT ![w] = v]
    BY <1>9 DEF EvictStart
  <2>3. /\ pc'[w] = "unlink" /\ time'[w] = now /\ victim'[w] = v
        /\ \A u \in Workers \ {w} : pc'[u] = pc[u] /\ time'[u] = time[u] /\ victim'[u] = victim[u]
    BY <1>0, <1>9, <2>2 DEF EvictStart, TypeOK
  <2>4. IsVictim(victim[w], time[w])'
    BY <2>1, <2>2, <2>3 DEF IsVictim, First, Expired, Oldest, Occupied
  <2>5. StageSound(w)'
    BY <2>1, <2>3, <2>4 DEF StageSound
  <2> QED
    BY <2>1, <2>3, <2>5, OtherStages
<1>10. ASSUME NEW w \in Workers, UnlinkNext(w) PROVE Stages'
  <2>1. idx[w] # 0
    BY <1>10, VictimAhead DEF UnlinkNext
  <2> QED
    BY <1>10, <2>1, SameStage DEF UnlinkNext, segment, Stages
<1>11. ASSUME NEW w \in Workers, Unlock(w) \/ Return(w) PROVE Stages'
  <2>1. UNCHANGED <<free_head, section_key, access, expires>> /\ Leave(w)
    BY <1>11 DEF Unlock, Return, segment
  <2>2. /\ pc'[w] = "idle" /\ res'[w] = NoResult /\ time'[w] = 0
        /\ \A u \in Workers \ {w} :
             /\ pc'[u] = pc[u] /\ op'[u] = op[u] /\ victim'[u] = victim[u]
             /\ time'[u] = time[u] /\ res'[u] = res[u]
    BY <1>0, <2>1 DEF Leave, TypeOK
  <2>3. StageSound(w)'
    BY <2>2 DEF StageSound
  <2> QED
    BY <2>1, <2>2, <2>3, OtherStages
<1>12. CASE UNCHANGED vars
  BY <1>12, SameStage DEF vars, Stages
<1> QED
  BY <1>1, <1>2, <1>3, <1>4, <1>5, <1>8, <1>9, <1>10, <1>11, <1>12 DEF Next, Holding

-----------------------------------------------------------------------------
(* The abstract entry of a key that a slot holds, and of one that none     *)
(* holds.                                                                  *)
EntryOf(i) == [value |-> value[i], expires |-> expires[i], access |-> access[i], present |-> TRUE]

(* The entry of a key that slot i holds is that of the slot. *)
LEMMA Entries ==
  ASSUME TypeOK, UniqueKeys, NEW k \in Keys
  PROVE  /\ \A i \in Slots : section_key[i] = k => StoredEntries[k] = EntryOf(i)
         /\ (\A i \in Slots : section_key[i] # k) => StoredEntries[k] = Abstract!NoEntry
<1>1. ASSUME NEW i \in Slots, section_key[i] = k PROVE SlotOf(k) = i
  <2>1. SlotOf(k) \in Slots /\ section_key[SlotOf(k)] = k
    BY <1>1 DEF SlotOf
  <2> QED
    BY <1>1, <2>1, KeysAssumption DEF UniqueKeys, Occupied
<1>2. ASSUME NEW i \in Slots, section_key[i] = k PROVE StoredEntries[k] = EntryOf(i)
  BY <1>1, <1>2 DEF StoredEntries, EntryOf
<1>3. ASSUME \A i \in Slots : section_key[i] # k PROVE StoredEntries[k] = Abstract!NoEntry
  BY <1>3 DEF StoredEntries, Abstract!NoEntry
<1> QED
  BY <1>2, <1>3

(* The same in the next state. *)
LEMMA NextEntries ==
  ASSUME TypeOK', UniqueKeys', NEW k \in Keys
  PROVE  /\ \A i \in Slots : section_key'[i] = k => StoredEntries'[k] = EntryOf(i)'
         /\ (\A i \in Slots : section_key'[i] # k) => StoredEntries'[k] = Abstract!NoEntry
<1>1. ASSUME NEW i \in Slots, section_key'[i] = k PROVE SlotOf(k)' = i
  <2>1. SlotOf(k)' \in Slots /\ section_key'[SlotOf(k)'] = k
    BY <1>1 DEF SlotOf
  <2> QED
    BY <1>1, <2>1, KeysAssumption DEF UniqueKeys, Occupied
<1>2. ASSUME NEW i \in Slots, section_key'[i] = k PROVE StoredEntries'[k] = EntryOf(i)'
  BY <1>1, <1>2 DEF StoredEntries, EntryOf
<1>3. ASSUME \A i \in Slots : section_key'[i] # k PROVE StoredEntries'[k] = Abstract!NoEntry
  BY <1>3 DEF StoredEntries, Abstract!NoEntry
<1> QED
  BY <1>2, <1>3

(* A key whose slot does not change keeps its entry, also when it has none. *)
LEMMA KeptEntry ==
  ASSUME TypeOK, UniqueKeys, TypeOK', UniqueKeys', NEW k \in Keys,
         \A i \in Slots : section_key'[i] = k <=> section_key[i] = k,
         \A i \in Slots : section_key[i] = k => EntryOf(i)' = EntryOf(i)
  PROVE  StoredEntries'[k] = StoredEntries[k]
<1>1. CASE \E i \in Slots : section_key[i] = k
  <2>1. PICK i \in Slots : section_key[i] = k
    BY <1>1
  <2>2. StoredEntries[k] = EntryOf(i) /\ StoredEntries'[k] = EntryOf(i)'
    BY <2>1, Entries, NextEntries
  <2> QED
    BY <2>1, <2>2
<1>2. CASE \A i \in Slots : section_key[i] # k
  BY <1>2, Entries, NextEntries
<1> QED
  BY <1>1, <1>2

(* The entries are a function on the keys. *)
LEMMA EntriesDomain == StoredEntries = [k \in Keys |-> StoredEntries[k]] /\ StoredEntries' = [k \in Keys |-> StoredEntries'[k]]
  BY DEF StoredEntries

(* A step that changes the entry of one key only. *)
LEMMA OneEntry ==
  ASSUME NEW k \in Keys, NEW e, StoredEntries'[k] = e,
         \A l \in Keys \ {k} : StoredEntries'[l] = StoredEntries[l]
  PROVE  StoredEntries' = [StoredEntries EXCEPT ![k] = e]
  BY EntriesDomain

(* A step that drops the entry of one key and makes that of another. *)
LEMMA TwoEntries ==
  ASSUME NEW k \in Keys, NEW v \in Keys, k # v, NEW e, NEW d, StoredEntries'[k] = e, StoredEntries'[v] = d,
         \A l \in Keys \ {k, v} : StoredEntries'[l] = StoredEntries[l]
  PROVE  StoredEntries' = [StoredEntries EXCEPT ![v] = d, ![k] = e]
  BY EntriesDomain

(* A step that leaves the slots alone leaves the entries alone. *)
LEMMA SameEntries ==
  ASSUME UNCHANGED <<section_key, value, expires, access>>
  PROVE  StoredEntries' = StoredEntries
  BY DEF StoredEntries, SlotOf

(* A step of worker w changes the phase of its own call only. *)
LEMMA PhaseStep ==
  ASSUME TypeOK, NEW w \in Workers, NEW p, pc' = [pc EXCEPT ![w] = p]
  PROVE  /\ p = "idle" => Phases' = [Phases EXCEPT ![w] = "idle"]
         /\ p \in {"lock", "find", "unlink"} => Phases' = [Phases EXCEPT ![w] = "pending"]
         /\ p \in {"unlock", "return"} => Phases' = [Phases EXCEPT ![w] = "done"]
<1>1. \A u \in Workers : u # w => pc'[u] = pc[u]
  BY DEF TypeOK
<1>2. pc'[w] = p
  BY DEF TypeOK
<1>3. \A u \in Workers : u # w => Phases'[u] = Phases[u]
  BY <1>1 DEF Phases
<1>4. /\ p = "idle" => Phases'[w] = "idle"
      /\ p \in {"lock", "find", "unlink"} => Phases'[w] = "pending"
      /\ p \in {"unlock", "return"} => Phases'[w] = "done"
  BY <1>2 DEF Phases
<1>5. Phases = [u \in Workers |-> Phases[u]] /\ Phases' = [u \in Workers |-> Phases'[u]]
  BY DEF Phases
<1> QED
  BY <1>3, <1>4, <1>5

(* The phase of a call, by its step. *)
LEMMA PhaseNow ==
  ASSUME NEW w \in Workers
  PROVE  /\ pc[w] = "idle" => Phases[w] = "idle"
         /\ pc[w] \in {"lock", "find", "unlink"} => Phases[w] = "pending"
         /\ pc[w] \in {"unlock", "return"} => Phases[w] = "done"
  BY DEF Phases

(* The initial segment is an empty cache. *)
LEMMA RefineInit == Init => Abstract!Init
<1> SUFFICES ASSUME Init PROVE Abstract!Init
  OBVIOUS
<1>1. StoredEntries = [k \in Keys |-> Abstract!NoEntry]
  BY KeysAssumption DEF Init, StoredEntries, Abstract!NoEntry
<1>2. Phases = [w \in Workers |-> "idle"]
  BY DEF Init, Phases
<1> QED
  BY <1>1, <1>2 DEF Init, Abstract!Init, NoOp, Abstract!NoRequest, NoResult, Result, Abstract!NoReply

(* The steps that do not touch the entries. *)
LEMMA RefineOutside ==
  ASSUME IInv, Stages, NEW w \in Workers,
         Call(w) \/ Lock(w) \/ LockFail(w) \/ FindNext(w) \/ EvictStart(w) \/ UnlinkNext(w) \/ Unlock(w) \/ Return(w)
  PROVE  [Abstract!Next]_(Abstract!vars)
<1>0. TypeOK
  BY DEF IInv
<1>s. StoredEntries' = StoredEntries
  BY SameEntries DEF Call, Lock, LockFail, LockFailStep, FindNext, EvictStart, UnlinkNext, Unlock, Return, segment
<1>1. CASE Call(w)
  <2>1. PICK o \in Requests :
          /\ op' = [op EXCEPT ![w] = o]
          /\ pc' = [pc EXCEPT ![w] = IF Fits(o) THEN "lock" ELSE "return"]
          /\ res' = [res EXCEPT ![w] = IF Fits(o) THEN NoResult ELSE Result("rejected", NoValue)]
    BY <1>1 DEF Call
  <2>2. o \in Abstract!Requests /\ (Abstract!Accepted(o) <=> Fits(o))
    BY DEF Requests, Abstract!Requests, Fits, Abstract!Accepted
  <2>3. Phases[w] = "idle" /\ res[w] = NoResult /\ UNCHANGED <<now, time>>
    BY <1>1, PhaseNow DEF Call, Stages, StageSound
  <2>4. CASE Fits(o)
    <3>1. Phases' = [Phases EXCEPT ![w] = "pending"]
      BY <1>0, <2>1, <2>4, PhaseStep
    <3>2. res' = res
      BY <1>0, <2>1, <2>3, <2>4 DEF TypeOK
    <3>3. Abstract!Call(w)
      BY <1>s, <2>1, <2>2, <2>3, <2>4, <3>1, <3>2 DEF Abstract!Call
    <3> QED
      BY <3>3 DEF Abstract!Next
  <2>5. CASE ~Fits(o)
    <3>1. Phases' = [Phases EXCEPT ![w] = "done"]
      BY <1>0, <2>1, <2>5, PhaseStep
    <3>2. res' = [res EXCEPT ![w] = Result("rejected", NoValue)]
      BY <2>1, <2>5
    <3>3. Abstract!Call(w)
      BY <1>s, <2>1, <2>2, <2>3, <2>5, <3>1, <3>2 DEF Abstract!Call, Abstract!Answer, Result
    <3> QED
      BY <3>3 DEF Abstract!Next
  <2> QED
    BY <2>4, <2>5
<1>2. CASE Lock(w)
  <2>1. Phases[w] = "pending" /\ time[w] = 0 /\ UNCHANGED <<now, op, res>>
    BY <1>2, PhaseNow DEF Lock, Stages, StageSound
  <2>2. Phases' = [Phases EXCEPT ![w] = "pending"]
    BY <1>0, <1>2, PhaseStep DEF Lock
  <2>3. Phases' = Phases
    BY <2>1, <2>2 DEF Phases
  <2>4. CASE op[w].type = "get"
    BY <1>2, <1>s, <2>1, <2>3, <2>4 DEF Lock, Abstract!Next, Abstract!ReadClock
  <2>5. CASE op[w].type # "get"
    <3>1. time' = time
      BY <1>0, <1>2, <2>1, <2>5 DEF Lock, TypeOK
    <3> QED
      BY <1>s, <2>1, <2>3, <3>1 DEF Abstract!vars
  <2> QED
    BY <2>4, <2>5
<1>3. CASE LockFail(w)
  <2>1. Phases[w] = "pending" /\ UNCHANGED <<now, op, time>>
    BY <1>3, PhaseNow DEF LockFail, LockFailStep, locals
  <2>2. Phases' = [Phases EXCEPT ![w] = "done"]
    BY <1>0, <1>3, PhaseStep DEF LockFail, LockFailStep
  <2>3. Abstract!Fail(w)
    BY <1>3, <1>s, <2>1, <2>2 DEF LockFail, LockFailStep, Abstract!Fail, Abstract!Answer, Result
  <2> QED
    BY <2>3 DEF Abstract!Next
<1>4. CASE FindNext(w)
  <2>1. UNCHANGED <<now, op, time, res, pc>>
    BY <1>4 DEF FindNext
  <2> QED
    BY <1>s, <2>1 DEF Abstract!vars, Phases
<1>5. CASE EvictStart(w)
  <2>1. Phases[w] = "pending" /\ UNCHANGED <<now, op, res>>
    BY <1>5, PhaseNow DEF EvictStart, NotFound
  <2>2. Phases' = [Phases EXCEPT ![w] = "pending"]
    BY <1>0, <1>5, PhaseStep DEF EvictStart
  <2>3. Phases' = Phases
    BY <2>1, <2>2 DEF Phases
  <2>4. Abstract!ReadClock(w)
    BY <1>5, <1>s, <2>1, <2>3 DEF EvictStart, Abstract!ReadClock
  <2> QED
    BY <2>4 DEF Abstract!Next
<1>6. CASE UnlinkNext(w)
  <2>1. idx[w] # 0
    BY <1>6, VictimAhead DEF UnlinkNext
  <2>2. UNCHANGED <<now, op, time, res, pc>>
    BY <1>6, <2>1 DEF UnlinkNext
  <2> QED
    BY <1>s, <2>2 DEF Abstract!vars, Phases
<1>7. CASE Unlock(w) \/ Return(w)
  <2>1. Phases[w] = "done" /\ UNCHANGED now /\ Leave(w)
    BY <1>7, PhaseNow DEF Unlock, Return
  <2>2. Phases' = [Phases EXCEPT ![w] = "idle"]
    BY <1>0, <2>1, PhaseStep DEF Leave
  <2>3. Abstract!Return(w)
    BY <1>s, <2>1, <2>2 DEF Leave, Abstract!Return, NoOp, Abstract!NoRequest, NoResult, Result, Abstract!NoReply
  <2> QED
    BY <2>3 DEF Abstract!Next
<1> QED
  BY <1>1, <1>2, <1>3, <1>4, <1>5, <1>6, <1>7

-----------------------------------------------------------------------------
(* A call that ends in Finish answers in the abstract cache. *)
LEMMA RefineFinish ==
  ASSUME TypeOK, NEW w \in Workers, NEW s, NEW v, Finish(w, s, v), pc[w] \in {"find", "unlink"}
  PROVE  Phases[w] = "pending" /\ Abstract!Answer(w, s, v)
<1>1. Phases[w] = "pending"
  BY PhaseNow
<1>2. Phases' = [Phases EXCEPT ![w] = "done"]
  BY PhaseStep DEF Finish
<1> QED
  BY <1>1, <1>2 DEF Finish, Abstract!Answer, Result

(* Taking the found entry off its chain deletes its key and nothing else. *)
LEMMA RefineRemove ==
  ASSUME IInv, IInv', NEW w \in Workers, NEW t, Found(w, t), Remove(w)
  PROVE  StoredEntries' = [StoredEntries EXCEPT ![op[w].key] = Abstract!NoEntry]
<1>0. TypeOK /\ TypeOK' /\ UniqueKeys /\ UniqueKeys'
  BY DEF IInv
<1> DEFINE i == idx[w]
           k == op[w].key
<1>1. i \in Slots /\ section_key[i] = k /\ k \in Keys /\ k # NoKey
  BY FoundLink, WalkKey, KeysAssumption DEF Found
<1>2. /\ section_key'[i] = NoKey
      /\ \A j \in Slots \ {i} : section_key'[j] = section_key[j] /\ access'[j] = access[j]
      /\ UNCHANGED <<expires, value>>
  BY <1>0, <1>1 DEF Remove, SlotFree, TypeOK
<1>3. \A j \in Slots : section_key'[j] # k
  BY <1>0, <1>1, <1>2 DEF UniqueKeys, Occupied
<1>4. StoredEntries'[k] = Abstract!NoEntry
  BY <1>0, <1>1, <1>3, NextEntries
<1>5. ASSUME NEW l \in Keys \ {k} PROVE StoredEntries'[l] = StoredEntries[l]
  <2>1. \A j \in Slots : section_key'[j] = l <=> section_key[j] = l
    BY <1>1, <1>2, <1>5, KeysAssumption
  <2>2. \A j \in Slots : section_key[j] = l => EntryOf(j)' = EntryOf(j)
    BY <1>1, <1>2, <1>5 DEF EntryOf
  <2> QED
    BY <1>0, <2>1, <2>2, KeptEntry
<1> QED
  BY <1>1, <1>4, <1>5, OneEntry

(* An entry that is used changes its time of access only. *)
LEMMA Touched ==
  ASSUME NEW v, NEW e, NEW a, NEW t
  PROVE  [[value |-> v, expires |-> e, access |-> a, present |-> TRUE] EXCEPT !.access = t]
            = [value |-> v, expires |-> e, access |-> t, present |-> TRUE]
<1>1. PICK p : p = TRUE
  OBVIOUS
<1>2. [[value |-> v, expires |-> e, access |-> a, present |-> p] EXCEPT !.access = t]
         = [value |-> v, expires |-> e, access |-> t, present |-> p]
  OBVIOUS
<1> QED
  BY <1>1, <1>2, Zenon

(* A get answers with the entry of its key if it has not expired, and a    *)
(* delete drops it.                                                        *)
LEMMA RefineGetDelete ==
  ASSUME IInv, IInv', NEW w \in Workers, GetHit(w) \/ GetExpired(w) \/ DelHit(w) \/ Miss(w)
  PROVE  Abstract!Next
<1>0. TypeOK /\ TypeOK' /\ UniqueKeys /\ UniqueKeys'
  BY DEF IInv
<1> DEFINE i == idx[w]
           k == op[w].key
<1>1. CASE GetHit(w)
  <2>1. /\ idx[w] \in Slots /\ section_key[idx[w]] = k /\ k \in Keys /\ op[w].type = "get" /\ pc[w] = "find"
        /\ UNCHANGED <<section_key, expires, value, now, op, time>>
    BY <1>1, FoundLink, WalkKey DEF GetHit, Found, locals
  <2>0. PICK n \in Slots : n = idx[w]
    BY <2>1
  <2>k. section_key[n] = k /\ section_key'[n] = k
    BY <2>0, <2>1
  <2>2. StoredEntries[k] = EntryOf(n) /\ StoredEntries'[k] = EntryOf(n)'
    BY <1>0, <2>1, <2>k, Entries, NextEntries
  <2>3. access'[n] = time[w] /\ \A j \in Slots \ {n} : access'[j] = access[j]
    BY <1>0, <1>1, <2>0 DEF GetHit, TypeOK
  <2>4. StoredEntries'[k] = [StoredEntries[k] EXCEPT !.access = time[w]]
    <3>1. value'[n] = value[n] /\ expires'[n] = expires[n]
      BY <2>1
    <3>2. EntryOf(n)' = [value |-> value[n], expires |-> expires[n], access |-> time[w], present |-> TRUE]
      BY <2>3, <3>1 DEF EntryOf
    <3>3. [EntryOf(n) EXCEPT !.access = time[w]] =
             [value |-> value[n], expires |-> expires[n], access |-> time[w], present |-> TRUE]
      BY Touched DEF EntryOf
    <3> QED
      BY <2>2, <3>2, <3>3
  <2>5. ASSUME NEW l \in Keys \ {k} PROVE StoredEntries'[l] = StoredEntries[l]
    <3>1. \A j \in Slots : section_key'[j] = l <=> section_key[j] = l
      BY <2>1
    <3>2. \A j \in Slots : section_key[j] = l => EntryOf(j)' = EntryOf(j)
      BY <2>1, <2>k, <2>3, <2>5 DEF EntryOf
    <3> QED
      BY <1>0, <3>1, <3>2, KeptEntry
  <2>6. StoredEntries' = [StoredEntries EXCEPT ![k] = [StoredEntries[k] EXCEPT !.access = time[w]]]
    BY <2>1, <2>4, <2>5, OneEntry
  <2>7. StoredEntries[k].present /\ StoredEntries[k].expires > time[w] /\ StoredEntries[k].value = value[n]
    BY <1>1, <2>0, <2>2 DEF EntryOf, GetHit, Live
  <2>8. Phases[w] = "pending" /\ Abstract!Answer(w, "ok", value[n])
    BY <1>0, <1>1, <2>0, <2>1, RefineFinish DEF GetHit
  <2>9. Abstract!Get(w)
    BY <2>1, <2>6, <2>7, <2>8 DEF Abstract!Get
  <2> QED
    BY <2>9 DEF Abstract!Next
<1>2. CASE GetExpired(w)
  <2>1. /\ i \in Slots /\ section_key[i] = k /\ k \in Keys /\ op[w].type = "get" /\ pc[w] = "find"
        /\ UNCHANGED <<now, op, time>>
    BY <1>2, FoundLink, WalkKey DEF GetExpired, Found, locals
  <2>2. ~(StoredEntries[k].present /\ StoredEntries[k].expires > time[w])
    <3>1. StoredEntries[k] = EntryOf(i)
      BY <1>0, <2>1, Entries
    <3> QED
      BY <1>2, <3>1 DEF EntryOf, GetExpired, Live
  <2>3. StoredEntries' = [StoredEntries EXCEPT ![k] = Abstract!NoEntry]
    BY <1>2, RefineRemove DEF GetExpired
  <2>4. Phases[w] = "pending" /\ Abstract!Answer(w, "ok", NoValue)
    BY <1>0, <1>2, <2>1, RefineFinish DEF GetExpired
  <2>5. Abstract!Get(w)
    BY <2>1, <2>2, <2>3, <2>4 DEF Abstract!Get
  <2> QED
    BY <2>5 DEF Abstract!Next
<1>3. CASE DelHit(w)
  <2>1. op[w].type = "del" /\ pc[w] = "find" /\ UNCHANGED <<now, op, time>>
    BY <1>3 DEF DelHit, Found, locals
  <2>2. StoredEntries' = [StoredEntries EXCEPT ![k] = Abstract!NoEntry]
    BY <1>3, RefineRemove DEF DelHit
  <2>3. Phases[w] = "pending" /\ Abstract!Answer(w, "ok", NoValue)
    BY <1>0, <1>3, <2>1, RefineFinish DEF DelHit
  <2>4. Abstract!Delete(w)
    BY <2>1, <2>2, <2>3 DEF Abstract!Delete
  <2> QED
    BY <2>4 DEF Abstract!Next
<1>4. CASE Miss(w)
  <2>1. /\ k \in Keys /\ pc[w] = "find" /\ op[w].type \in {"get", "del"}
        /\ UNCHANGED <<section_key, value, expires, access, now, op, time>>
    BY <1>4, WalkKey DEF Miss, NotFound, segment, locals
  <2>2. StoredEntries[k] = Abstract!NoEntry
    BY <1>0, <1>4, <2>1, AbsentKey, Entries DEF Miss
  <2>3. StoredEntries' = [StoredEntries EXCEPT ![k] = Abstract!NoEntry]
    BY <2>1, <2>2, SameEntries, EntriesDomain
  <2>4. ~StoredEntries[k].present
    BY <2>2 DEF Abstract!NoEntry
  <2>5. Phases[w] = "pending" /\ Abstract!Answer(w, "ok", NoValue)
    BY <1>0, <1>4, <2>1, RefineFinish DEF Miss
  <2>6. Abstract!Get(w) \/ Abstract!Delete(w)
    BY <2>1, <2>3, <2>4, <2>5 DEF Abstract!Get, Abstract!Delete
  <2> QED
    BY <2>6 DEF Abstract!Next
<1> QED
  BY <1>1, <1>2, <1>3, <1>4

-----------------------------------------------------------------------------
(* Both modules count alike. *)
LEMMA SameCardinality == \A S : Abstract!Cardinality(S) = Cardinality(S)
  BY DEF Abstract!Cardinality, Cardinality

(* The keys of the abstract cache are those of the occupied slots. *)
LEMMA PresentKeys ==
  ASSUME TypeOK, UniqueKeys
  PROVE  /\ Abstract!Present = {k \in Keys : \E i \in Slots : section_key[i] = k}
         /\ \A i \in Occupied : section_key[i] \in Abstract!Present /\ StoredEntries[section_key[i]] = EntryOf(i)
<1>1. \A k \in Keys : StoredEntries[k].present <=> \E i \in Slots : section_key[i] = k
  BY DEF StoredEntries
<1>2. Abstract!Present = {k \in Keys : \E i \in Slots : section_key[i] = k}
  BY <1>1 DEF Abstract!Present
<1>3. \A i \in Occupied : i \in Slots /\ section_key[i] \in Keys
  BY DEF Occupied, TypeOK
<1> QED
  BY <1>2, <1>3, Entries

(* With a free slot there are fewer keys than slots. *)
LEMMA RoomLeft ==
  ASSUME TypeOK, UniqueKeys, NEW f \in Slots, section_key[f] = NoKey
  PROVE  Cardinality(Abstract!Present) < NSlots
<1> DEFINE P == Abstract!Present
           T == Slots \ {f}
           m == [k \in P |-> SlotOf(k)]
<1>1. \A k \in P : SlotOf(k) \in Slots /\ section_key[SlotOf(k)] = k /\ k # NoKey
  BY PresentKeys, KeysAssumption DEF SlotOf
<1>2. m \in Injection(P, T)
  BY <1>1 DEF Injection, IsInjective
<1>3. IsFiniteSet(Slots) /\ Cardinality(Slots) = NSlots
  BY SlotsAssumption, FS_Interval DEF Slots
<1>4. IsFiniteSet(T) /\ Cardinality(T) = NSlots - 1
  BY <1>3, FS_RemoveElement
<1>5. IsFiniteSet(P) /\ Cardinality(P) <= Cardinality(T)
  BY <1>2, <1>4, FS_Injection
<1>6. Cardinality(P) \in Nat
  BY <1>5, FS_CardinalityType
<1> QED
  BY <1>4, <1>5, <1>6, SlotsAssumption

(* Without a free slot there are as many keys as slots. *)
LEMMA NoRoomLeft ==
  ASSUME TypeOK, UniqueKeys, Occupied = Slots
  PROVE  ~(Cardinality(Abstract!Present) < NSlots)
<1> DEFINE P == Abstract!Present
           m == [i \in Slots |-> section_key[i]]
           n == [k \in P |-> SlotOf(k)]
<1>1. m \in Injection(Slots, P)
  BY PresentKeys DEF Injection, IsInjective, UniqueKeys
<1>2. n \in Injection(P, Slots)
  BY PresentKeys DEF Injection, IsInjective, SlotOf
<1>3. IsFiniteSet(Slots) /\ Cardinality(Slots) = NSlots
  BY SlotsAssumption, FS_Interval DEF Slots
<1>4. IsFiniteSet(P)
  BY <1>2, <1>3, FS_Injection
<1>5. Cardinality(Slots) <= Cardinality(P) /\ Cardinality(P) \in Nat
  BY <1>1, <1>4, FS_Injection, FS_CardinalityType
<1> QED
  BY <1>3, <1>5, SlotsAssumption

(* When the free list is empty every slot is occupied. *)
LEMMA FullSlots ==
  ASSUME TypeOK, LinksSound, free_head = 0
  PROVE  Occupied = Slots
<1> DEFINE U == {j \in Slots : section_key[j] = NoKey}
<1> SUFFICES ASSUME U # {} PROVE FALSE
  BY DEF Occupied
<1>1. PICK m \in U : \A i \in U : next[i] # m
  BY DEF LinksSound, Acyclic
<1>2. m \in Slots /\ section_key[m] = NoKey /\ m # free_head
  BY LinkFacts
<1>3. ASSUME NEW b \in Buckets, bucket[b] = m PROVE FALSE
  BY <1>2, <1>3, LinkFacts DEF LinksSound, BucketsSound
<1>4. ASSUME NEW i \in Slots, next[i] = m PROVE FALSE
  BY <1>1, <1>2, <1>4, LinkFacts DEF LinksSound, BucketsSound
<1> QED
  BY <1>2, <1>3, <1>4 DEF LinksSound, NoOrphan

(* Slot i has become the slot of the key that is set. *)
LEMMA InsertedEntry ==
  ASSUME IInv, IInv', NEW w \in Workers, pc[w] # "idle", NEW i \in Slots, NEW t \in Nat,
         section_key' = [section_key EXCEPT ![i] = op[w].key], EntryUpdate(w, i, t)
  PROVE  /\ StoredEntries'[op[w].key] = Abstract!Entry(op[w].value, op[w].expiry, t)
         /\ \A l \in Keys \ {op[w].key, section_key[i]} : StoredEntries'[l] = StoredEntries[l]
<1>0. TypeOK /\ TypeOK' /\ UniqueKeys /\ UniqueKeys' /\ op[w].key \in Keys
  BY WalkKey DEF IInv
<1>1. /\ section_key'[i] = op[w].key
      /\ value'[i] = op[w].value /\ expires'[i] = op[w].expiry /\ access'[i] = t
      /\ \A j \in Slots \ {i} : /\ section_key'[j] = section_key[j] /\ value'[j] = value[j]
                                /\ expires'[j] = expires[j] /\ access'[j] = access[j]
  BY <1>0 DEF TypeOK, EntryUpdate
<1>2. StoredEntries'[op[w].key] = EntryOf(i)'
  BY <1>0, <1>1, NextEntries
<1>3. ASSUME NEW l \in Keys \ {op[w].key, section_key[i]} PROVE StoredEntries'[l] = StoredEntries[l]
  <2>1. \A j \in Slots : section_key'[j] = l <=> section_key[j] = l
    BY <1>1, <1>3
  <2>2. \A j \in Slots : section_key[j] = l => EntryOf(j)' = EntryOf(j)
    BY <1>1, <1>3 DEF EntryOf
  <2> QED
    BY <1>0, <2>1, <2>2, KeptEntry
<1> QED
  BY <1>1, <1>2, <1>3 DEF EntryOf, Abstract!Entry

(* The victim's key is one that the abstract cache may drop. *)
LEMMA VictimKey ==
  ASSUME TypeOK, UniqueKeys, NEW v \in Occupied, NEW t \in Nat, IsVictim(v, t)
  PROVE  section_key[v] \in IF Abstract!Stale(t) # {} THEN Abstract!Stale(t) ELSE Abstract!LeastRecent
<1>1. \A k \in Abstract!Present : \E i \in Occupied : section_key[i] = k
  BY PresentKeys, KeysAssumption DEF Occupied
<1>2. \A i \in Occupied : /\ section_key[i] \in Abstract!Present
                          /\ StoredEntries[section_key[i]].expires = expires[i]
                          /\ StoredEntries[section_key[i]].access = access[i]
  <2> SUFFICES ASSUME NEW i \in Occupied
               PROVE  /\ section_key[i] \in Abstract!Present
                      /\ StoredEntries[section_key[i]].expires = expires[i]
                      /\ StoredEntries[section_key[i]].access = access[i]
    OBVIOUS
  <2>1. section_key[i] \in Abstract!Present /\ StoredEntries[section_key[i]] = EntryOf(i)
    BY PresentKeys
  <2> QED
    BY <2>1 DEF EntryOf
<1>3. CASE Expired(t) # {}
  <2>1. v \in Occupied /\ expires[v] <= t
    BY <1>3 DEF IsVictim, First, Expired
  <2>2. section_key[v] \in Abstract!Stale(t)
    BY <1>2, <2>1 DEF Abstract!Stale
  <2> QED
    BY <2>2
<1>4. CASE Expired(t) = {}
  <2>1. Abstract!Stale(t) = {}
    <3> SUFFICES ASSUME NEW k \in Abstract!Present, StoredEntries[k].expires <= t PROVE FALSE
      BY DEF Abstract!Stale
    <3>1. PICK i \in Occupied : section_key[i] = k
      BY <1>1
    <3> QED
      BY <1>2, <1>4, <3>1 DEF Expired
  <2>2. \A j \in Occupied : access[v] <= access[j]
    BY <1>4 DEF IsVictim, First, Oldest
  <2>3. section_key[v] \in Abstract!LeastRecent
    <3> SUFFICES ASSUME NEW l \in Abstract!Present
                 PROVE  StoredEntries[section_key[v]].access <= StoredEntries[l].access
      BY <1>2 DEF Abstract!LeastRecent
    <3>1. PICK j \in Occupied : section_key[j] = l
      BY <1>1
    <3> QED
      BY <1>2, <2>2, <3>1
  <2> QED
    BY <2>1, <2>3
<1> QED
  BY <1>3, <1>4

(* A set replaces the entry of its key, takes a free slot or drops an      *)
(* entry that may be dropped.                                              *)
LEMMA RefineSet ==
  ASSUME IInv, IInv', Stages, NEW w \in Workers, SetUpdate(w) \/ SetFree(w) \/ EvictInsert(w)
  PROVE  Abstract!Next
<1>0. TypeOK /\ TypeOK' /\ UniqueKeys /\ UniqueKeys' /\ LinksSound
  BY DEF IInv
<1> DEFINE k == op[w].key
           E(t) == Abstract!Entry(op[w].value, op[w].expiry, t)
<1>1. /\ pc[w] \in {"find", "unlink"} /\ op[w].type = "set" /\ UNCHANGED <<now, op, time>>
      /\ Finish(w, "ok", NoValue)
  BY DEF SetUpdate, SetFree, EvictInsert, Found, NotFound, locals, Stages, StageSound
<1>2. Phases[w] = "pending" /\ Abstract!Answer(w, "ok", NoValue)
  BY <1>0, <1>1, RefineFinish
<1>3. k \in Keys /\ k # NoKey /\ now \in Nat /\ time[w] \in Nat
  BY <1>0, <1>1, WalkKey, KeysAssumption DEF TypeOK
<1>4. CASE SetUpdate(w)
  <2>1. idx[w] \in Slots /\ section_key[idx[w]] = k /\ EntryUpdate(w, idx[w], now) /\ section_key' = section_key
    BY <1>4, FoundLink DEF SetUpdate, Found
  <2>2. section_key' = [section_key EXCEPT ![idx[w]] = k]
    BY <1>0, <2>1 DEF TypeOK
  <2>3. StoredEntries'[k] = E(now) /\ \A l \in Keys \ {k} : StoredEntries'[l] = StoredEntries[l]
    BY <1>1, <1>3, <2>1, <2>2, InsertedEntry
  <2>4. StoredEntries' = [StoredEntries EXCEPT ![k] = E(now)]
    BY <1>3, <2>3, OneEntry
  <2>5. k \in Abstract!Present
    BY <1>0, <1>3, <2>1, PresentKeys
  <2>6. Abstract!Set(w)
    BY <1>1, <1>2, <2>4, <2>5 DEF Abstract!Set
  <2> QED
    BY <2>6 DEF Abstract!Next
<1>5. CASE SetFree(w)
  <2>1. /\ free_head \in Slots /\ section_key[free_head] = NoKey /\ EntryUpdate(w, free_head, now)
        /\ section_key' = [section_key EXCEPT ![free_head] = k]
    BY <1>0, <1>5, LinkFacts DEF SetFree, EntryInsert, TypeOK, LinksSound, FreeListSound
  <2>2. StoredEntries'[k] = E(now) /\ \A l \in Keys \ {k} : StoredEntries'[l] = StoredEntries[l]
    BY <1>1, <1>3, <2>1, InsertedEntry, KeysAssumption
  <2>3. StoredEntries' = [StoredEntries EXCEPT ![k] = E(now)]
    BY <1>3, <2>2, OneEntry
  <2>4. Cardinality(Abstract!Present) < NSlots
    BY <1>0, <2>1, RoomLeft
  <2>5. Abstract!Set(w)
    <3>1. now \in {time[w], now}
      OBVIOUS
    <3> QED
      BY <1>1, <1>2, <2>3, <2>4, <3>1, SameCardinality DEF Abstract!Set
  <2> QED
    BY <2>5 DEF Abstract!Next
<1>6. CASE EvictInsert(w)
  <2> DEFINE v == victim[w]
             d == section_key[v]
  <2>1. /\ pc[w] = "unlink" /\ EntryUpdate(w, v, time[w]) /\ section_key' = [section_key EXCEPT ![v] = k]
    BY <1>6 DEF EvictInsert, EntryInsert
  <2>2. v \in Occupied /\ v \in Slots /\ d \in Keys /\ (\A i \in Slots : section_key[i] # k)
    BY <1>0, <2>1, LinkFacts, WalkKey DEF IInv, CallSound, TypeOK, Occupied
  <2>3. free_head = 0 /\ IsVictim(v, time[w])
    BY <2>1 DEF Stages, StageSound
  <2>4. StoredEntries'[k] = E(time[w]) /\ \A l \in Keys \ {k, d} : StoredEntries'[l] = StoredEntries[l]
    BY <1>1, <1>3, <2>1, <2>2, InsertedEntry
  <2>5. StoredEntries'[d] = Abstract!NoEntry
    <3>1. \A j \in Slots : section_key'[j] # d
      BY <1>0, <2>1, <2>2 DEF UniqueKeys, Occupied, TypeOK
    <3> QED
      BY <1>0, <2>2, <3>1, NextEntries
  <2>6. StoredEntries' = [StoredEntries EXCEPT ![d] = Abstract!NoEntry, ![k] = E(time[w])]
    BY <1>3, <2>2, <2>4, <2>5, TwoEntries
  <2>7. ~(k \in Abstract!Present \/ Cardinality(Abstract!Present) < NSlots)
    BY <1>0, <2>2, <2>3, FullSlots, NoRoomLeft, PresentKeys
  <2>8. d \in IF Abstract!Stale(time[w]) # {} THEN Abstract!Stale(time[w]) ELSE Abstract!LeastRecent
    BY <1>0, <1>3, <2>2, <2>3, VictimKey
  <2>9. Abstract!Set(w)
    <3>1. time[w] \in {time[w], now}
      OBVIOUS
    <3> QED
      BY <1>1, <1>2, <2>6, <2>7, <2>8, <3>1, SameCardinality DEF Abstract!Set
  <2> QED
    BY <2>9 DEF Abstract!Next
<1> QED
  BY <1>4, <1>5, <1>6

(* Every step of the segment is a step of the abstract cache or none. *)
LEMMA RefineStep == ASSUME IInv, IInv', Stages, [Next]_vars PROVE [Abstract!Next]_(Abstract!vars)
<1>1. CASE Tick
  <2>1. UNCHANGED <<section_key, value, expires, access, pc, op, time, res>> /\ now' \in 0..MaxTime \ {now}
    BY <1>1 DEF Tick, segment, locals
  <2>2. StoredEntries' = StoredEntries /\ Phases' = Phases
    BY <2>1, SameEntries DEF Phases
  <2>3. Abstract!Tick
    BY <2>1, <2>2 DEF Abstract!Tick
  <2> QED
    BY <2>3 DEF Abstract!Next
<1>2. CASE UNCHANGED vars
  <2>1. UNCHANGED <<section_key, value, expires, access, pc, op, time, res, now>>
    BY <1>2 DEF vars
  <2> QED
    BY <2>1, SameEntries DEF Abstract!vars, Phases
<1>3. ASSUME NEW w \in Workers, Call(w) \/ Lock(w) \/ LockFail(w) \/ Holding(w) \/ Return(w)
      PROVE  [Abstract!Next]_(Abstract!vars)
  BY <1>3, RefineOutside, RefineGetDelete, RefineSet DEF Holding
<1> QED
  BY <1>1, <1>2, <1>3 DEF Next

(* Stages holds in every reachable state. *)
THEOREM StagesInvariance == Spec => []Stages
<1>1. IInv /\ Stages /\ [Next]_vars => Stages'
  BY StagesStep
<1> QED
  BY <1>1, StagesInit, Invariance, PTL DEF Spec

(* The shared-memory cache does what Cache says, for every number of       *)
(* workers, slots, buckets and keys and every hash function: get, set and  *)
(* delete take effect at one moment, a get never returns an expired value, *)
(* and a set on a full cache drops one entry, an expired one if there is   *)
(* one and else one that was used least recently.                          *)
THEOREM SegmentImplementsCache == Spec => ImplementsCache
<1>1. Init => Abstract!Init
  BY RefineInit
<1>2. IInv /\ IInv' /\ Stages /\ [Next]_vars => [Abstract!Next]_(Abstract!vars)
  BY RefineStep
<1> QED
  BY <1>1, <1>2, Invariance, StagesInvariance, PTL DEF Spec, ImplementsCache, Abstract!Spec

-----------------------------------------------------------------------------
(***************************************************************************)
(* oidc_cache_shm_validate.                                                *)
(***************************************************************************)

(* Sequence f takes m steps of the walk from head h. *)
StepOn(i) == IF i = 0 THEN 0 ELSE next[i]
Follows(h, f, m) ==
    /\ f \in [0..m -> Links]
    /\ f[0] = h
    /\ \A n \in 1..m : f[n] = StepOn(f[n - 1])

(* A step of a walk ends at a link. *)
LEMMA StepType == ASSUME TypeOK, NEW i \in Links PROVE StepOn(i) \in Links
  BY LinkFacts DEF StepOn, TypeOK

(* From every head there is a walk of every length, by induction on it:    *)
(* the shortest length without one cannot be.                              *)
LEMMA WalkExists ==
  ASSUME TypeOK, NEW h \in Links, NEW m \in Nat
  PROVE  \E f : Follows(h, f, m)
<1> DEFINE S == {n \in Nat : ~\E f : Follows(h, f, n)}
<1> SUFFICES ASSUME S # {} PROVE FALSE
  OBVIOUS
<1>1. PICK n \in S : \A k \in S : n <= k
  BY LeastNat
<1>2. n # 0
  <2>1. Follows(h, [k \in 0..0 |-> h], 0)
    BY DEF Follows
  <2> QED
    BY <2>1
<1>3. n - 1 \in Nat /\ n - 1 \notin S /\ n \in Nat
  BY <1>1, <1>2
<1>4. PICK f : Follows(h, f, n - 1)
  BY <1>3
<1> DEFINE g == [k \in 0..n |-> IF k = n THEN StepOn(f[n - 1]) ELSE f[k]]
<1>5. \A k \in 0..n : k # n => k \in 0..(n - 1)
  BY <1>3
<1>6. n - 1 \in 0..(n - 1) /\ 0 \in 0..(n - 1) /\ 0 \in 0..n /\ n \in 0..n
  BY <1>3
<1>7. f[n - 1] \in Links
  BY <1>4, <1>6 DEF Follows
<1>8. g \in [0..n -> Links]
  <2>1. StepOn(f[n - 1]) \in Links
    BY <1>7, StepType
  <2>2. \A k \in 0..(n - 1) : f[k] \in Links
    BY <1>4 DEF Follows
  <2> HIDE DEF StepOn
  <2> QED
    BY <1>5, <2>1, <2>2
<1>9. g[0] = h
  BY <1>2, <1>4, <1>6 DEF Follows
<1>10. ASSUME NEW k \in 1..n PROVE g[k] = StepOn(g[k - 1])
  <2>1. k - 1 \in 0..n /\ k \in 0..n /\ k - 1 # n
    BY <1>3, <1>10
  <2>2. g[k - 1] = f[k - 1]
    BY <2>1
  <2>3. CASE k = n
    BY <2>1, <2>2, <2>3
  <2>4. CASE k # n
    <3>1. k \in 1..(n - 1)
      BY <1>3, <1>10, <2>4
    <3>2. f[k] = StepOn(f[k - 1])
      BY <1>4, <3>1 DEF Follows
    <3> QED
      BY <2>1, <2>2, <2>4, <3>2
  <2> QED
    BY <2>3, <2>4
<1>11. Follows(h, g, n)
  BY <1>8, <1>9, <1>10 DEF Follows
<1> QED
  BY <1>1, <1>11

(* The recursive definition of Walk has its intended meaning. *)
LEMMA WalkFollows ==
  ASSUME TypeOK, NEW h \in Links
  PROVE  Follows(h, Walk(h), NSlots)
<1> DEFINE Eq(f) == f = [n \in 0..NSlots |-> IF n = 0 THEN h ELSE IF f[n - 1] = 0 THEN 0 ELSE next[f[n - 1]]]
<1>0. NSlots \in Nat
  BY SlotsAssumption
<1>1. PICK f : Follows(h, f, NSlots)
  BY <1>0, WalkExists
<1>2. Eq(f)
  <2>1. ASSUME NEW n \in 0..NSlots
        PROVE  f[n] = IF n = 0 THEN h ELSE IF f[n - 1] = 0 THEN 0 ELSE next[f[n - 1]]
    <3>1. n # 0 => n \in 1..NSlots
      BY <1>0
    <3> QED
      BY <1>1, <3>1 DEF Follows, StepOn
  <2>2. f \in [0..NSlots -> Links]
    BY <1>1 DEF Follows
  <2> QED
    BY <2>1, <2>2
<1>3. Eq(Walk(h))
  BY <1>2 DEF Walk
<1> DEFINE g == Walk(h)
<1>4. g = [n \in 0..NSlots |-> IF n = 0 THEN h ELSE IF g[n - 1] = 0 THEN 0 ELSE next[g[n - 1]]]
  BY <1>3
<1> HIDE DEF g
<1>5. \A n \in 0..NSlots : g[n] = IF n = 0 THEN h ELSE StepOn(g[n - 1])
  BY <1>4 DEF StepOn
<1>6. g[0] = h
  BY <1>0, <1>5
<1>7. \A n \in 1..NSlots : n \in 0..NSlots /\ n - 1 \in 0..NSlots /\ n - 1 < n /\ n # 0
  BY <1>0
<1>8. \A n \in 1..NSlots : g[n] = StepOn(g[n - 1])
  BY <1>5, <1>7
<1>9. \A n \in 0..NSlots : g[n] \in Links
  <2> DEFINE B == {n \in 0..NSlots : g[n] \notin Links}
  <2> SUFFICES ASSUME B # {} PROVE FALSE
    OBVIOUS
  <2>1. B \in SUBSET Nat
    BY <1>0
  <2>2. PICK n \in B : \A k \in B : n <= k
    BY <2>1, LeastNat
  <2>3. n # 0
    BY <1>6, <2>2
  <2>4. n \in 1..NSlots /\ n - 1 \in 0..NSlots /\ n - 1 \notin B
    BY <1>0, <2>2, <2>3
  <2>5. g[n - 1] \in Links
    BY <2>4
  <2>6. g[n] \in Links
    BY <1>8, <2>4, <2>5, StepType
  <2> QED
    BY <2>2, <2>6
<1>10. g \in [0..NSlots -> Links]
  BY <1>4, <1>9
<1>11. Follows(h, g, NSlots)
  BY <1>6, <1>8, <1>10 DEF Follows
<1> QED
  BY <1>11 DEF g

(* A walk that has not ended has not been at the end. *)
LEMMA NotBefore ==
  ASSUME NEW h, NEW f, Follows(h, f, NSlots), f[NSlots] # 0
  PROVE  \A n \in 0..NSlots : f[n] # 0
<1> DEFINE Z == {k \in 0..NSlots : f[NSlots - k] = 0}
<1>0. NSlots \in Nat
  BY SlotsAssumption
<1>1. CASE Z = {}
  <2> SUFFICES ASSUME NEW n \in 0..NSlots, f[n] = 0 PROVE FALSE
    OBVIOUS
  <2>1. NSlots - n \in 0..NSlots /\ NSlots - (NSlots - n) = n
    BY <1>0
  <2> QED
    BY <1>1, <2>1
<1>2. CASE Z # {}
  <2>1. Z \in SUBSET Nat
    BY <1>0
  <2>2. PICK k \in Z : \A j \in Z : k <= j
    BY <1>2, <2>1, LeastNat
  <2>3. k # 0
    BY <1>0, <2>2
  <2>4. /\ NSlots - (k - 1) \in 1..NSlots /\ (NSlots - (k - 1)) - 1 = NSlots - k
        /\ k - 1 \in 0..NSlots /\ k - 1 \notin Z
    BY <1>0, <2>2, <2>3
  <2>5. f[NSlots - (k - 1)] = StepOn(f[NSlots - k])
    BY <2>4 DEF Follows
  <2>6. f[NSlots - (k - 1)] = 0
    BY <2>2, <2>5 DEF StepOn
  <2> QED
    BY <2>4, <2>6
<1> QED
  BY <1>1, <1>2

(* A walk does not come back to a slot: the slots in between would be a    *)
(* cycle.                                                                  *)
LEMMA NoReturn ==
  ASSUME TypeOK, LinksSound, NEW h, NEW f, Follows(h, f, NSlots), \A n \in 0..NSlots : f[n] # 0,
         NEW x \in 0..NSlots, NEW y \in 0..NSlots, x < y
  PROVE  f[x] # f[y]
<1> SUFFICES ASSUME f[x] = f[y] PROVE FALSE
  OBVIOUS
<1>0. NSlots \in Nat
  BY SlotsAssumption
<1> DEFINE S == {f[j] : j \in x..(y - 1)}
<1>1. S \in SUBSET Slots /\ f[x] \in S
  <2>1. \A j \in x..(y - 1) : j \in 0..NSlots
    BY <1>0
  <2>2. \A j \in x..(y - 1) : f[j] \in Slots
    BY <2>1, LinkFacts DEF Follows
  <2>3. x \in x..(y - 1)
    BY <1>0
  <2> QED
    BY <2>2, <2>3
<1>2. PICK s \in S : \A i \in S : next[i] # s
  BY <1>1 DEF LinksSound, Acyclic
<1>3. PICK q \in x..(y - 1) : s = f[q]
  BY <1>2
<1>4. CASE q = x
  <2>1. y \in 1..NSlots /\ y - 1 \in x..(y - 1) /\ y - 1 \in 0..NSlots
    BY <1>0
  <2>2. f[y] = next[f[y - 1]] /\ f[y - 1] \in S
    BY <2>1 DEF Follows, StepOn
  <2> QED
    BY <1>2, <1>3, <1>4, <2>2
<1>5. CASE q # x
  <2>1. q \in 1..NSlots /\ q - 1 \in x..(y - 1) /\ q - 1 \in 0..NSlots
    BY <1>0, <1>3, <1>5
  <2>2. f[q] = next[f[q - 1]] /\ f[q - 1] \in S
    BY <2>1 DEF Follows, StepOn
  <2> QED
    BY <1>2, <1>3, <2>2
<1> QED
  BY <1>4, <1>5

(* A walk of as many steps as there are slots has ended: it has passed     *)
(* every slot once at most.                                                *)
LEMMA WalkEnds ==
  ASSUME TypeOK, LinksSound, NEW h \in Links
  PROVE  Walk(h)[NSlots] = 0
<1> DEFINE f == Walk(h)
<1>0. NSlots \in Nat /\ Follows(h, f, NSlots)
  BY SlotsAssumption, WalkFollows
<1> HIDE DEF f
<1> SUFFICES ASSUME f[NSlots] # 0 PROVE FALSE
  BY DEF f
<1>1. \A n \in 0..NSlots : f[n] # 0
  BY <1>0, NotBefore
<1>2. f \in [0..NSlots -> Slots]
  BY <1>0, <1>1, LinkFacts DEF Follows
<1>3. IsFiniteSet(0..NSlots) /\ Cardinality(0..NSlots) = NSlots + 1
  BY <1>0, FS_Interval
<1>4. IsFiniteSet(Slots) /\ Cardinality(Slots) = NSlots
  BY SlotsAssumption, FS_Interval DEF Slots
<1>5. Cardinality(Slots) < Cardinality(0..NSlots)
  BY <1>0, <1>3, <1>4
<1>6. PICK x, y \in 0..NSlots : x # y /\ f[x] = f[y]
  BY <1>2, <1>3, <1>4, <1>5, FS_PigeonHole
<1>7. x < y \/ y < x
  BY <1>0, <1>6
<1> QED
  BY <1>0, <1>1, <1>6, <1>7, NoReturn

(* The slots of a list are in every set that the list does not leave. *)
LEMMA ListWithin ==
  ASSUME TypeOK, NEW h \in Links, NEW P \in SUBSET Slots, h \in P \cup {0},
         \A i \in P : next[i] \in P \cup {0}
  PROVE  OnList(h) \subseteq P
<1> DEFINE f == Walk(h)
<1>0. NSlots \in Nat /\ Follows(h, f, NSlots)
  BY SlotsAssumption, WalkFollows
<1>1. OnList(h) = {f[n] : n \in 0..NSlots} \ {0}
  BY DEF OnList
<1> HIDE DEF f
<1> DEFINE B == {n \in 0..NSlots : f[n] \notin P \cup {0}}
<1> SUFFICES ASSUME B # {} PROVE FALSE
  BY <1>1
<1>2. B \in SUBSET Nat
  BY <1>0
<1>3. PICK n \in B : \A k \in B : n <= k
  BY <1>2, LeastNat
<1>4. n # 0
  BY <1>0, <1>3 DEF Follows
<1>5. n \in 1..NSlots /\ n - 1 \in 0..NSlots /\ n - 1 \notin B
  BY <1>0, <1>3, <1>4
<1>6. f[n] = StepOn(f[n - 1]) /\ f[n - 1] \in P \cup {0}
  BY <1>0, <1>5 DEF Follows
<1>7. f[n] \in P \cup {0}
  BY <1>6 DEF StepOn
<1> QED
  BY <1>3, <1>7

(* The head of a list and what follows a slot of it are on the list. *)
LEMMA ListClosed ==
  ASSUME TypeOK, LinksSound, NEW h \in Links
  PROVE  /\ h # 0 => h \in OnList(h)
         /\ \A i \in OnList(h) : next[i] # 0 => next[i] \in OnList(h)
<1> DEFINE f == Walk(h)
<1>0. NSlots \in Nat /\ Follows(h, f, NSlots) /\ f[NSlots] = 0
  BY SlotsAssumption, WalkFollows, WalkEnds
<1>1. OnList(h) = {f[n] : n \in 0..NSlots} \ {0}
  BY DEF OnList
<1> HIDE DEF f
<1>2. h # 0 => h \in OnList(h)
  <2>1. 0 \in 0..NSlots
    BY <1>0
  <2> QED
    BY <1>0, <1>1, <2>1 DEF Follows
<1>3. ASSUME NEW i \in OnList(h), next[i] # 0 PROVE next[i] \in OnList(h)
  <2>1. PICK n \in 0..NSlots : i = f[n] /\ i # 0
    BY <1>1
  <2>2. n # NSlots
    BY <1>0, <2>1
  <2>3. n + 1 \in 1..NSlots /\ n + 1 \in 0..NSlots /\ (n + 1) - 1 = n
    BY <1>0, <2>2
  <2>4. f[n + 1] = next[i]
    BY <1>0, <2>1, <2>3 DEF Follows, StepOn
  <2> QED
    BY <1>1, <1>3, <2>3, <2>4
<1> QED
  BY <1>2, <1>3

(* Sound links are what oidc_cache_shm_validate accepts. *)
LEMMA LinksValidate == ASSUME TypeOK, LinksSound PROVE Validate
<1>0. free_head \in Links /\ \A b \in Buckets : bucket[b] \in Links
  BY DEF TypeOK
<1>n. \A i \in Slots : next[i] \in Slots \cup {0}
  BY LinkFacts DEF TypeOK
<1>1. ASSUME NEW b \in Buckets
      PROVE  /\ Walk(bucket[b])[NSlots] = 0
             /\ \A i \in OnList(bucket[b]) : i \in Slots /\ section_key[i] # NoKey /\ Hash[section_key[i]] = b
  <2> DEFINE P == {i \in Slots : section_key[i] # NoKey /\ Hash[section_key[i]] = b}
  <2>1. bucket[b] \in P \cup {0}
    BY <1>0, LinkFacts DEF LinksSound, BucketsSound
  <2>2. \A i \in P : next[i] \in P \cup {0}
    BY <1>n DEF LinksSound, BucketsSound
  <2>3. OnList(bucket[b]) \subseteq P
    <3>1. P \in SUBSET Slots
      OBVIOUS
    <3> HIDE DEF P
    <3> QED
      BY <1>0, <2>1, <2>2, <3>1, ListWithin
  <2> QED
    BY <1>0, <2>3, WalkEnds
<1>2. /\ Walk(free_head)[NSlots] = 0
      /\ \A i \in OnList(free_head) : i \in Slots /\ section_key[i] = NoKey
  <2> DEFINE P == {i \in Slots : section_key[i] = NoKey}
  <2>1. free_head \in P \cup {0}
    BY <1>0, LinkFacts DEF LinksSound, FreeListSound
  <2>2. \A i \in P : next[i] \in P \cup {0}
    BY <1>n DEF LinksSound, FreeListSound
  <2>3. OnList(free_head) \subseteq P
    <3>1. P \in SUBSET Slots
      OBVIOUS
    <3> HIDE DEF P
    <3> QED
      BY <1>0, <2>1, <2>2, <3>1, ListWithin
  <2> QED
    BY <1>0, <2>3, WalkEnds
<1> DEFINE L == OnList(free_head) \cup UNION {OnList(bucket[b]) : b \in Buckets}
<1>3. L \subseteq Slots
  BY <1>1, <1>2
<1>4. /\ free_head # 0 => free_head \in L
      /\ \A b \in Buckets : bucket[b] # 0 => bucket[b] \in L
      /\ \A i \in L : next[i] # 0 => next[i] \in L
  <2>1. /\ free_head # 0 => free_head \in OnList(free_head)
        /\ \A i \in OnList(free_head) : next[i] # 0 => next[i] \in OnList(free_head)
    BY <1>0, ListClosed
  <2>2. ASSUME NEW b \in Buckets
        PROVE  /\ bucket[b] # 0 => bucket[b] \in OnList(bucket[b])
               /\ \A i \in OnList(bucket[b]) : next[i] # 0 => next[i] \in OnList(bucket[b])
    BY <1>0, ListClosed
  <2> QED
    BY <2>1, <2>2
<1>5. Slots \subseteq L
  <2> HIDE DEF L
  <2> DEFINE U == Slots \ L
  <2> SUFFICES ASSUME U # {} PROVE FALSE
    OBVIOUS
  <2>1. PICK m \in U : \A i \in U : next[i] # m
    BY DEF LinksSound, Acyclic
  <2>2. m \in Slots /\ m # 0 /\ m \notin L
    BY LinkFacts
  <2>3. m # free_head /\ \A b \in Buckets : bucket[b] # m
    BY <1>4, <2>2
  <2>4. \A i \in Slots : next[i] # m
    BY <1>4, <2>1, <2>2
  <2> QED
    BY <2>2, <2>3, <2>4 DEF LinksSound, NoOrphan
<1> QED
  BY <1>1, <1>2, <1>3, <1>5 DEF Validate

(* oidc_cache_shm_validate always succeeds: every list of the segment ends *)
(* within NSlots steps, holds the slots that belong to it and no slot is   *)
(* lost, for any number of slots, buckets and workers.                     *)
THEOREM SegmentAlwaysValid == Spec => []SegmentValid
<1>1. IInv => SegmentValid
  BY LinksValidate DEF IInv, SegmentValid
<1> QED
  BY <1>1, Invariance, PTL

-----------------------------------------------------------------------------
(***************************************************************************)
(* How long the mutex is held.                                             *)
(***************************************************************************)

(* The slots of a list are slots, and finitely many. *)
LEMMA ListFinite ==
  ASSUME TypeOK, NEW h \in Links
  PROVE  /\ OnList(h) \subseteq Slots /\ IsFiniteSet(OnList(h))
         /\ Cardinality(OnList(h)) \in 0..NSlots
<1>1. h \in Slots \cup {0} /\ \A i \in Slots : next[i] \in Slots \cup {0}
  BY LinkFacts DEF TypeOK
<1>2. OnList(h) \subseteq Slots
  BY <1>1, ListWithin
<1>3. IsFiniteSet(Slots) /\ Cardinality(Slots) = NSlots /\ NSlots \in Nat
  BY SlotsAssumption, FS_Interval DEF Slots
<1>4. IsFiniteSet(OnList(h)) /\ Cardinality(OnList(h)) <= NSlots
  BY <1>2, <1>3, FS_Subset
<1>5. Cardinality(OnList(h)) \in Nat
  BY <1>4, FS_CardinalityType
<1> QED
  BY <1>2, <1>3, <1>4, <1>5

(* What follows a slot is a shorter list: the slot itself is not on it.    *)
LEMMA ListShrinks ==
  ASSUME TypeOK, LinksSound, NEW i \in Slots
  PROVE  Cardinality(OnList(next[i])) < Cardinality(OnList(i))
<1>0. i \in Links /\ i # 0 /\ next[i] \in Links /\ \A j \in Slots : next[j] \in Links
  BY LinkFacts DEF TypeOK
<1>1. PICK S, T : S = OnList(next[i]) /\ T = OnList(i)
  OBVIOUS
<1>2. S \subseteq Slots /\ T \subseteq Slots /\ IsFiniteSet(S) /\ IsFiniteSet(T)
  BY <1>0, <1>1, ListFinite
<1>3. i \in T /\ \A j \in T : next[j] # 0 => next[j] \in T
  BY <1>0, <1>1, ListClosed
<1>4. /\ next[i] # 0 => next[i] \in S
      /\ \A j \in S : next[j] # 0 => next[j] \in S
  BY <1>0, <1>1, ListClosed
<1>5. S \subseteq T
  <2>1. next[i] \in T \cup {0} /\ \A j \in T : next[j] \in T \cup {0}
    BY <1>3
  <2> QED
    BY <1>0, <1>1, <1>2, <2>1, ListWithin
<1>6. i \notin S
  <2> SUFFICES ASSUME i \in S PROVE FALSE
    OBVIOUS
  <2>1. PICK j \in S : \A k \in S : next[k] # j
    BY <1>2 DEF LinksSound, Acyclic
  <2>2. PICK P : P = S \ {j}
    OBVIOUS
  <2>3. P \in SUBSET Slots /\ next[i] \in P \cup {0} /\ \A k \in P : next[k] \in P \cup {0}
    BY <1>2, <1>4, <2>1, <2>2
  <2>4. S \subseteq P
    BY <1>0, <1>1, <2>3, ListWithin
  <2> QED
    BY <2>1, <2>2, <2>4
<1>7. Cardinality(S) <= Cardinality(T) /\ Cardinality(S) # Cardinality(T)
  BY <1>2, <1>3, <1>5, <1>6, FS_Subset
<1>8. Cardinality(S) \in Nat /\ Cardinality(T) \in Nat
  BY <1>2, FS_CardinalityType
<1> QED
  BY <1>1, <1>7, <1>8

(* Lists are the same while the links are. *)
LEMMA SameList ==
  ASSUME next' = next, NEW w \in Workers
  PROVE  OnList(idx[w])' = OnList(idx'[w])
BY DEF OnList, Walk

(* The steps that the holder of the mutex takes at most before it gives it *)
(* back: the rest of the chain that it walks, a second chain if it walks   *)
(* the first one to find the key, and the changes at the end.              *)
Ahead(w) == Cardinality(OnList(idx[w]))
StepsLeft(w) ==
    IF pc[w] = "find" THEN NSlots + 3 + Ahead(w)
    ELSE IF pc[w] = "unlink" THEN 2 + Ahead(w)
    ELSE IF pc[w] = "unlock" THEN 1 ELSE 0

HoldBound == \A w \in Workers : mutex = w => StepsLeft(w) \in 1..(2 * NSlots + 3)

(* Each of its steps is one of these, and other workers do not add to them. *)
HolderAdvances ==
    \A w \in Workers :
        mutex = w => \/ Holding(w) /\ StepsLeft(w)' < StepsLeft(w)
                     \/ ~Holding(w) /\ StepsLeft(w)' = StepsLeft(w)

(* No more slots are ahead than there are. *)
AheadBound == \A w \in Workers : Ahead(w) \in 0..NSlots

LEMMA AheadType == TypeOK => AheadBound
BY ListFinite DEF TypeOK, Ahead, AheadBound

LEMMA AheadTypeNext == TypeOK' => AheadBound'
BY AheadType, PTL

(* The bound holds at every moment. *)
LEMMA StepsBounded == ASSUME IInv PROVE HoldBound
<1> SUFFICES ASSUME NEW w \in Workers, mutex = w PROVE StepsLeft(w) \in 1..(2 * NSlots + 3)
  BY DEF HoldBound
<1>1. pc[w] \in {"find", "unlink", "unlock"}
  BY DEF IInv, MutualExclusion
<1>2. PICK a, n \in Nat : a = Ahead(w) /\ n = NSlots /\ a <= n
  BY AheadType, SlotsAssumption DEF IInv, AheadBound
<1> QED
  BY <1>1, <1>2 DEF StepsLeft

(* A step of the holder. *)
LEMMA OwnStep ==
  ASSUME IInv, TypeOK', NEW w \in Workers, mutex = w, Holding(w)
  PROVE  StepsLeft(w)' < StepsLeft(w)
<1>1. PICK a, n \in Nat : a = Ahead(w) /\ n = NSlots /\ a <= n
  BY AheadType, SlotsAssumption DEF IInv, AheadBound
<1>2. PICK b \in Nat : b = Ahead(w)' /\ b <= n
  <2>1. Ahead(w)' \in 0..NSlots
    BY AheadTypeNext DEF AheadBound
  <2> QED
    BY <1>1, <2>1
<1>3. ASSUME next' = next, pc[w] \in {"find", "unlink"}, idx[w] # 0, idx'[w] = next[idx[w]]
      PROVE  b < a
  <2>1. OnList(idx[w])' = OnList(next[idx[w]])
    BY <1>3, SameList
  <2>2. idx[w] \in Slots
    BY <1>3, LinkFacts DEF IInv, TypeOK
  <2>3. Cardinality(OnList(next[idx[w]])) < Cardinality(OnList(idx[w]))
    BY <2>2, ListShrinks DEF IInv
  <2> QED
    BY <1>1, <1>2, <2>1, <2>3 DEF Ahead
<1>4. pc \in [Workers -> {"idle", "lock", "find", "unlink", "unlock", "return"}] /\ idx \in [Workers -> Links]
  BY DEF IInv, TypeOK
<1>5. CASE FindNext(w)
  <2>1. pc[w] = "find" /\ pc'[w] = "find" /\ b < a
    BY <1>3, <1>4, <1>5 DEF FindNext, segment
  <2> QED
    BY <1>1, <1>2, <2>1 DEF StepsLeft
<1>6. CASE GetHit(w) \/ GetExpired(w) \/ DelHit(w) \/ Miss(w) \/ SetUpdate(w) \/ SetFree(w) \/ EvictInsert(w)
  <2>1. pc[w] \in {"find", "unlink"} /\ pc'[w] = "unlock"
    BY <1>4, <1>6 DEF GetHit, GetExpired, DelHit, Miss, SetUpdate, SetFree, EvictInsert, Finish, Found, NotFound
  <2> QED
    BY <1>1, <2>1 DEF StepsLeft
<1>7. CASE EvictStart(w)
  <2>1. pc[w] = "find" /\ pc'[w] = "unlink"
    BY <1>4, <1>7 DEF EvictStart, NotFound
  <2> QED
    BY <1>1, <1>2, <2>1 DEF StepsLeft
<1>8. CASE UnlinkNext(w)
  <2>1. CASE idx[w] = 0
    <3>1. pc[w] = "unlink" /\ pc'[w] = "unlock"
      BY <1>4, <1>8, <2>1 DEF UnlinkNext, Finish
    <3> QED
      BY <1>1, <3>1 DEF StepsLeft
  <2>2. CASE idx[w] # 0
    <3>1. pc[w] = "unlink" /\ pc'[w] = "unlink" /\ b < a
      BY <1>3, <1>4, <1>8, <2>2 DEF UnlinkNext, segment
    <3> QED
      BY <1>1, <1>2, <3>1 DEF StepsLeft
  <2> QED
    BY <2>1, <2>2
<1>9. CASE Unlock(w)
  <2>1. pc[w] = "unlock" /\ pc'[w] = "idle"
    BY <1>4, <1>9 DEF Unlock, Leave
  <2> QED
    BY <2>1 DEF StepsLeft
<1> QED
  BY <1>5, <1>6, <1>7, <1>8, <1>9 DEF Holding

(* A step of anyone else. *)
LEMMA OthersStep ==
  ASSUME IInv, [Next]_vars, NEW w \in Workers, mutex = w, ~Holding(w)
  PROVE  StepsLeft(w)' = StepsLeft(w)
<1>0. TypeOK /\ MutualExclusion
  BY DEF IInv
<1>1. pc[w] \in {"find", "unlink", "unlock"} /\ \A u \in Workers \ {w} : pc[u] \notin {"find", "unlink", "unlock"}
  BY <1>0 DEF MutualExclusion
<1>2. UNCHANGED <<pc[w], idx[w], next>>
  <2>1. CASE Tick \/ UNCHANGED vars
    BY <2>1 DEF Tick, vars, segment, locals
  <2>2. ASSUME NEW u \in Workers, Call(u) \/ Lock(u) \/ LockFail(u) \/ Return(u)
        PROVE  UNCHANGED <<pc[w], idx[w], next>>
    <3>1. u # w
      BY <1>1, <2>2 DEF Call, Lock, LockFail, LockFailStep, Return
    <3> QED
      BY <1>0, <2>2, <3>1 DEF TypeOK, Call, Lock, LockFail, LockFailStep, Return, Leave, segment, locals
  <2>3. ASSUME NEW u \in Workers, Holding(u) PROVE FALSE
    <3>1. u # w
      BY <2>3
    <3>2. pc[u] \in {"find", "unlink", "unlock"}
      BY <2>3 DEF Holding, FindNext, GetHit, GetExpired, DelHit, Miss, SetUpdate, SetFree, EvictStart,
                  UnlinkNext, EvictInsert, Unlock, Found, NotFound
    <3> QED
      BY <1>1, <3>1, <3>2
  <2> QED
    BY <2>1, <2>2, <2>3 DEF Next
<1>3. OnList(idx[w])' = OnList(idx[w])
  BY <1>2, SameList
<1>4. Ahead(w)' = Ahead(w)
  BY <1>3 DEF Ahead
<1> QED
  BY <1>2, <1>4 DEF StepsLeft

(* The mutex is held for at most 2 * NSlots + 3 steps of its holder, in    *)
(* whatever order the slots are linked: each step of oidc_cache_shm_get    *)
(* and oidc_cache_shm_set between the lock and the unlock uses up one of   *)
(* them, and no other worker adds to them.  With the fairness of the       *)
(* holder this is why LockReleased holds.                                  *)
THEOREM HoldingIsBounded == Spec => []HoldBound /\ [][HolderAdvances]_vars
<1>1. IInv => HoldBound
  BY StepsBounded
<1>2. IInv /\ IInv' /\ [Next]_vars => [HolderAdvances]_vars
  <2> SUFFICES ASSUME IInv, IInv', [Next]_vars PROVE HolderAdvances
    OBVIOUS
  <2>1. TypeOK'
    BY DEF IInv
  <2> QED
    BY <2>1, OwnStep, OthersStep DEF HolderAdvances
<1> QED
  BY <1>1, <1>2, Invariance, PTL DEF Spec
=============================================================================
