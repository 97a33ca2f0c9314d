---------------------------- MODULE HttpProofs -----------------------------
(***************************************************************************)
(* Theorems about what goes over HTTP beside the protocol's own messages:  *)
(* the handles of the calls to the OP, the documents that they bring,      *)
(* values that are split over several cookies, and the pages and redirects *)
(* by which a user chooses an OP.                                          *)
(* The pool of curl handles never gives a handle to two calls, never gives *)
(* out one whose transfer failed, and never lets the options of one call   *)
(* reach another. A value that is read back from the chunks of a cookie is *)
(* one that was written, whatever chunks other values have left behind. A  *)
(* choice of an OP that takes effect is one that the user made. The files  *)
(* with the metadata of an OP give every request a document that is fresh  *)
(* and one client, although nothing but the rename of a file keeps the     *)
(* processes apart.                                                        *)
(***************************************************************************)
EXTENDS HttpClient, ChunkedCookie, DiscoveryFlow, ProviderMetadata, SequenceTheorems,
        WellFoundedInduction, TLAPS

-----------------------------------------------------------------------------
(* The pool of handles                                                     *)

Calls == [pc : {"idle", "setup", "perform", "ok", "failed", "reset"},
          handle : Handles \cup {NoHandle}, attempt : 0..Retries + 1, body : Seq(0..Retries)]

\* A call under way has a handle, and makes an attempt that it is allowed.
HasHandle ==
    \A t \in HttpThreads :
        /\ hcall[t].handle = NoHandle <=> hcall[t].pc = "idle"
        /\ hcall[t].pc \in {"setup", "perform"} => hcall[t].attempt <= Retries

\* Options are on the handle of the call that has set them, and nowhere else
\* when a handle is taken from the pool or given back.
OptionsPlaced ==
    /\ \A t \in HttpThreads :
         /\ hcall[t].pc \in {"setup", "reset"} => opts[hcall[t].handle] = {}
         /\ hcall[t].pc = "perform" => opts[hcall[t].handle] = {t}
    /\ \A i \in DOMAIN hpool : opts[hpool[i]] = {}

\* A call that has succeeded has a handle that works.
GoodHandle == \A t \in HttpThreads : hcall[t].pc \in {"ok", "reset"} => hcall[t].handle \notin poisoned

\* A handle is with one call, or in one place of the pool.
OnePlace ==
    /\ \A t, u \in HttpThreads : hcall[t].handle = hcall[u].handle => t = u \/ hcall[t].handle = NoHandle
    /\ \A i \in DOMAIN hpool : hpool[i] \notin poisoned /\ \A t \in HttpThreads : hpool[i] # hcall[t].handle
    /\ \A i, j \in DOMAIN hpool : hpool[i] = hpool[j] => i = j

HttpInv == HttpTypeOK /\ HasHandle /\ OptionsPlaced /\ GoodHandle /\ OnePlace

\* What the other parts need of a step of a call: where it stands, which
\* handle it has and which attempt it makes.
LEMMA CallFields ==
    ASSUME HttpTypeOK, NEW t \in HttpThreads
    PROVE  /\ hcall \in [HttpThreads -> Calls] /\ hcall[t] \in Calls
           /\ hcall[t].handle \in Handles \cup {NoHandle} /\ hcall[t].attempt \in 0..Retries + 1
           /\ hcall[t].body \in Seq(0..Retries)
  BY DEF HttpTypeOK, Calls

LEMMA NoCallType == NoCall \in Calls /\ NoCall.pc = "idle" /\ NoCall.handle = NoHandle
<1>1. <<>> \in Seq(0..Retries)
  OBVIOUS
<1>2. 0 \in 0..Retries + 1
  BY HttpAssumption
<1> QED
  BY <1>1, <1>2 DEF NoCall, Calls

LEMMA HttpInitInv == HttpInit => HttpInv
<1> SUFFICES ASSUME HttpInit PROVE HttpInv
  OBVIOUS
<1>1. HttpTypeOK
  BY NoCallType, HttpAssumption DEF HttpInit, HttpTypeOK, Calls
<1>2. HasHandle /\ OptionsPlaced /\ GoodHandle /\ OnePlace
  BY NoCallType DEF HttpInit, HasHandle, OptionsPlaced, GoodHandle, OnePlace
<1> QED
  BY <1>1, <1>2 DEF HttpInv

\* One attempt, as the other parts see it: the call goes on with the same
\* handle, and has succeeded only if the handle works.
LEMMA AttemptFields ==
    ASSUME HttpInv, NEW t \in HttpThreads, Perform(t)
    PROVE  /\ hcall' \in [HttpThreads -> Calls]
           /\ \A u \in HttpThreads \ {t} : hcall'[u] = hcall[u]
           /\ hcall'[t].handle = hcall[t].handle
           /\ hcall'[t].pc \in {"perform", "ok", "failed"}
           /\ hcall'[t].pc = "perform" => hcall'[t].attempt <= Retries
           /\ poisoned' \subseteq poisoned \cup {hcall[t].handle}
           /\ hcall'[t].pc = "ok" => hcall[t].handle \notin poisoned'
<1> DEFINE c == hcall[t]
<1>1. c \in Calls /\ hcall \in [HttpThreads -> Calls]
  BY CallFields DEF HttpInv
<1>2. c.attempt \in Nat /\ c.attempt <= Retries /\ Retries \in Nat /\ c.body \in Seq(0..Retries)
  BY CallFields, HttpAssumption DEF HttpInv, HasHandle, Perform
<1>3. ASSUME NEW n \in Nat
      PROVE  WithParts(c.body, c.attempt, n) \in Seq(0..Retries)
  <2>1. [i \in 1..n |-> c.attempt] \in Seq(0..Retries)
    BY <1>2
  <2> QED
    BY <1>2, <2>1 DEF WithParts
<1>4. ASSUME NEW body \in Seq(0..Retries), FailedAttempt(t, body)
      PROVE  /\ hcall'[t] \in Calls /\ hcall' = [hcall EXCEPT ![t] = hcall'[t]]
             /\ hcall'[t].handle = c.handle /\ hcall'[t].pc \in {"perform", "failed"}
             /\ hcall'[t].pc = "perform" => hcall'[t].attempt <= Retries
  <2>1. c.attempt + 1 \in 0..Retries + 1
    BY <1>2
  <2>2. /\ hcall'[t] = [pc |-> IF c.attempt < Retries THEN "perform" ELSE "failed",
                        handle |-> c.handle, attempt |-> c.attempt + 1, body |-> body]
        /\ hcall' = [hcall EXCEPT ![t] = hcall'[t]]
    BY <1>1, <1>4 DEF FailedAttempt, Calls
  <2> QED
    BY <1>1, <1>2, <2>1, <2>2 DEF Calls
<1>5. ASSUME NEW n \in Nat, hcall' = [hcall EXCEPT ![t].pc = "ok", ![t].body = WithParts(c.body, c.attempt, n)]
      PROVE  /\ hcall'[t] \in Calls /\ hcall' = [hcall EXCEPT ![t] = hcall'[t]]
             /\ hcall'[t].handle = c.handle /\ hcall'[t].pc = "ok"
  <2>1. /\ hcall'[t] = [pc |-> "ok", handle |-> c.handle, attempt |-> c.attempt,
                        body |-> WithParts(c.body, c.attempt, n)]
        /\ hcall' = [hcall EXCEPT ![t] = hcall'[t]]
    BY <1>1, <1>5 DEF Calls
  <2> QED
    BY <1>1, <1>3, <2>1 DEF Calls
<1>6. ASSUME hcall' = [hcall EXCEPT ![t].pc = "failed"]
      PROVE  /\ hcall'[t] \in Calls /\ hcall' = [hcall EXCEPT ![t] = hcall'[t]]
             /\ hcall'[t].handle = c.handle /\ hcall'[t].pc = "failed"
  BY <1>1, <1>6 DEF Calls
<1>7. \/ \E body \in Seq(0..Retries) : FailedAttempt(t, body)
      \/ /\ \E n \in Nat : hcall' = [hcall EXCEPT ![t].pc = "ok", ![t].body = WithParts(c.body, c.attempt, n)]
         /\ poisoned' = poisoned \ {c.handle}
      \/ poisoned' = poisoned \cup {c.handle} /\ hcall' = [hcall EXCEPT ![t].pc = "failed"]
  <2>1. 1..BodyMax \subseteq Nat
    BY HttpAssumption
  <2> QED
    BY <1>2, <1>3, <2>1 DEF Perform
<1>8. CASE \E body \in Seq(0..Retries) : FailedAttempt(t, body)
  <2>1. poisoned' = poisoned \cup {c.handle}
    BY <1>8 DEF FailedAttempt
  <2> QED
    BY <1>1, <1>4, <1>8, <2>1
<1>9. CASE /\ \E n \in Nat : hcall' = [hcall EXCEPT ![t].pc = "ok", ![t].body = WithParts(c.body, c.attempt, n)]
           /\ poisoned' = poisoned \ {c.handle}
  BY <1>1, <1>5, <1>9
<1>10. CASE poisoned' = poisoned \cup {c.handle} /\ hcall' = [hcall EXCEPT ![t].pc = "failed"]
  BY <1>1, <1>6, <1>10
<1> QED
  BY <1>7, <1>8, <1>9, <1>10

\* A step of one thread that leaves the pool alone: the handle stays with its
\* call, and options and failures are those of this handle.
LEMMA OwnHandleStep ==
    ASSUME HttpInv, NEW t \in HttpThreads, hpool' = hpool, hcall[t].pc # "idle",
           hcall' \in [HttpThreads -> Calls], \A u \in HttpThreads \ {t} : hcall'[u] = hcall[u],
           hcall'[t].handle = hcall[t].handle, hcall'[t].pc # "idle",
           hcall'[t].pc \in {"setup", "perform"} => hcall'[t].attempt <= Retries,
           opts' \in [Handles -> SUBSET HttpThreads],
           \A h \in Handles \ {hcall[t].handle} : opts'[h] = opts[h],
           hcall'[t].pc \in {"setup", "reset"} => opts'[hcall[t].handle] = {},
           hcall'[t].pc = "perform" => opts'[hcall[t].handle] = {t},
           poisoned' \subseteq poisoned \cup {hcall[t].handle},
           hcall'[t].pc \in {"ok", "reset"} => hcall[t].handle \notin poisoned'
    PROVE  HttpInv'
<1> DEFINE h == hcall[t].handle
<1>1. /\ h \in Handles /\ \A u \in HttpThreads \ {t} : hcall[u].handle # h
      /\ \A i \in DOMAIN hpool : hpool[i] # h /\ hpool[i] \in Handles
  BY CallFields, HttpAssumption DEF HttpInv, HasHandle, OnePlace, HttpTypeOK
<1>2. HttpTypeOK'
  BY <1>1 DEF HttpInv, HttpTypeOK, Calls
<1>3. HasHandle'
  BY <1>1, HttpAssumption DEF HttpInv, HasHandle
<1>4. \A u \in HttpThreads \ {t} : hcall[u].pc # "idle" => hcall[u].handle \in Handles \ {h}
  BY <1>1, CallFields DEF HttpInv, HasHandle
<1>5. OptionsPlaced'
  BY <1>1, <1>4 DEF HttpInv, OptionsPlaced
<1>6. GoodHandle'
  BY <1>1, <1>4 DEF HttpInv, GoodHandle
<1>7. OnePlace'
  BY <1>1 DEF HttpInv, OnePlace
<1> QED
  BY <1>2, <1>3, <1>5, <1>6, <1>7 DEF HttpInv

\* A call takes a handle h that no other has.
LEMMA TakeStep ==
    ASSUME HttpInv, NEW t \in HttpThreads, hcall[t].pc = "idle", NEW h \in Handles,
           hcall' = [hcall EXCEPT ![t] = [pc |-> "setup", handle |-> h, attempt |-> 0, body |-> <<>>]],
           \A u \in HttpThreads : hcall[u].handle # h,
           hpool' \in Seq(Handles), Len(hpool') <= HttpPoolMax, DOMAIN hpool' \subseteq DOMAIN hpool,
           \A i \in DOMAIN hpool' : hpool'[i] = hpool[i] /\ hpool[i] # h,
           opts' = [opts EXCEPT ![h] = {}], poisoned' = poisoned \ {h}
    PROVE  HttpInv'
<1>1. [pc |-> "setup", handle |-> h, attempt |-> 0, body |-> <<>>] \in Calls
  BY HttpAssumption DEF Calls
<1>2. hcall \in [HttpThreads -> Calls] /\ opts \in [Handles -> SUBSET HttpThreads]
  BY CallFields DEF HttpInv, HttpTypeOK
<1>3. /\ hcall' \in [HttpThreads -> Calls] /\ \A u \in HttpThreads \ {t} : hcall'[u] = hcall[u]
      /\ hcall'[t].pc = "setup" /\ hcall'[t].handle = h /\ hcall'[t].attempt = 0
  BY <1>1, <1>2
<1>4. HttpTypeOK'
  BY <1>2, <1>3 DEF HttpInv, HttpTypeOK, Calls
<1>5. HasHandle'
  BY <1>3, HttpAssumption DEF HttpInv, HasHandle
<1>6. \A u \in HttpThreads \ {t} : hcall[u].pc # "idle" => hcall[u].handle \in Handles \ {h}
  BY CallFields DEF HttpInv, HasHandle
<1>7. OptionsPlaced'
  <2>1. opts'[h] = {} /\ \A g \in Handles \ {h} : opts'[g] = opts[g]
    BY <1>2
  <2>2. \A i \in DOMAIN hpool' : opts'[hpool'[i]] = {}
    BY <2>1 DEF HttpInv, HttpTypeOK, OptionsPlaced
  <2> QED
    BY <1>3, <1>6, <2>1, <2>2 DEF HttpInv, OptionsPlaced
<1>8. GoodHandle'
  BY <1>3 DEF HttpInv, GoodHandle
<1>9. OnePlace'
  BY <1>3 DEF HttpInv, OnePlace
<1> QED
  BY <1>4, <1>5, <1>7, <1>8, <1>9 DEF HttpInv

LEMMA AcquireStep ==
    ASSUME HttpInv, NEW t \in HttpThreads, Acquire(t)
    PROVE  HttpInv'
<1>1. hpool \in Seq(Handles) /\ opts \in [Handles -> SUBSET HttpThreads] /\ Len(hpool) <= HttpPoolMax
  BY DEF HttpInv, HttpTypeOK
<1>2. CASE hpool # <<>>
  <2> DEFINE n == Len(hpool)
             h == hpool[n]
  <2>1. n \in Nat /\ n >= 1 /\ n \in DOMAIN hpool /\ h \in Handles
    BY <1>1, <1>2
  <2>2. /\ hcall' = [hcall EXCEPT ![t] = [pc |-> "setup", handle |-> h, attempt |-> 0, body |-> <<>>]]
        /\ hpool' = SubSeq(hpool, 1, n - 1) /\ opts' = opts /\ poisoned' = poisoned
    BY <1>2 DEF Acquire, NoCall
  <2>3. /\ hpool' \in Seq(Handles) /\ Len(hpool') = n - 1 /\ DOMAIN hpool' = 1..(n - 1)
        /\ \A i \in 1..(n - 1) : hpool'[i] = hpool[i]
    <3>1. 1 \in Int /\ n - 1 \in Int /\ \A i \in 1..(n - 1) : hpool[i] \in Handles
      BY <1>1, <2>1
    <3> DEFINE p == SubSeq(hpool, 1, n - 1)
    <3>2. /\ p \in Seq(Handles) /\ Len(p) = (IF 1 <= n - 1 THEN (n - 1) - 1 + 1 ELSE 0)
          /\ \A i \in 1..((n - 1) - 1 + 1) : p[i] = hpool[1 + i - 1]
      BY <3>1, SubSeqProperties
    <3> HIDE DEF p, n
    <3>3. Len(p) = n - 1
      BY <2>1, <3>2
    <3>4. DOMAIN p = 1..(n - 1)
      BY <3>2, <3>3
    <3>5. ASSUME NEW i \in 1..(n - 1)
          PROVE  p[i] = hpool[i]
      <4>1. i \in 1..((n - 1) - 1 + 1) /\ 1 + i - 1 = i
        BY <2>1
      <4>2. p[i] = hpool[1 + i - 1]
        BY <3>2, <4>1
      <4> QED
        BY <4>1, <4>2
    <3> QED
      BY <2>2, <3>2, <3>3, <3>4, <3>5 DEF p
  <2>4. DOMAIN hpool' \subseteq DOMAIN hpool /\ Len(hpool') <= HttpPoolMax
    BY <1>1, <2>1, <2>3, HttpAssumption
  <2>5. \A i \in DOMAIN hpool' : i # n
    BY <2>1, <2>3
  <2>6. \A i \in DOMAIN hpool' : hpool'[i] = hpool[i] /\ hpool[i] # h
    BY <2>1, <2>3, <2>4, <2>5 DEF HttpInv, OnePlace
  <2>7. opts[h] = {} /\ h \notin poisoned /\ \A u \in HttpThreads : hcall[u].handle # h
    BY <2>1 DEF HttpInv, OptionsPlaced, OnePlace
  <2>8. opts' = [opts EXCEPT ![h] = {}] /\ poisoned' = poisoned \ {h}
    BY <1>1, <2>1, <2>2, <2>7
  <2>9. hcall[t].pc = "idle"
    BY DEF Acquire
  <2> QED
    BY <2>1, <2>2, <2>3, <2>4, <2>6, <2>7, <2>8, <2>9, TakeStep
<1>3. CASE hpool = <<>>
  <2>1. PICK h \in Handles \ (Pooled \cup InUse) :
          /\ hcall' = [hcall EXCEPT ![t] = [pc |-> "setup", handle |-> h, attempt |-> 0, body |-> <<>>]]
          /\ opts' = [opts EXCEPT ![h] = {}] /\ poisoned' = poisoned \ {h} /\ hpool' = hpool
    BY <1>3 DEF Acquire, NoCall
  <2>2. /\ \A u \in HttpThreads : hcall[u].handle # h
        /\ \A i \in DOMAIN hpool : hpool[i] # h
    BY <2>1 DEF InUse, Pooled
  <2>3. hcall[t].pc = "idle"
    BY DEF Acquire
  <2> QED
    BY <1>1, <2>1, <2>2, <2>3, TakeStep
<1> QED
  BY <1>2, <1>3

\* The handle of a call that succeeded goes to the pool, any other is destroyed.
LEMMA ReleaseStep ==
    ASSUME HttpInv, NEW t \in HttpThreads, Release(t)
    PROVE  HttpInv'
<1> DEFINE h == hcall[t].handle
           n == Len(hpool)
<1>1. /\ hpool \in Seq(Handles) /\ n \in Nat /\ n <= HttpPoolMax /\ HttpPoolMax \in Nat
      /\ opts \in [Handles -> SUBSET HttpThreads] /\ hcall \in [HttpThreads -> Calls]
  BY CallFields, HttpAssumption DEF HttpInv, HttpTypeOK
<1>2. h \in Handles /\ \A u \in HttpThreads \ {t} : hcall[u].handle # h
  BY CallFields DEF HttpInv, HasHandle, OnePlace, Release
<1>3. /\ hcall' \in [HttpThreads -> Calls] /\ \A u \in HttpThreads \ {t} : hcall'[u] = hcall[u]
      /\ hcall'[t].pc = "idle" /\ hcall'[t].handle = NoHandle /\ opts' = opts /\ poisoned' = poisoned
  BY <1>1, NoCallType DEF Release
<1>4. CASE hpool' = hpool
  <2>1. HttpTypeOK'
    BY <1>3, <1>4 DEF HttpInv, HttpTypeOK, Calls
  <2>2. HasHandle' /\ OptionsPlaced' /\ GoodHandle'
    BY <1>3, <1>4 DEF HttpInv, HasHandle, OptionsPlaced, GoodHandle
  <2>3. \A i \in DOMAIN hpool : hpool[i] # NoHandle
    BY <1>1, HttpAssumption
  <2>4. OnePlace'
    BY <1>3, <1>4, <2>3 DEF HttpInv, OnePlace
  <2> QED
    BY <2>1, <2>2, <2>4 DEF HttpInv
<1>5. CASE hpool' # hpool
  <2>1. hcall[t].pc = "reset" /\ n < HttpPoolMax /\ hpool' = Append(hpool, h)
    BY <1>5 DEF Release
  <2>2. /\ hpool' \in Seq(Handles) /\ Len(hpool') = n + 1 /\ hpool'[n + 1] = h
        /\ \A i \in 1..n : hpool'[i] = hpool[i]
    BY <1>1, <1>2, <2>1, AppendProperties
  <2>3. DOMAIN hpool' = 1..(n + 1) /\ DOMAIN hpool = 1..n
    BY <1>1, <2>2
  <2>4. \A i \in DOMAIN hpool' : \/ i = n + 1 /\ hpool'[i] = h
                                 \/ i \in DOMAIN hpool /\ hpool'[i] = hpool[i]
    BY <1>1, <2>2, <2>3
  <2>5. opts[h] = {} /\ h \notin poisoned /\ \A i \in DOMAIN hpool : hpool[i] # h
    BY <2>1 DEF HttpInv, OptionsPlaced, GoodHandle, OnePlace
  <2>6. HttpTypeOK'
    BY <1>1, <1>3, <2>1, <2>2 DEF HttpInv, HttpTypeOK, Calls
  <2>7. HasHandle' /\ GoodHandle'
    BY <1>3 DEF HttpInv, HasHandle, GoodHandle
  <2>8. OptionsPlaced'
    BY <1>3, <2>4, <2>5 DEF HttpInv, OptionsPlaced
  <2>9. OnePlace'
    <3>1. \A u, v \in HttpThreads : hcall'[u].handle = hcall'[v].handle => u = v \/ hcall'[u].handle = NoHandle
      BY <1>3 DEF HttpInv, OnePlace
    <3>2. h # NoHandle /\ \A i \in DOMAIN hpool : hpool[i] # NoHandle
      BY <1>1, <1>2, HttpAssumption
    <3>3. \A i \in DOMAIN hpool' : hpool'[i] \notin poisoned' /\ \A u \in HttpThreads : hpool'[i] # hcall'[u].handle
      BY <1>2, <1>3, <2>4, <2>5, <3>2 DEF HttpInv, OnePlace
    <3>4. \A i, j \in DOMAIN hpool' : hpool'[i] = hpool'[j] => i = j
      BY <2>4, <2>5 DEF HttpInv, OnePlace
    <3> QED
      BY <3>1, <3>3, <3>4 DEF OnePlace
  <2> QED
    BY <2>6, <2>7, <2>8, <2>9 DEF HttpInv
<1> QED
  BY <1>4, <1>5

LEMMA HttpStep ==
    ASSUME HttpInv, HttpNext
    PROVE  HttpInv'
<1>1. ASSUME NEW t \in HttpThreads, Acquire(t)
      PROVE  HttpInv'
  BY <1>1, AcquireStep
<1>2. ASSUME NEW t \in HttpThreads, SetOptions(t) \/ Reset(t)
      PROVE  HttpInv'
  <2> DEFINE h == hcall[t].handle
  <2>1. /\ hcall \in [HttpThreads -> Calls] /\ hcall[t] \in Calls /\ h \in Handles
        /\ opts \in [Handles -> SUBSET HttpThreads]
    BY <1>2, CallFields DEF HttpInv, HttpTypeOK, HasHandle, SetOptions, Reset
  <2>2. /\ hpool' = hpool /\ poisoned' = poisoned /\ hcall[t].pc # "idle"
        /\ \/ hcall[t].pc = "setup" /\ hcall' = [hcall EXCEPT ![t].pc = "perform"]
              /\ opts' = [opts EXCEPT ![h] = @ \cup {t}]
           \/ hcall[t].pc = "ok" /\ hcall' = [hcall EXCEPT ![t].pc = "reset"]
              /\ opts' = [opts EXCEPT ![h] = {}]
    BY <1>2 DEF SetOptions, Reset, Options
  <2>3. /\ hcall' \in [HttpThreads -> Calls] /\ \A u \in HttpThreads \ {t} : hcall'[u] = hcall[u]
        /\ hcall'[t].handle = h /\ hcall'[t].attempt = hcall[t].attempt
        /\ \/ hcall[t].pc = "setup" /\ hcall'[t].pc = "perform"
           \/ hcall[t].pc = "ok" /\ hcall'[t].pc = "reset"
    <3>1. ASSUME NEW pc \in {"perform", "reset"}, hcall' = [hcall EXCEPT ![t].pc = pc]
          PROVE  /\ hcall' \in [HttpThreads -> Calls] /\ \A u \in HttpThreads \ {t} : hcall'[u] = hcall[u]
                 /\ hcall'[t].handle = h /\ hcall'[t].attempt = hcall[t].attempt /\ hcall'[t].pc = pc
      <4>1. [hcall[t] EXCEPT !.pc = pc] \in Calls
        BY <2>1 DEF Calls
      <4>2. hcall'[t] = [hcall[t] EXCEPT !.pc = pc] /\ \A u \in HttpThreads \ {t} : hcall'[u] = hcall[u]
        BY <2>1, <3>1
      <4>3. hcall' \in [HttpThreads -> Calls]
        BY <2>1, <3>1, <4>1
      <4> QED
        BY <2>1, <4>2, <4>3 DEF Calls
    <3>2. CASE hcall[t].pc = "setup"
      BY <2>2, <3>1, <3>2
    <3>3. CASE hcall[t].pc = "ok"
      BY <2>2, <3>1, <3>3
    <3> QED
      BY <2>2, <3>2, <3>3
  <2>4. /\ opts' \in [Handles -> SUBSET HttpThreads] /\ \A g \in Handles \ {h} : opts'[g] = opts[g]
        /\ hcall[t].pc = "setup" => opts'[h] = {t}
        /\ hcall[t].pc = "ok" => opts'[h] = {}
    BY <2>1, <2>2 DEF HttpInv, OptionsPlaced
  <2>5. hcall[t].pc = "setup" => hcall[t].attempt <= Retries
    BY DEF HttpInv, HasHandle
  <2>6. hcall[t].pc = "ok" => h \notin poisoned
    BY DEF HttpInv, GoodHandle
  <2> QED
    BY <2>2, <2>3, <2>4, <2>5, <2>6, OwnHandleStep
<1>3. ASSUME NEW t \in HttpThreads, Perform(t)
      PROVE  HttpInv'
  <2>1. /\ hpool' = hpool /\ opts' = opts /\ hcall[t].pc = "perform"
        /\ opts \in [Handles -> SUBSET HttpThreads] /\ opts[hcall[t].handle] = {t}
    BY <1>3 DEF Perform, HttpInv, HttpTypeOK, OptionsPlaced
  <2> QED
    BY <1>3, <2>1, AttemptFields, OwnHandleStep
<1>4. ASSUME NEW t \in HttpThreads, Release(t)
      PROVE  HttpInv'
  BY <1>4, ReleaseStep
<1>5. CASE ForgetInherited
  BY <1>5, HttpAssumption DEF ForgetInherited, HttpInv, HttpTypeOK, HasHandle, OptionsPlaced, GoodHandle, OnePlace
<1> QED
  BY <1>1, <1>2, <1>3, <1>4, <1>5 DEF HttpNext

\* The inductive invariant of the pool of handles.
THEOREM HttpInvariance == HttpSpec => []HttpInv
<1>1. HttpInit => HttpInv
  BY HttpInitInv
<1>2. HttpInv /\ [HttpNext]_httpVars => HttpInv'
  <2>1. CASE HttpNext
    BY <2>1, HttpStep
  <2>2. CASE UNCHANGED httpVars
    BY <2>2 DEF httpVars, HttpInv, HttpTypeOK, HasHandle, OptionsPlaced, GoodHandle, OnePlace
  <2> QED
    BY <2>1, <2>2
<1> QED
  BY <1>1, <1>2, PTL DEF HttpSpec

\* A call is made with its own options only, and a handle serves one call at
\* a time (oidc_http_curl_acquire, oidc_http_curl_release), however threads
\* interleave, calls fail and are retried, and the pool fills up.
THEOREM HandlesAlwaysSafe == HttpSpec => []HandlesSafe
<1>1. HttpInv => HandlesSafe
  BY DEF HttpInv, OptionsPlaced, OnePlace, HandlesSafe, OwnOptionsOnly, HandleInOnePlace, Pooled, InUse
<1> QED
  BY <1>1, HttpInvariance, PTL

-----------------------------------------------------------------------------
(* Values in several cookies                                                 *)

\* The first count chunks of jar j are the pieces of value v, all of them.
PiecesOf(j, v) ==
    /\ v \in Values /\ j.count = Chunks(length[v]) /\ length[v] # 0 /\ ~IsShort(length[v])
    /\ \A i \in Indexes : i < j.count => j.chunk[i] = <<v, i>>

\* A count that a jar has is that of one value, and a plain cookie is a short
\* value; a value that was written has a length.
JarWhole ==
    /\ jar.count # 0 => ChunkSize # 0 /\ \E v \in Values : PiecesOf(jar, v)
    /\ jar.plain # 0 => length[jar.plain] # 0 /\ IsShort(length[jar.plain])

\* As long as no two requests have overlapped, the one under way has brought
\* the cookies that the browser still has, and these hold the last value.
InSequence ==
    ~overlapped =>
        /\ \A p, r \in JarRequests : jreq[p].active /\ jreq[r].active => p = r
        /\ \A p \in JarRequests : jreq[p].active => jreq[p].jar = jar
        /\ lastWrite # 0 => length[lastWrite] # 0
        /\ jar.count = 0 => jar.plain = lastWrite
        /\ jar.count # 0 => lastWrite # 0 /\ PiecesOf(jar, lastWrite)

JarInv == JarTypeOK /\ JarWhole /\ InSequence

-----------------------------------------------------------------------------
\* A value that is not short, and not empty, has at least one chunk.
LEMMA ChunksPositive ==
    ASSUME NEW n \in Nat, n # 0, ~IsShort(n)
    PROVE  ChunkSize # 0 /\ Chunks(n) \in Nat \ {0}
<1>1. ChunkSize \in Nat \ {0} /\ n >= ChunkSize
  BY ChunkAssumption DEF IsShort
<1> DEFINE a == n + ChunkSize - 1
<1>2. a \in Nat /\ a >= ChunkSize
  BY <1>1
<1> HIDE DEF a
<1>3. a \div ChunkSize \in Nat \ {0}
  BY <1>1, <1>2
<1> QED
  BY <1>1, <1>3 DEF Chunks, a

LEMMA EmptyJarTyped == EmptyJar \in Jars
  BY ChunkAssumption DEF EmptyJar, Jars, Indexes, NoPiece

\* A set of numbers of values has a least one.
LEMMA LeastNumber ==
  ASSUME NEW S \in SUBSET Nat, S # {}
  PROVE  \E x \in S : \A y \in S : x <= y
<1> DEFINE R == OpToRel(<, Nat)
<1>1. IsWellFoundedOn(R, Nat)
  BY NatLessThanWellFounded
<1>2. \A x, y \in Nat : x < y => <<x, y>> \in R
  BY DEF OpToRel
<1> HIDE DEF R
<1>3. PICK x \in S : \A y \in S : ~(<<y, x>> \in R)
  BY <1>1, WFMin
<1>4. \A y \in S : ~(y < x)
  BY <1>2, <1>3
<1>5. \A y \in S : x <= y
  BY <1>4
<1> QED BY <1>5

\* A short value fits in one cookie, whatever the limit is.
LEMMA ShortFits ==
    ASSUME NEW n \in Nat, n # 0, IsShort(n)
    PROVE  ~TooLong(n)
<1>1. CASE ChunkSize = 0
  BY <1>1 DEF TooLong
<1>2. CASE ChunkSize # 0
  <2>1. ChunkSize \in Nat \ {0} /\ n < ChunkSize
    BY <1>2, ChunkAssumption DEF IsShort
  <2> DEFINE a == n + ChunkSize - 1
  <2>2. a \in Nat /\ a >= ChunkSize /\ a < ChunkSize + ChunkSize
    BY <2>1
  <2> HIDE DEF a
  <2>3. a \div ChunkSize = 1
    BY <2>1, <2>2
  <2> QED
    BY <2>3, ChunkAssumption DEF TooLong, Chunks, a
<1> QED
  BY <1>1, <1>2

LEMMA JarInitInv == JarInit => JarInv
<1> SUFFICES ASSUME JarInit PROVE JarInv
  OBVIOUS
<1>1. /\ jar = EmptyJar /\ length = [v \in Values |-> 0] /\ lastWrite = 0 /\ overlapped = FALSE
      /\ jreq = [r \in JarRequests |-> NoRequest]
  BY DEF JarInit
<1>2. jar.count = 0 /\ jar.plain = 0
  BY <1>1 DEF EmptyJar
<1>3. \A r \in JarRequests : ~jreq[r].active /\ jreq[r] \in [active : BOOLEAN, jar : Jars]
  BY <1>1, EmptyJarTyped DEF NoRequest
<1>4. length \in [Values -> 0..LengthMax] /\ lastWrite \in 0..WriteBound
  BY <1>1, ChunkAssumption
<1>5. jreq \in [JarRequests -> [active : BOOLEAN, jar : Jars]]
  BY <1>1, <1>3, EmptyJarTyped DEF NoRequest
<1>6. JarTypeOK
  BY <1>1, <1>4, <1>5, EmptyJarTyped DEF JarTypeOK
<1> QED
  BY <1>1, <1>2, <1>3, <1>6 DEF JarInv, JarWhole, InSequence

-----------------------------------------------------------------------------
(* What a response leaves in the browser                                     *)

\* A cookie jar with a short value, or none (v = 0).
LEMMA ShortLeft ==
    ASSUME NEW j \in Jars, NEW brought \in Jars, NEW v \in 0..WriteBound
    PROVE  LET k == SetShort(j, brought, v) IN
           /\ k \in Jars /\ k.plain = v
           /\ \/ k.count = 0
              \/ brought.count = 0 /\ k.count = j.count /\ k.chunk = j.chunk
<1> PICK p : p = [j EXCEPT !.plain = v]
  OBVIOUS
<1>1. p \in Jars /\ p.plain = v /\ p.count = j.count /\ p.chunk = j.chunk
  BY DEF Jars
<1>2. SetShort(j, brought, v) = Clear(p, brought)
  BY DEF SetShort
<1>3. CASE brought.count = 0
  BY <1>1, <1>2, <1>3 DEF Clear
<1>4. CASE brought.count # 0
  <2> PICK c : c = [i \in Indexes |-> IF i < brought.count THEN NoPiece ELSE p.chunk[i]]
    OBVIOUS
  <2>1. c \in [Indexes -> (Values \X Indexes) \cup {NoPiece}]
    BY <1>1 DEF Jars
  <2>2. Clear(p, brought) = [p EXCEPT !.count = 0, !.chunk = c]
    BY <1>4 DEF Clear
  <2>3. 0 \in 0..ChunksMax
    BY ChunkAssumption
  <2>4. /\ [p EXCEPT !.count = 0, !.chunk = c] \in Jars
        /\ [p EXCEPT !.count = 0, !.chunk = c].plain = v
        /\ [p EXCEPT !.count = 0, !.chunk = c].count = 0
    BY <1>1, <2>1, <2>3 DEF Jars
  <2> QED
    BY <1>2, <2>2, <2>4
<1> QED
  BY <1>3, <1>4

\* A cookie jar with a value in chunks.
LEMMA ChunksLeft ==
    ASSUME NEW j \in Jars, NEW v \in Values, NEW n \in Nat, n # 0, ~IsShort(n), ~TooLong(n)
    PROVE  LET k == SetChunks(j, v, n) IN
           /\ k \in Jars /\ k.plain = 0 /\ k.count = Chunks(n) /\ k.count # 0 /\ ChunkSize # 0
           /\ \A i \in Indexes : i < k.count => k.chunk[i] = <<v, i>>
<1>1. ChunkSize # 0 /\ Chunks(n) \in Nat \ {0} /\ Chunks(n) <= ChunksMax
  BY ChunksPositive, ChunkAssumption DEF TooLong
<1> PICK c : c = [i \in Indexes |-> IF i < Chunks(n) THEN <<v, i>> ELSE j.chunk[i]]
  OBVIOUS
<1>2. c \in [Indexes -> (Values \X Indexes) \cup {NoPiece}]
  BY DEF Jars
<1>3. \A i \in Indexes : i < Chunks(n) => c[i] = <<v, i>>
  OBVIOUS
<1>4. SetChunks(j, v, n) = [plain |-> 0, count |-> Chunks(n), chunk |-> c]
  BY DEF SetChunks
<1>5. 0 \in 0..WriteBound /\ Chunks(n) \in 0..ChunksMax
  BY <1>1, ChunkAssumption
<1> QED
  BY <1>1, <1>2, <1>3, <1>4, <1>5 DEF Jars

LEMMA SendRequestInv ==
    ASSUME JarInv, NEW r \in JarRequests, SendRequest(r)
    PROVE  JarInv'
<1>1. /\ jar' = jar /\ length' = length /\ lastWrite' = lastWrite /\ ~jreq[r].active
      /\ jreq' = [jreq EXCEPT ![r] = [active |-> TRUE, jar |-> jar]]
      /\ overlapped' = (overlapped \/ \E p \in JarRequests : jreq[p].active)
  BY DEF SendRequest
<1>2. JarTypeOK'
  BY <1>1 DEF JarInv, JarTypeOK
<1>3. JarWhole'
  BY <1>1 DEF JarInv, JarWhole, PiecesOf
<1>4. InSequence'
  <2> SUFFICES ASSUME ~overlapped' PROVE InSequence'
    BY DEF InSequence
  <2>1. ~overlapped /\ \A p \in JarRequests : ~jreq[p].active
    BY <1>1 DEF JarInv, JarTypeOK
  <2>2. \A p \in JarRequests : jreq'[p].active => p = r /\ jreq'[p].jar = jar'
    BY <1>1, <2>1 DEF JarInv, JarTypeOK
  <2> QED
    BY <1>1, <2>1, <2>2 DEF JarInv, InSequence, PiecesOf
<1> QED
  BY <1>2, <1>3, <1>4 DEF JarInv

LEMMA RespondWithoutInv ==
    ASSUME JarInv, NEW r \in JarRequests, RespondWithout(r)
    PROVE  JarInv'
<1>1. /\ jar' = jar /\ length' = length /\ lastWrite' = lastWrite /\ overlapped' = overlapped
      /\ jreq' = [jreq EXCEPT ![r] = NoRequest]
  BY DEF RespondWithout
<1>2. NoRequest \in [active : BOOLEAN, jar : Jars] /\ ~NoRequest.active
  BY EmptyJarTyped DEF NoRequest
<1>3. JarTypeOK'
  BY <1>1, <1>2 DEF JarInv, JarTypeOK
<1>4. JarWhole'
  BY <1>1 DEF JarInv, JarWhole, PiecesOf
<1>5. \A p \in JarRequests : jreq'[p].active => jreq[p].active /\ jreq'[p] = jreq[p]
  BY <1>1, <1>2 DEF JarInv, JarTypeOK
<1>6. InSequence'
  BY <1>1, <1>5 DEF JarInv, InSequence, PiecesOf
<1> QED
  BY <1>3, <1>4, <1>6 DEF JarInv

LEMMA RespondInv ==
    ASSUME JarInv, NEW r \in JarRequests, NEW n \in 0..LengthMax, Respond(r, n)
    PROVE  JarInv'
<1> DEFINE unused == {x \in Values : length[x] = 0}
<1>1. /\ jar \in Jars /\ length \in [Values -> 0..LengthMax] /\ lastWrite \in 0..WriteBound
      /\ jreq \in [JarRequests -> [active : BOOLEAN, jar : Jars]] /\ overlapped \in BOOLEAN
      /\ JarWhole /\ InSequence /\ n \in Nat
  BY ChunkAssumption DEF JarInv, JarTypeOK
<1>2. PICK v : v = IF n = 0 THEN 0 ELSE CHOOSE x \in unused : \A y \in unused : x <= y
  OBVIOUS
<1>3. /\ jreq[r].active /\ (n > 0 => unused # {})
      /\ jar' = SetChunkedCookie(jar, jreq[r].jar, v, n)
      /\ length' = IF v = 0 THEN length ELSE [length EXCEPT ![v] = n]
      /\ lastWrite' = IF n > 0 /\ TooLong(n) THEN lastWrite ELSE v
      /\ jreq' = [jreq EXCEPT ![r] = NoRequest] /\ overlapped' = overlapped
  BY <1>2 DEF Respond
<1>4. n # 0 => v \in Values /\ length[v] = 0
  <2> SUFFICES ASSUME n # 0 PROVE v \in Values /\ length[v] = 0
    OBVIOUS
  <2>1. unused # {} /\ unused \subseteq Nat
    BY <1>1, <1>3, ChunkAssumption DEF Values
  <2>2. \E x \in unused : \A y \in unused : x <= y
    <3> PICK S \in SUBSET Nat : S = unused
      BY <2>1
    <3> QED
      BY <2>1, LeastNumber
  <2>3. v \in unused
    BY <1>2, <2>2
  <2> QED
    BY <2>3
<1>5. v \in 0..WriteBound /\ (n = 0 <=> v = 0)
  <2>1. n = 0 => v = 0
    BY <1>2
  <2> QED
    BY <1>4, <2>1, ChunkAssumption DEF Values
<1>6. NoRequest \in [active : BOOLEAN, jar : Jars] /\ ~NoRequest.active
  BY EmptyJarTyped DEF NoRequest
<1>7. /\ jreq' \in [JarRequests -> [active : BOOLEAN, jar : Jars]]
      /\ \A p \in JarRequests : jreq'[p].active => jreq[p].active /\ p # r /\ jreq'[p] = jreq[p]
  BY <1>1, <1>3, <1>6
<1> PICK b \in Jars : b = jreq[r].jar
  BY <1>1
<1>8. ~overlapped => b = jar /\ \A p \in JarRequests : ~jreq'[p].active
  BY <1>1, <1>3, <1>7 DEF InSequence
<1>9. length' \in [Values -> 0..LengthMax]
  BY <1>1, <1>3, <1>4, <1>5
<1>10. \A w \in Values : length[w] # 0 => length'[w] = length[w]
  BY <1>1, <1>3, <1>4, <1>5
<1>11. n # 0 => length'[v] = n
  BY <1>1, <1>3, <1>4, <1>5
<1>12. \A w \in Values : PiecesOf(jar, w) /\ jar'.count = jar.count /\ jar'.chunk = jar.chunk
                            => PiecesOf(jar, w)'
  BY <1>10 DEF PiecesOf
<1>13. jar.plain \in 0..WriteBound /\ 0..WriteBound = Values \cup {0}
  BY <1>1, ChunkAssumption DEF Jars, Values
<1>14. CASE n = 0 \/ IsShort(n)
  <2>1. jar' = SetShort(jar, b, v) /\ lastWrite' = v
    <3>1. jar' = SetShort(jar, b, v)
      BY <1>3, <1>5, <1>14 DEF SetChunkedCookie
    <3>2. n # 0 => ~TooLong(n)
      BY <1>1, <1>14, ShortFits
    <3> QED
      BY <1>1, <1>3, <3>1, <3>2
  <2>2. /\ jar' \in Jars /\ jar'.plain = v
        /\ \/ jar'.count = 0
           \/ b.count = 0 /\ jar'.count = jar.count /\ jar'.chunk = jar.chunk
    BY <1>1, <1>5, <2>1, ShortLeft
  <2>3. JarWhole'
    <3>1. jar'.plain # 0 => length'[jar'.plain] # 0 /\ IsShort(length'[jar'.plain])
      BY <1>5, <1>11, <1>14, <2>2
    <3>2. jar'.count # 0 => ChunkSize # 0 /\ \E w \in Values : PiecesOf(jar, w)'
      BY <1>1, <1>12, <2>2 DEF JarWhole
    <3> QED
      BY <3>1, <3>2 DEF JarWhole, IsShort
  <2>4. InSequence'
    <3> SUFFICES ASSUME ~overlapped' PROVE InSequence'
      BY DEF InSequence
    <3>1. jar'.count = 0
      BY <1>3, <1>8, <2>2
    <3> QED
      BY <1>3, <1>5, <1>8, <1>11, <2>1, <2>2, <3>1 DEF InSequence
  <2> QED
    BY <1>3, <1>1, <1>5, <1>7, <1>9, <2>1, <2>2, <2>3, <2>4 DEF JarInv, JarTypeOK
<1>15. CASE n # 0 /\ ~IsShort(n) /\ TooLong(n)
  <2>1. jar' = jar /\ lastWrite' = lastWrite
    BY <1>1, <1>3, <1>15 DEF SetChunkedCookie
  <2>2. JarWhole'
    <3>1. jar'.plain # 0 => length'[jar'.plain] # 0 /\ IsShort(length'[jar'.plain])
      BY <1>1, <1>10, <1>13, <2>1 DEF JarWhole
    <3>2. jar'.count # 0 => ChunkSize # 0 /\ \E w \in Values : PiecesOf(jar, w)'
      BY <1>1, <1>12, <2>1 DEF JarWhole
    <3> QED
      BY <3>1, <3>2 DEF JarWhole, IsShort
  <2>3. InSequence'
    <3> SUFFICES ASSUME ~overlapped' PROVE InSequence'
      BY DEF InSequence
    <3>1. ~overlapped
      BY <1>3
    <3>2. lastWrite # 0 => lastWrite \in Values /\ length[lastWrite] # 0
      BY <1>1, <1>13, <3>1 DEF InSequence
    <3>3. jar.count # 0 => lastWrite # 0 /\ PiecesOf(jar, lastWrite)
      BY <1>1, <3>1 DEF InSequence
    <3>4. jar'.count # 0 => lastWrite' # 0 /\ PiecesOf(jar, lastWrite)'
      <4> SUFFICES ASSUME jar.count # 0 PROVE lastWrite' # 0 /\ PiecesOf(jar, lastWrite)'
        BY <2>1
      <4> QED
        BY <1>10, <2>1, <3>2, <3>3 DEF PiecesOf
    <3> QED
      BY <1>1, <1>8, <1>10, <2>1, <3>1, <3>2, <3>4 DEF InSequence
  <2> QED
    BY <1>1, <1>3, <1>7, <1>9, <2>1, <2>2, <2>3 DEF JarInv, JarTypeOK
<1>16. CASE n # 0 /\ ~IsShort(n) /\ ~TooLong(n)
  <2>1. jar' = SetChunks(jar, v, n) /\ lastWrite' = v
    BY <1>1, <1>3, <1>16 DEF SetChunkedCookie
  <2>2. /\ jar' \in Jars /\ jar'.plain = 0 /\ jar'.count = Chunks(n) /\ jar'.count # 0
        /\ ChunkSize # 0 /\ \A i \in Indexes : i < jar'.count => jar'.chunk[i] = <<v, i>>
    BY <1>1, <1>4, <1>16, <2>1, ChunksLeft
  <2>3. PiecesOf(jar, lastWrite)' /\ v \in Values
    BY <1>4, <1>11, <1>16, <2>1, <2>2 DEF PiecesOf
  <2>4. JarWhole'
    <3>1. \E w \in Values : PiecesOf(jar, w)'
      BY <2>1, <2>3 DEF PiecesOf
    <3> QED
      BY <2>2, <3>1 DEF JarWhole
  <2>5. InSequence'
    BY <1>3, <1>5, <1>8, <1>11, <1>16, <2>1, <2>2, <2>3 DEF InSequence
  <2> QED
    BY <1>1, <1>3, <1>5, <1>7, <1>9, <2>1, <2>2, <2>4, <2>5 DEF JarInv, JarTypeOK
<1> QED
  BY <1>14, <1>15, <1>16

-----------------------------------------------------------------------------
\* The inductive invariant of a value in several cookies
\* (oidc_http_set_chunked_cookie, oidc_http_clear_chunked_cookie): the count
\* and the chunks below it are of one value, and while requests do not
\* overlap it is the last one.
THEOREM JarInvariance == JarSpec => []JarInv
<1>1. JarInv /\ [JarNext]_jarVars => JarInv'
  <2> SUFFICES ASSUME JarInv, [JarNext]_jarVars PROVE JarInv'
    OBVIOUS
  <2>1. CASE JarNext
    BY <2>1, SendRequestInv, RespondWithoutInv, RespondInv DEF JarNext
  <2>2. CASE UNCHANGED jarVars
    BY <2>2 DEF jarVars, JarInv, JarTypeOK, JarWhole, InSequence, PiecesOf
  <2> QED
    BY <2>1, <2>2
<1> QED
  BY <1>1, JarInitInv, PTL DEF JarSpec

\* A jar that holds the pieces of one value is read as that value.
LEMMA ReadPieces ==
    ASSUME JarTypeOK, NEW v \in Values, PiecesOf(jar, v), jar.count # 0, ChunkSize # 0
    PROVE  Read(jar) = Whole([value |-> v, pieces |-> Pieces(v)])
<1>1. jar.count \in 1..ChunksMax /\ jar.count = Chunks(length[v]) /\ Pieces(v) = jar.count
  BY ChunkAssumption DEF JarTypeOK, Jars, PiecesOf, Pieces
<1>2. \A i \in 0..jar.count - 1 : i \in Indexes /\ i < jar.count
  BY <1>1, ChunkAssumption DEF Indexes
<1>3. \A i \in 0..jar.count - 1 : jar.chunk[i] = <<v, i>>
  BY <1>2 DEF PiecesOf
<1>4. \A i \in 0..jar.count - 1 : <<v, i>> # NoPiece
  BY DEF Values, NoPiece
<1>5. Read(jar) = [i \in 0..jar.count - 1 |-> jar.chunk[i]]
  BY <1>3, <1>4 DEF Read
<1>6. [i \in 0..jar.count - 1 |-> jar.chunk[i]] = [i \in 0..jar.count - 1 |-> <<v, i>>]
  BY <1>3
<1>7. Whole([value |-> v, pieces |-> Pieces(v)]) = [i \in 0..jar.count - 1 |-> <<v, i>>]
  BY <1>1 DEF Whole
<1> QED
  BY <1>5, <1>6, <1>7

\* A plain cookie is read as its value.
LEMMA ReadPlain ==
    ASSUME JarInv, jar.count = 0
    PROVE  Read(jar) = IF jar.plain = 0 THEN Nothing
                       ELSE Whole([value |-> jar.plain, pieces |-> Pieces(jar.plain)])
<1>1. Read(jar) = [i \in 0..0 |-> <<jar.plain, 0>>]
  BY DEF Read
<1>2. CASE jar.plain = 0
  BY <1>1, <1>2 DEF Nothing, NoPiece
<1>3. CASE jar.plain # 0
  <2>1. Pieces(jar.plain) = 1
    BY <1>3 DEF JarInv, JarWhole, Pieces
  <2>2. Whole([value |-> jar.plain, pieces |-> Pieces(jar.plain)]) = [i \in 0..0 |-> <<jar.plain, i>>]
    BY <2>1 DEF Whole
  <2>3. \A i \in 0..0 : <<jar.plain, i>> = <<jar.plain, 0>>
    OBVIOUS
  <2> QED
    BY <1>1, <1>3, <2>2, <2>3
<1> QED
  BY <1>2, <1>3

\* What is read is one value as it was written, or nothing, in whatever
\* order responses of any length come back; and in sequence it is the value
\* that was written last, or nothing after a logout.
THEOREM CookiesAlwaysReadBack == JarSpec => []CookiesReadBack
<1>1. JarInv => CookiesReadBack
  <2> SUFFICES ASSUME JarInv PROVE CookiesReadBack
    OBVIOUS
  <2>1. NeverMixed
    <3>1. CASE jar.count = 0
      <4>1. jar.plain # 0 => jar.plain \in Values
        BY ChunkAssumption DEF JarInv, JarTypeOK, Jars, Values
      <4> QED
        BY <3>1, <4>1, ReadPlain DEF NeverMixed, IsWhole
    <3>2. CASE jar.count # 0
      <4>1. ChunkSize # 0 /\ \E v \in Values : PiecesOf(jar, v)
        BY <3>2 DEF JarInv, JarWhole
      <4>2. PICK v \in Values : PiecesOf(jar, v)
        BY <4>1
      <4> QED
        BY <3>2, <4>1, <4>2, ReadPieces DEF JarInv, NeverMixed, IsWhole
    <3> QED
      BY <3>1, <3>2
  <2>2. LastWriteRead
    <3> SUFFICES ASSUME ~overlapped
                 PROVE  Read(jar) = IF lastWrite = 0 THEN Nothing
                          ELSE Whole([value |-> lastWrite, pieces |-> Pieces(lastWrite)])
      BY DEF LastWriteRead
    <3>1. CASE jar.count = 0
      <4>1. jar.plain = lastWrite
        BY <3>1 DEF JarInv, InSequence
      <4> QED
        BY <3>1, <4>1, ReadPlain
    <3>2. CASE jar.count # 0
      <4>1. lastWrite # 0 /\ PiecesOf(jar, lastWrite) /\ ChunkSize # 0
        BY <3>2 DEF JarInv, InSequence, JarWhole
      <4>2. lastWrite \in Values
        BY <4>1 DEF PiecesOf
      <4> QED
        BY <3>2, <4>1, <4>2, ReadPieces DEF JarInv
    <3> QED
      BY <3>1, <3>2
  <2> QED
    BY <2>1, <2>2 DEF CookiesReadBack
<1> QED
  BY <1>1, JarInvariance, PTL

-----------------------------------------------------------------------------
(* The choice of a provider                                                  *)

Navs == [pc : Waiting, token : PageTokens, issuer : Issuers, own : BOOLEAN,
         first : BOOLEAN, valid : BOOLEAN, scopes : BOOLEAN, home : BOOLEAN, clear : BOOLEAN]

\* The choice is under way: it has a target that is allowed.
Chosen == {"resolve", "select", "login"}

\* What the step of a tab is known to be.  Only the user's own choice passes
\* the CSRF check, and only what passes it sets scopes; a host that is to be
\* asked is one of the list; the target is one that the cookie reaches.
NavSound(n) ==
    /\ n.valid => n.own
    /\ n.scopes => n.valid
    /\ n.own /\ n.first => n.valid
    /\ n.pc = "page" => n.token # 0
    /\ n.pc = "resolve" => IssuerAllowed(n.issuer)
    /\ n.pc \in Chosen /\ (dset.urls => dset.domain) => n.home

\* The last page has come and nothing else is under way: the page of that tab
\* and the cookie have the same token.
CalmSound ==
    calm \in Tabs => /\ xcsrf # 0 /\ page[calm] = xcsrf
                     /\ \A u \in Tabs : nav[u].pc = "idle"

DiscoveryInv ==
    /\ DiscoveryTypeOK
    /\ \A t \in Tabs : NavSound(nav[t])
    /\ CalmSound
    /\ \A a \in adopted : a[2]
    /\ ListedHostsOnly

-----------------------------------------------------------------------------
\* A path that oidc_discovery_target_link_uri_match takes is one that the
\* browser sends the cookie to (RFC 6265), for every two paths.
LEMMA PathsAgree ==
    ASSUME NEW S, NEW path \in Seq(S), NEW cookiePath \in Seq(S), cookiePath # <<>>,
           PathMatch(path, cookiePath)
    PROVE  \/ path = cookiePath
           \/ /\ IsPrefix(cookiePath, path)
              /\ Last(cookiePath) = "/" \/ path[Len(cookiePath) + 1] = "/"
<1>1. IsPrefix(cookiePath, path)
  BY DEF PathMatch
<1>2. CASE Last(cookiePath) = "/"
  BY <1>1, <1>2
<1>3. CASE Last(cookiePath) # "/" /\ Len(path) > Len(cookiePath)
  BY <1>1, <1>3 DEF PathMatch
<1>4. CASE Len(path) <= Len(cookiePath)
  <2>1. Len(path) = Len(cookiePath)
    BY <1>1, <1>4 DEF IsPrefix
  <2>2. SubSeq(cookiePath, 1, Len(cookiePath)) = SubSeq(path, 1, Len(path))
    BY <1>1, <2>1 DEF IsPrefix
  <2>3. SubSeq(cookiePath, 1, Len(cookiePath)) = cookiePath /\ SubSeq(path, 1, Len(path)) = path
    OBVIOUS
  <2> QED
    BY <2>2, <2>3
<1> QED
  BY <1>2, <1>3, <1>4

\* The hosts agree too, unless a list of URLs opens up hosts that have no
\* cookie.
LEMMA TargetReached ==
    ASSUME dset \in SettingsType, dset.urls => dset.domain, NEW url \in Urls \cup {DefaultUrl},
           TargetValid(url)
    PROVE  CookieReaches(url)
<1>1. url.path \in UrlPaths /\ dset.path \in UrlPaths
  <2>1. <<"/", "a">> \in UrlPaths /\ <<"/">> \in UrlPaths
    BY DEF UrlPaths
  <2> QED
    <3>1. CASE url \in [host : UrlHosts, path : UrlPaths, neat : {TRUE}]
      BY <3>1 DEF SettingsType
    <3>2. CASE url = [host |-> "own", path |-> <<"/", "a">>, neat |-> FALSE]
      BY <2>1, <3>2 DEF SettingsType
    <3>3. CASE url = DefaultUrl
      BY <2>1, <3>3 DEF SettingsType, DefaultUrl
    <3> QED
      BY <3>1, <3>2, <3>3 DEF Urls
<1>2. \A p \in UrlPaths : p \in Seq({"/", "a", "b"}) /\ p # <<>>
  <2> DEFINE S == {"/", "a", "b"}
  <2>1. <<"/">> \in Seq(S) /\ <<"/">> # <<>>
    OBVIOUS
  <2>2. <<"/", "a">> \in Seq(S) /\ <<"/", "a">> # <<>>
    OBVIOUS
  <2>3. <<"/", "a", "a">> \in Seq(S) /\ <<"/", "a", "a">> # <<>>
    OBVIOUS
  <2>4. <<"/", "a", "/">> \in Seq(S) /\ <<"/", "a", "/">> # <<>>
    OBVIOUS
  <2>5. <<"/", "a", "/", "b">> \in Seq(S) /\ <<"/", "a", "/", "b">> # <<>>
    OBVIOUS
  <2> HIDE DEF S
  <2>6. \A p \in UrlPaths : p \in Seq(S) /\ p # <<>>
    BY <2>1, <2>2, <2>3, <2>4, <2>5, Zenon DEF UrlPaths
  <2> QED
    BY <2>6 DEF S
<1>3. PathMatch(url.path, dset.path) /\ url.host \in IF dset.domain THEN EndsWithParent ELSE EndsWithOwn
  BY DEF TargetValid, TargetMatch
<1>4. dset.urls \/ url.host = "own"
  BY DEF TargetValid, ValidateRedirectUrl
<1>5. url.host \in IF dset.domain THEN EndsWithParent ELSE {"own"}
  BY <1>3, <1>4
<1> QED
  BY <1>1, <1>2, <1>3, <1>5, PathsAgree DEF CookieReaches

LEMMA IdleTyped == Idle \in Navs /\ NavSound(Idle) /\ Idle.pc = "idle"
  BY DiscoveryAssumption DEF Idle, Navs, NavSound, Waiting, PageTokens, Issuers, Chosen

\* A request that ends with an error keeps what was known.
LEMMA OverSound ==
    ASSUME NEW n \in Navs, n.valid => n.own, n.own /\ n.first => n.valid
    PROVE  Over(n) \in Navs /\ NavSound(Over(n)) /\ Over(n).pc = "over"
<1>1. Over(n) \in Navs
  BY DEF Over, Navs, Waiting, Issuers
<1>2. /\ Over(n).pc = "over" /\ ~Over(n).scopes /\ Over(n).valid = n.valid /\ Over(n).own = n.own
      /\ Over(n).first = n.first
  BY DEF Over, Navs
<1> QED
  BY <1>1, <1>2 DEF NavSound, Chosen

\* A choice: the token of a page and the cookie decide whether it is valid.
LEMMA ChoiceSound ==
    ASSUME dset \in SettingsType, NEW t \in Tabs, NEW own \in BOOLEAN,
           NEW token \in PageTokens, NEW cookie \in PageTokens,
           NEW targets \in SUBSET (Urls \cup {NoUrl}), nav \in [Tabs -> Navs],
           CsrfCheck(token, cookie) => own,
           own /\ calm = t => CsrfCheck(token, cookie),
           Choice(t, own, token, cookie, targets)
    PROVE  \E n \in Navs : /\ nav' = [nav EXCEPT ![t] = n] /\ NavSound(n) /\ n.pc # "idle"
<1>1. PICK kind \in {"issuer", "account", "user"}, issuer \in Issuers,
           to \in {[valid |-> TargetValid(Target(url)), home |-> CookieReaches(Target(url))] : url \in targets} :
        LET valid == CsrfCheck(token, cookie)
            st == [Idle EXCEPT !.pc = AfterChoice(kind, issuer), !.issuer = issuer, !.own = own,
                               !.first = (calm = t), !.valid = valid, !.scopes = valid,
                               !.home = to.home, !.clear = (cookie # 0)]
        IN  nav' = [nav EXCEPT ![t] = IF to.valid /\ st.pc # "over" THEN st ELSE Over(st)]
  BY Zenon DEF Choice
<1>2. PICK url \in targets : to = [valid |-> TargetValid(Target(url)), home |-> CookieReaches(Target(url))]
  BY <1>1
<1>3. to.home = CookieReaches(Target(url)) /\ to.valid = TargetValid(Target(url))
  BY <1>2
<1>4. PICK home \in BOOLEAN : home = to.home
  BY <1>3 DEF CookieReaches
<1>5. to.valid /\ (dset.urls => dset.domain) => home
  <2> SUFFICES ASSUME to.valid, dset.urls => dset.domain PROVE home
    OBVIOUS
  <2>1. TargetValid(Target(url))
    BY <1>3
  <2>2. Target(url) \in Urls \cup {DefaultUrl}
    BY <2>1 DEF Target, TargetValid
  <2> QED
    BY <1>3, <1>4, <2>1, <2>2, TargetReached
<1>6. PICK pc \in Waiting : pc = AfterChoice(kind, issuer)
  BY DEF AfterChoice, Waiting
<1>7. pc \in {"login", "over", "select", "resolve"} /\ (pc = "resolve" => IssuerAllowed(issuer))
  BY <1>6 DEF AfterChoice
<1>8. PICK valid \in BOOLEAN : valid = CsrfCheck(token, cookie)
  BY DEF CsrfCheck
<1>9. PICK first \in BOOLEAN : first = (calm = t)
  OBVIOUS
<1>10. PICK clear \in BOOLEAN : clear = (cookie # 0)
  OBVIOUS
<1>11. PICK st : st = [Idle EXCEPT !.pc = pc, !.issuer = issuer, !.own = own,
                               !.first = first, !.valid = valid, !.scopes = valid,
                               !.home = home, !.clear = clear]
  OBVIOUS
<1>12. /\ st \in Navs /\ st.pc = pc /\ st.issuer = issuer /\ st.own = own /\ st.first = first
       /\ st.valid = valid /\ st.scopes = valid /\ st.home = home
  <2>1. st = [pc |-> pc, token |-> 0, issuer |-> issuer, own |-> own, first |-> first,
              valid |-> valid, scopes |-> valid, home |-> home, clear |-> clear]
    BY <1>11 DEF Idle
  <2>2. 0 \in PageTokens
    BY DiscoveryAssumption DEF PageTokens
  <2> QED
    BY <2>1, <2>2 DEF Navs
<1>13. nav' = [nav EXCEPT ![t] = IF to.valid /\ st.pc # "over" THEN st ELSE Over(st)]
  BY <1>1, <1>4, <1>6, <1>8, <1>9, <1>10, <1>11, Zenon
<1>14. CASE to.valid /\ st.pc # "over"
  <2>1. NavSound(st)
    BY <1>5, <1>7, <1>8, <1>9, <1>12, <1>14 DEF NavSound
  <2> QED
    BY <1>7, <1>12, <1>13, <1>14, <2>1
<1>15. CASE ~(to.valid /\ st.pc # "over")
  <2>1. Over(st) \in Navs /\ NavSound(Over(st)) /\ Over(st).pc = "over"
    BY <1>8, <1>9, <1>12, OverSound
  <2> QED
    BY <1>13, <1>15, <2>1
<1> QED
  BY <1>14, <1>15

-----------------------------------------------------------------------------
(* The steps.  Each changes the step of one tab.                             *)

LEMMA DiscoveryTypes ==
    DiscoveryTypeOK <=>
        /\ dset \in DiscoverySettings
        /\ xcsrf \in PageTokens /\ shown \in PageTokens
        /\ page \in [Tabs -> PageTokens]
        /\ nav \in [Tabs -> Navs]
        /\ files \subseteq Issuers /\ called \subseteq Issuers
        /\ adopted \subseteq Issuers \X BOOLEAN
        /\ calm \in Tabs \cup {NoTab}
  BY DEF DiscoveryTypeOK, Navs

\* What is said of the tabs carries over when one of them changes.
LEMMA NavsNext ==
    ASSUME DiscoveryInv, dset' = dset, NEW t \in Tabs, NEW n \in Navs,
           nav' = [nav EXCEPT ![t] = n], NavSound(n)
    PROVE  nav' \in [Tabs -> Navs] /\ \A u \in Tabs : NavSound(nav[u])'
<1>1. nav \in [Tabs -> Navs] /\ \A u \in Tabs : NavSound(nav[u])
  BY DiscoveryTypes DEF DiscoveryInv
<1>2. \A u \in Tabs : nav'[u] = IF u = t THEN n ELSE nav[u]
  BY <1>1
<1>3. \A u \in Tabs : NavSound(nav'[u])
  BY <1>1, <1>2
<1> QED
  BY <1>1, <1>3 DEF NavSound, IssuerAllowed

LEMMA DiscoveryInitInv == DiscoveryInit => DiscoveryInv
<1> SUFFICES ASSUME DiscoveryInit PROVE DiscoveryInv
  OBVIOUS
<1>1. nav = [t \in Tabs |-> Idle] /\ page = [t \in Tabs |-> 0] /\ 0 \in PageTokens
  BY DiscoveryAssumption DEF DiscoveryInit, PageTokens
<1>2. DiscoveryTypeOK
  BY <1>1, IdleTyped, DiscoveryTypes DEF DiscoveryInit, Issuers
<1>3. \A t \in Tabs : NavSound(nav[t])
  BY <1>1, IdleTyped
<1> QED
  BY <1>2, <1>3, DiscoveryAssumption DEF DiscoveryInit, DiscoveryInv, CalmSound, ListedHostsOnly

LEMMA DiscoveryRequestInv ==
    ASSUME DiscoveryInv, NEW t \in Tabs, DiscoveryRequest(t)
    PROVE  DiscoveryInv'
<1>1. /\ dset' = dset /\ xcsrf' = xcsrf /\ files' = files /\ called' = called /\ adopted' = adopted
      /\ page' = [page EXCEPT ![t] = 0] /\ calm' = NoTab /\ shown < MaxPage
  BY DEF DiscoveryRequest, Store
<1>2. PICK ok \in BOOLEAN :
         /\ shown' = IF ok THEN shown + 1 ELSE shown
         /\ nav' = [nav EXCEPT ![t] = IF ok THEN [Idle EXCEPT !.pc = "page", !.token = shown + 1]
                                            ELSE [Idle EXCEPT !.pc = "over"]]
  BY DEF DiscoveryRequest
<1>3. shown + 1 \in PageTokens /\ shown + 1 # 0 /\ 0 \in PageTokens
  BY <1>1, DiscoveryAssumption DEF DiscoveryInv, DiscoveryTypeOK, PageTokens
<1>4. PICK n \in Navs : nav' = [nav EXCEPT ![t] = n] /\ NavSound(n)
  <2>1. CASE ok
    <3>1. /\ [Idle EXCEPT !.pc = "page", !.token = shown + 1] \in Navs
          /\ NavSound([Idle EXCEPT !.pc = "page", !.token = shown + 1])
      BY <1>3 DEF Idle, Navs, NavSound, Waiting, Issuers, Chosen
    <3> QED
      BY <1>2, <2>1, <3>1
  <2>2. CASE ~ok
    <3>1. [Idle EXCEPT !.pc = "over"] \in Navs /\ NavSound([Idle EXCEPT !.pc = "over"])
      BY <1>3 DEF Idle, Navs, NavSound, Waiting, Issuers, Chosen
    <3> QED
      BY <1>2, <2>2, <3>1
  <2> QED
    BY <2>1, <2>2
<1>5. nav' \in [Tabs -> Navs] /\ \A u \in Tabs : NavSound(nav[u])'
  BY <1>1, <1>4, NavsNext
<1>6. shown' \in PageTokens /\ page' \in [Tabs -> PageTokens]
  BY <1>1, <1>2, <1>3, DiscoveryTypes DEF DiscoveryInv
<1>7. DiscoveryTypeOK'
  BY <1>1, <1>5, <1>6 DEF DiscoveryInv, DiscoveryTypeOK, Navs
<1> QED
  BY <1>1, <1>5, <1>7, DiscoveryAssumption DEF DiscoveryInv, CalmSound, ListedHostsOnly

LEMMA ShowPageInv ==
    ASSUME DiscoveryInv, NEW t \in Tabs, ShowPage(t)
    PROVE  DiscoveryInv'
<1>1. /\ dset' = dset /\ shown' = shown /\ files' = files /\ called' = called /\ adopted' = adopted
      /\ nav[t].pc = "page" /\ xcsrf' = nav[t].token /\ page' = [page EXCEPT ![t] = nav[t].token]
      /\ nav' = [nav EXCEPT ![t] = Idle]
      /\ calm' = IF \A u \in Tabs \ {t} : nav[u].pc = "idle" THEN t ELSE NoTab
  BY DEF ShowPage, Store
<1>2. nav \in [Tabs -> Navs] /\ page \in [Tabs -> PageTokens] /\ NavSound(nav[t])
  BY DiscoveryTypes DEF DiscoveryInv
<1>3. nav[t].token \in PageTokens /\ nav[t].token # 0
  BY <1>1, <1>2 DEF Navs, NavSound
<1>4. nav' \in [Tabs -> Navs] /\ \A u \in Tabs : NavSound(nav[u])'
  BY <1>1, IdleTyped, NavsNext
<1>5. page' \in [Tabs -> PageTokens] /\ page'[t] = xcsrf' /\ xcsrf' # 0 /\ xcsrf' \in PageTokens
  BY <1>1, <1>2, <1>3
<1>6. CalmSound'
  <2> SUFFICES ASSUME calm' \in Tabs
               PROVE  xcsrf' # 0 /\ page'[calm'] = xcsrf' /\ \A u \in Tabs : nav'[u].pc = "idle"
    BY DEF CalmSound
  <2>1. calm' = t /\ \A u \in Tabs \ {t} : nav[u].pc = "idle"
    BY <1>1, DiscoveryAssumption
  <2>2. \A u \in Tabs : nav'[u].pc = "idle"
    BY <1>1, <1>2, <2>1, IdleTyped
  <2> QED
    BY <1>5, <2>1, <2>2
<1>7. calm' \in Tabs \cup {NoTab}
  BY <1>1
<1>8. DiscoveryTypeOK'
  BY <1>1, <1>4, <1>5, <1>7 DEF DiscoveryInv, DiscoveryTypeOK, Navs
<1> QED
  BY <1>1, <1>4, <1>6, <1>8 DEF DiscoveryInv, ListedHostsOnly

\* A choice changes nothing but the step of its tab; on a link the page is
\* left.
LEMMA ChoiceInv ==
    ASSUME DiscoveryInv, NEW t \in Tabs, NEW n \in Navs, NavSound(n),
           nav' = [nav EXCEPT ![t] = n], calm' = NoTab, page' \in [Tabs -> PageTokens],
           UNCHANGED <<dset, xcsrf, shown, Store>>
    PROVE  DiscoveryInv'
<1>1. nav' \in [Tabs -> Navs] /\ \A u \in Tabs : NavSound(nav[u])'
  BY NavsNext
<1>2. DiscoveryTypeOK'
  BY <1>1 DEF DiscoveryInv, DiscoveryTypeOK, Navs, Store
<1> QED
  BY <1>1, <1>2, DiscoveryAssumption DEF DiscoveryInv, CalmSound, ListedHostsOnly, Store

LEMMA SubmitInv ==
    ASSUME DiscoveryInv, NEW t \in Tabs, Submit(t)
    PROVE  DiscoveryInv'
<1> DEFINE targets == {[host |-> "own", path |-> dset.path, neat |-> TRUE]}
<1>1. /\ Choice(t, TRUE, page[t], xcsrf, targets) /\ calm' = NoTab /\ page' = page
      /\ UNCHANGED <<dset, xcsrf, shown, Store>>
  BY DEF Submit
<1>2. /\ dset \in SettingsType /\ page[t] \in PageTokens /\ xcsrf \in PageTokens
      /\ nav \in [Tabs -> Navs] /\ page \in [Tabs -> PageTokens]
  BY DiscoveryTypes, DiscoveryAssumption DEF DiscoveryInv
<1>3. targets \in SUBSET (Urls \cup {NoUrl})
  <2>1. dset.path \in UrlPaths /\ "own" \in UrlHosts
    BY <1>2 DEF SettingsType, UrlHosts
  <2> QED
    BY <2>1 DEF Urls
<1>4. calm = t => CsrfCheck(page[t], xcsrf)
  BY DEF DiscoveryInv, CalmSound, CsrfCheck
<1> HIDE DEF targets
<1>5. \E n \in Navs : nav' = [nav EXCEPT ![t] = n] /\ NavSound(n) /\ n.pc # "idle"
  BY <1>1, <1>2, <1>3, <1>4, ChoiceSound
<1> QED
  BY <1>1, <1>2, <1>5, ChoiceInv

LEMMA FollowLinkInv ==
    ASSUME DiscoveryInv, NEW t \in Tabs, FollowLink(t)
    PROVE  DiscoveryInv'
<1>1. PICK cookie \in {0, xcsrf} : Choice(t, FALSE, 0, cookie, Urls \cup {NoUrl})
  BY DEF FollowLink
<1>2. calm' = NoTab /\ page' = [page EXCEPT ![t] = 0] /\ UNCHANGED <<dset, xcsrf, shown, Store>>
  BY DEF FollowLink
<1>3. 0 \in PageTokens
  BY DiscoveryAssumption DEF PageTokens
<1>4. /\ dset \in SettingsType /\ cookie \in PageTokens /\ nav \in [Tabs -> Navs]
      /\ page' \in [Tabs -> PageTokens]
  BY <1>1, <1>2, <1>3, DiscoveryTypes, DiscoveryAssumption DEF DiscoveryInv
<1>5. ~CsrfCheck(0, cookie)
  BY DEF CsrfCheck
<1>6. Urls \cup {NoUrl} \in SUBSET (Urls \cup {NoUrl})
  OBVIOUS
<1>7. \E n \in Navs : nav' = [nav EXCEPT ![t] = n] /\ NavSound(n) /\ n.pc # "idle"
  BY <1>1, <1>3, <1>4, <1>5, <1>6, ChoiceSound
<1> QED
  BY <1>2, <1>4, <1>7, ChoiceInv

LEMMA WebfingerInv ==
    ASSUME DiscoveryInv, NEW t \in Tabs, Webfinger(t)
    PROVE  DiscoveryInv'
<1> PICK st : st = nav[t]
  OBVIOUS
<1>1. st \in Navs /\ NavSound(st) /\ nav \in [Tabs -> Navs]
  BY DiscoveryTypes DEF DiscoveryInv
<1>2. /\ st.pc = "resolve" /\ called' = called \cup {st.issuer}
      /\ UNCHANGED <<dset, xcsrf, shown, page, files, adopted, calm>>
      /\ \/ \E issuer \in Issuers : nav' = [nav EXCEPT ![t].pc = "select", ![t].issuer = issuer]
         \/ nav' = [nav EXCEPT ![t] = Over(st)]
  BY DEF Webfinger
<1>3. PICK n \in Navs : nav' = [nav EXCEPT ![t] = n] /\ NavSound(n)
  <2>1. CASE nav' = [nav EXCEPT ![t] = Over(st)]
    BY <1>1, <2>1, OverSound DEF NavSound
  <2>2. CASE \E issuer \in Issuers : nav' = [nav EXCEPT ![t].pc = "select", ![t].issuer = issuer]
    <3>1. PICK issuer \in Issuers : nav' = [nav EXCEPT ![t].pc = "select", ![t].issuer = issuer]
      BY <2>2
    <3>2. PICK n : n = [st EXCEPT !.pc = "select", !.issuer = issuer]
      OBVIOUS
    <3>3. /\ n \in Navs /\ n.pc = "select" /\ n.valid = st.valid /\ n.own = st.own
          /\ n.scopes = st.scopes /\ n.first = st.first /\ n.home = st.home
      BY <1>1, <3>2 DEF Navs, Waiting
    <3>4. nav' = [nav EXCEPT ![t] = n]
      BY <1>1, <3>1, <3>2
    <3>5. NavSound(n)
      BY <1>1, <1>2, <3>3 DEF NavSound, Chosen
    <3> QED
      BY <3>3, <3>4, <3>5
  <2> QED
    BY <1>2, <2>1, <2>2
<1>4. nav' \in [Tabs -> Navs] /\ \A u \in Tabs : NavSound(nav[u])'
  BY <1>2, <1>3, NavsNext
<1>5. called' \subseteq Issuers /\ (dset.listed => called' \subseteq Listed)
  BY <1>1, <1>2, DiscoveryTypes DEF DiscoveryInv, ListedHostsOnly, Navs, NavSound, IssuerAllowed
<1>6. calm \notin Tabs
  BY <1>2 DEF DiscoveryInv, CalmSound
<1>7. DiscoveryTypeOK'
  BY <1>2, <1>4, <1>5 DEF DiscoveryInv, DiscoveryTypeOK, Navs
<1> QED
  BY <1>2, <1>4, <1>5, <1>6, <1>7 DEF DiscoveryInv, CalmSound, ListedHostsOnly

LEMMA DiscoveryAuthenticateInv ==
    ASSUME DiscoveryInv, NEW t \in Tabs, Authenticate(t)
    PROVE  DiscoveryInv'
<1> PICK st : st = nav[t]
  OBVIOUS
<1>1. st \in Navs /\ NavSound(st) /\ nav \in [Tabs -> Navs] /\ st.issuer \in Issuers
  BY DiscoveryTypes DEF DiscoveryInv, Navs
<1>2. st.pc = "select" /\ UNCHANGED <<dset, xcsrf, shown, page, calm>>
  BY DEF Authenticate
<1>3. /\ files' \in {files, files \cup {st.issuer}}
      /\ \/ adopted' = adopted
         \/ MayDownload(st) /\ adopted' = adopted \cup {<<i, st.own>> : i \in {st.issuer} \ files}
      /\ called' = called \/ (IssuerAllowed(st.issuer) /\ called' = called \cup {st.issuer})
      /\ \/ nav' = [nav EXCEPT ![t] = Over(st)]
         \/ nav' = [nav EXCEPT ![t] = [st EXCEPT !.pc = "login"]]
  BY DEF Authenticate, Store
<1>4. PICK n \in Navs : nav' = [nav EXCEPT ![t] = n] /\ NavSound(n)
  <2>1. CASE nav' = [nav EXCEPT ![t] = Over(st)]
    BY <1>1, <2>1, OverSound DEF NavSound
  <2>2. CASE nav' = [nav EXCEPT ![t] = [st EXCEPT !.pc = "login"]]
    <3>1. PICK n : n = [st EXCEPT !.pc = "login"]
      OBVIOUS
    <3>2. /\ n \in Navs /\ n.pc = "login" /\ n.valid = st.valid /\ n.own = st.own
          /\ n.scopes = st.scopes /\ n.first = st.first /\ n.home = st.home
      BY <1>1, <3>1 DEF Navs, Waiting
    <3>3. NavSound(n)
      BY <1>1, <1>2, <3>2 DEF NavSound, Chosen
    <3> QED
      BY <2>2, <3>1, <3>2, <3>3
  <2> QED
    BY <1>3, <2>1, <2>2
<1>5. nav' \in [Tabs -> Navs] /\ \A u \in Tabs : NavSound(nav[u])'
  BY <1>2, <1>4, NavsNext
<1>6. called' \subseteq Issuers /\ (dset.listed => called' \subseteq Listed)
  BY <1>1, <1>3, DiscoveryTypes DEF DiscoveryInv, ListedHostsOnly, IssuerAllowed
<1>7. calm \notin Tabs
  BY <1>2 DEF DiscoveryInv, CalmSound
<1>8. adopted' \subseteq Issuers \X BOOLEAN /\ \A a \in adopted' : a[2]
  <2>1. CASE adopted' = adopted
    BY <2>1, DiscoveryTypes DEF DiscoveryInv
  <2>2. CASE MayDownload(st) /\ adopted' = adopted \cup {<<i, st.own>> : i \in {st.issuer} \ files}
    <3>1. st.issuer \notin files => st.own
      BY <1>1, <2>2 DEF MayDownload, NavSound
    <3>2. \A a \in {<<i, st.own>> : i \in {st.issuer} \ files} : a = <<st.issuer, st.own>> /\ st.own
      BY <3>1
    <3>3. st.own \in BOOLEAN
      BY <1>1 DEF Navs
    <3>4. \A a \in adopted' : a \in adopted \/ (a = <<st.issuer, st.own>> /\ st.own)
      BY <2>2, <3>2
    <3> QED
      BY <1>1, <3>3, <3>4, DiscoveryTypes DEF DiscoveryInv
  <2> QED
    BY <1>3, <2>1, <2>2
<1>9. files' \subseteq Issuers
  BY <1>1, <1>3, DiscoveryTypes DEF DiscoveryInv
<1>10. DiscoveryTypeOK'
  BY <1>2, <1>5, <1>6, <1>8, <1>9 DEF DiscoveryInv, DiscoveryTypeOK, Navs
<1> QED
  BY <1>2, <1>5, <1>6, <1>7, <1>8, <1>10 DEF DiscoveryInv, CalmSound, ListedHostsOnly

LEMMA AnswerInv ==
    ASSUME DiscoveryInv, NEW t \in Tabs, Answer(t)
    PROVE  DiscoveryInv'
<1>1. /\ nav[t].pc \in {"login", "over"} /\ xcsrf' \in {0, xcsrf} /\ nav' = [nav EXCEPT ![t] = Idle]
      /\ UNCHANGED <<dset, shown, page, Store, calm>>
  BY DEF Answer
<1>2. nav' \in [Tabs -> Navs] /\ \A u \in Tabs : NavSound(nav[u])'
  BY <1>1, IdleTyped, NavsNext
<1>3. calm \notin Tabs
  BY <1>1 DEF DiscoveryInv, CalmSound
<1>4. xcsrf' \in PageTokens
  BY <1>1, DiscoveryTypes, DiscoveryAssumption DEF DiscoveryInv, PageTokens
<1>5. DiscoveryTypeOK'
  BY <1>1, <1>2, <1>4 DEF DiscoveryInv, DiscoveryTypeOK, Navs, Store
<1> QED
  BY <1>1, <1>2, <1>3, <1>5 DEF DiscoveryInv, CalmSound, ListedHostsOnly, Store

-----------------------------------------------------------------------------
\* The inductive invariant of the choice of a provider
\* (oidc_discovery_request, oidc_discovery_response): what the step of each
\* tab is known to be, and the token that the last page shares with the cookie.
THEOREM DiscoveryInvariance == DiscoverySpec => []DiscoveryInv
<1>1. DiscoveryInv /\ [DiscoveryNext]_discoveryVars => DiscoveryInv'
  <2> SUFFICES ASSUME DiscoveryInv, [DiscoveryNext]_discoveryVars PROVE DiscoveryInv'
    OBVIOUS
  <2>1. CASE DiscoveryNext
    BY <2>1, DiscoveryRequestInv, ShowPageInv, SubmitInv, FollowLinkInv, WebfingerInv,
       DiscoveryAuthenticateInv, AnswerInv DEF DiscoveryNext
  <2>2. CASE UNCHANGED discoveryVars
    BY <2>2 DEF discoveryVars, DiscoveryInv, DiscoveryTypeOK, NavSound, IssuerAllowed, CalmSound,
                ListedHostsOnly
  <2> QED
    BY <2>1, <2>2
<1> QED
  BY <1>1, DiscoveryInitInv, PTL DEF DiscoverySpec

\* For any number of tabs, pages and settings, and with answers in any order:
\* another site never adds a provider or sets scopes, no host outside the
\* list is called, the first choice on the last page passes the CSRF check,
\* and a login returns to a URL that the session cookie reaches.
THEOREM DiscoveryAlwaysSound == DiscoverySpec => []DiscoverySound
<1>1. DiscoveryInv => DiscoverySound
  <2> SUFFICES ASSUME DiscoveryInv PROVE DiscoverySound
    OBVIOUS
  <2>1. OnlyByChoice /\ LastPageWorks
    BY DEF DiscoveryInv, OnlyByChoice, LastPageWorks, NavSound
  <2>2. ReturnsWithCookie
    BY DEF DiscoveryInv, ReturnsWithCookie, NavSound, Chosen
  <2> QED
    BY <2>1, <2>2 DEF DiscoverySound, DiscoveryInv
<1> QED
  BY <1>1, DiscoveryInvariance, PTL

-----------------------------------------------------------------------------
(* The files of a provider                                                   *)

MetaRequests == [pc : MetaSteps, discover : BOOLEAN, known : BOOLEAN, have : BOOLEAN,
                 fresh : BOOLEAN, cache : Docs, doc : Docs, client : MetaClients,
                 spent : 0 .. CallBound]

\* A document is superseded from the next one on, and not before; a file
\* that is there has one.
DocsOrdered ==
    /\ \A d \in Docs : d = 0 \/ d >= opDoc => outdated[d] = 0
    /\ \A m \in MetaWorkers :
         /\ mstate[m].pc = "write" => mstate[m].doc # 0
         /\ mstate[m].pc \in {"stat", "read", "retrieve"} /\ mstate[m].known => pfile.doc # 0

\* A request that started with the file there has read it, unless the file
\* could not be read; only a file with an age can be too old.
KnownRead ==
    \A m \in MetaWorkers :
        /\ mstate[m].pc = "read" /\ ~mstate[m].fresh => mstate[m].have
        /\ mstate[m].pc = "retrieve" /\ mstate[m].known /\ "file" \notin disturbed
             => mstate[m].have /\ mstate[m].cache # 0

\* As long as nothing has failed: the document of the file is superseded for
\* no longer than the file is old and its download took, one that was just
\* downloaded for no longer than the call took, and no time passes between
\* the look at the age and the use of the file.
DocsFresh ==
    (DocInterval > 0 /\ disturbed = {}) =>
        /\ pfile.age < DocInterval => outdated[pfile.doc] <= pfile.age + CallBound
        /\ \A m \in MetaWorkers :
             /\ mstate[m].pc # "touch"
             /\ mstate[m].pc = "read" /\ mstate[m].fresh => pfile.doc = 0 \/ pfile.age < DocInterval
             /\ mstate[m].pc = "write" => outdated[mstate[m].doc] <= mstate[m].spent

\* As long as nothing has failed and no registrations have crossed: a request
\* registers only when there is no client, and alone, and what is used is
\* the client of the file.
ClientsOne ==
    (~crossed /\ disturbed = {}) =>
        \A m \in MetaWorkers :
            /\ mstate[m].pc = "ready" => mstate[m].client = cfile.client /\ cfile.client # 0
            /\ m \in Registering =>
                 /\ cfile.client = 0
                 /\ \A n \in Registering : n = m
            /\ mstate[m].pc = "save" => mstate[m].client # 0

\* A request that looks for a client has a document.
ClientsKnow ==
    \A m \in MetaWorkers :
        /\ mstate[m].pc = "touch" => mstate[m].cache # 0
        /\ mstate[m].pc \in {"client", "register", "save"} => mstate[m].doc # 0

MetaInv ==
    /\ MetaTypeOK /\ DocsOrdered /\ KnownRead /\ ClientsKnow /\ DocsFresh /\ ClientsOne
    /\ DocumentFresh /\ KnownProviderUsable

LEMMA MinTwoValues ==
    ASSUME NEW a \in Int, NEW b \in Int
    PROVE  Min({a, b}) = IF a <= b THEN a ELSE b
<1> DEFINE P(x) == x \in {a, b} /\ \A y \in {a, b} : x <= y
           m == IF a <= b THEN a ELSE b
<1>1. P(m) /\ \A x : P(x) => x = m
  OBVIOUS
<1>2. Min({a, b}) = CHOOSE x : P(x)
  BY DEF Min
<1> HIDE DEF P, m
<1>3. P(CHOOSE x : P(x))
  BY <1>1, Zenon
<1> QED
  BY <1>1, <1>2, <1>3 DEF m

LEMMA NoMetadataTyped == NoMetadata \in MetaRequests /\ NoMetadata.pc = "idle"
  BY MetaAssumption DEF NoMetadata, MetaRequests, MetaSteps, Docs, MetaClients

LEMMA GotTyped ==
    ASSUME NEW d \in Docs
    PROVE  Got(d) \in MetaRequests /\ Got(d).pc = "client" /\ Got(d).doc = d
<1>1. PICK g \in MetaRequests : g = NoMetadata
  BY NoMetadataTyped
<1> QED
  BY <1>1 DEF Got, MetaRequests, MetaSteps

LEMMA ReadyTyped ==
    ASSUME NEW c \in MetaClients
    PROVE  Ready(c) \in MetaRequests /\ Ready(c).pc = "ready" /\ Ready(c).client = c
<1>1. PICK g \in MetaRequests : g = NoMetadata
  BY NoMetadataTyped
<1> QED
  BY <1>1 DEF Ready, MetaRequests, MetaSteps

LEMMA MetaInitInv == MetaInit => MetaInv
<1> SUFFICES ASSUME MetaInit PROVE MetaInv
  OBVIOUS
<1>1. NoMetadata \in MetaRequests
  BY NoMetadataTyped
<1>2. \A m \in MetaWorkers : mstate[m] = NoMetadata /\ mstate[m].pc = "idle"
  BY DEF MetaInit, NoMetadata
<1>3. MetaTypeOK
  <2>1. 0 \in 0 .. OutdatedCap /\ 0 \in 0 .. DocInterval /\ 0 \in 0 .. SecretLife
    BY MetaAssumption DEF OutdatedCap
  <2>2. 0 \in Docs /\ 0 \in MetaClients /\ 1 \in 1 .. MaxDoc
    BY MetaAssumption DEF Docs, MetaClients
  <2>3. mstate \in [MetaWorkers -> MetaRequests]
    BY <1>1 DEF MetaInit
  <2> QED
    BY <2>1, <2>2, <2>3 DEF MetaInit, MetaTypeOK, MetaRequests
<1>4. DocsOrdered /\ DocsFresh
  BY <1>2, MetaAssumption DEF MetaInit, DocsOrdered, DocsFresh, Docs
<1>5. KnownRead /\ ClientsKnow /\ ClientsOne /\ DocumentFresh /\ KnownProviderUsable
  BY <1>2 DEF KnownRead, ClientsKnow, ClientsOne, Registering, DocumentFresh, KnownProviderUsable
<1> QED
  BY <1>3, <1>4, <1>5 DEF MetaInv

\* The state of a request after a step of its own.
LEMMA ThenTo ==
    ASSUME MetaInv, NEW m \in MetaWorkers, NEW st \in MetaRequests, Then(m, st)
    PROVE  /\ mstate' \in [MetaWorkers -> MetaRequests]
           /\ mstate'[m] = st
           /\ \A n \in MetaWorkers : n # m => mstate'[n] = mstate[n]
  BY DEF MetaInv, MetaTypeOK, MetaRequests, Then

\* A step before the client is looked for: what has to be known of the new
\* state and of the file, of which the provider's part may change.
LEMMA DocStep ==
    ASSUME MetaInv, NEW m \in MetaWorkers, NEW st \in MetaRequests, Then(m, st),
           pfile' \in [doc : Docs, age : 0 .. DocInterval], disturbed' \subseteq MetaFaults,
           disturbed \subseteq disturbed', UNCHANGED <<TheOp, cfile, crossed>>,
           mstate[m].pc \in {"idle", "stat", "read", "retrieve", "touch", "write"},
           pfile.doc # 0 => pfile'.doc # 0,
           st.pc \in {"stat", "read", "retrieve", "touch", "write", "client", "failed"},
           st.pc \in {"write", "client"} => st.doc # 0, st.pc = "touch" => st.cache # 0,
           st.pc \in {"stat", "read", "retrieve"} /\ st.known => pfile'.doc # 0,
           st.pc = "read" /\ ~st.fresh => st.have,
           st.pc = "retrieve" /\ st.known /\ "file" \notin disturbed' => st.have /\ st.cache # 0,
           st.pc = "failed" /\ st.known /\ "file" \notin disturbed' => st.doc # 0,
           (DocInterval > 0 /\ disturbed' = {}) =>
             /\ pfile'.age < DocInterval => outdated[pfile'.doc] <= pfile'.age + CallBound
             /\ pfile' = pfile \/ pfile'.age = 0
             /\ st.pc # "touch"
             /\ st.pc = "read" /\ st.fresh => pfile'.doc = 0 \/ pfile'.age < DocInterval
             /\ st.pc = "write" => outdated[st.doc] <= st.spent
             /\ st.pc = "client" => outdated[st.doc] <= DocInterval + CallBound
    PROVE  MetaInv'
<1>1. /\ mstate' \in [MetaWorkers -> MetaRequests] /\ mstate'[m] = st
      /\ \A n \in MetaWorkers : n # m => mstate'[n] = mstate[n]
  BY ThenTo
<1>2. opDoc' = opDoc /\ outdated' = outdated /\ clients' = clients /\ cfile' = cfile /\ crossed' = crossed
  BY DEF TheOp
<1>3. MetaTypeOK'
  BY <1>1, <1>2 DEF MetaInv, MetaTypeOK, MetaRequests
<1>4. DocsOrdered'
  BY <1>1, <1>2 DEF MetaInv, DocsOrdered
<1>5. KnownRead' /\ ClientsKnow'
  BY <1>1, <1>2 DEF MetaInv, KnownRead, ClientsKnow
<1>6. KnownProviderUsable'
  BY <1>1, <1>2 DEF MetaInv, KnownProviderUsable
<1>7. disturbed' = {} => disturbed = {}
  OBVIOUS
<1>8. DocsFresh'
  BY <1>1, <1>2, <1>7 DEF MetaInv, DocsFresh
<1>9. DocumentFresh'
  BY <1>1, <1>2, <1>7 DEF MetaInv, DocumentFresh
<1>10. Registering' = Registering
  BY <1>1 DEF Registering
<1>11. ClientsOne'
  BY <1>1, <1>2, <1>7, <1>10 DEF MetaInv, ClientsOne
<1> QED
  BY <1>3, <1>4, <1>5, <1>6, <1>8, <1>9, <1>11 DEF MetaInv

LEMMA MetadataGetStep ==
    ASSUME MetaInv, NEW m \in MetaWorkers, MetadataGet(m) PROVE MetaInv'
<1>1. PICK discover \in BOOLEAN :
        Then(m, [NoMetadata EXCEPT !.pc = "stat", !.discover = discover, !.known = pfile.doc # 0])
  BY DEF MetadataGet
<1>2. PICK st : st = [NoMetadata EXCEPT !.pc = "stat", !.discover = discover, !.known = pfile.doc # 0]
  OBVIOUS
<1>3. st \in MetaRequests /\ st.pc = "stat" /\ (st.known => pfile.doc # 0)
  <2>1. PICK k \in BOOLEAN : k = (pfile.doc # 0)
    OBVIOUS
  <2>2. st = [NoMetadata EXCEPT !.pc = "stat", !.discover = discover, !.known = k]
    BY <1>2, <2>1
  <2>3. st \in MetaRequests /\ st.pc = "stat" /\ st.known = k
    BY <2>2, NoMetadataTyped DEF MetaRequests, MetaSteps
  <2> QED
    BY <2>1, <2>3
<1>4. mstate[m].pc = "idle" /\ UNCHANGED <<TheOp, pfile, cfile, crossed, disturbed>>
  BY DEF MetadataGet, Files
<1>5. Then(m, st)
  BY <1>1, <1>2
<1>6. pfile \in [doc : Docs, age : 0 .. DocInterval] /\ disturbed \subseteq MetaFaults
  BY DEF MetaInv, MetaTypeOK
<1>7. (DocInterval > 0 /\ disturbed = {}) =>
        (pfile.age < DocInterval => outdated[pfile.doc] <= pfile.age + CallBound)
  BY DEF MetaInv, DocsFresh
<1> QED
  BY <1>3, <1>4, <1>5, <1>6, <1>7, DocStep

LEMMA StatStep ==
    ASSUME MetaInv, NEW m \in MetaWorkers, StatProvider(m) PROVE MetaInv'
<1>1. PICK have : have = (DocInterval > 0 /\ pfile.doc # 0)
  OBVIOUS
<1>2. PICK st : st = [mstate[m] EXCEPT !.pc = "read", !.have = have,
                                       !.fresh = have => pfile.age < DocInterval]
  OBVIOUS
<1>3. mstate[m] \in MetaRequests
  BY DEF MetaInv, MetaTypeOK, MetaRequests
<1>4. /\ st \in MetaRequests /\ st.pc = "read" /\ st.known = mstate[m].known /\ st.have = have
      /\ st.fresh = (have => pfile.age < DocInterval)
  BY <1>1, <1>2, <1>3 DEF MetaRequests, MetaSteps
<1>5. mstate[m].pc = "stat" /\ UNCHANGED <<TheOp, pfile, cfile, crossed, disturbed>>
  BY DEF StatProvider, Files
<1>6. Then(m, st)
  BY <1>1, <1>2 DEF StatProvider
<1>7. /\ pfile \in [doc : Docs, age : 0 .. DocInterval] /\ disturbed \subseteq MetaFaults
      /\ mstate[m].known => pfile.doc # 0
  BY <1>5 DEF MetaInv, MetaTypeOK, DocsOrdered
<1>8. (DocInterval > 0 /\ disturbed = {}) =>
        /\ pfile.age < DocInterval => outdated[pfile.doc] <= pfile.age + CallBound
        /\ st.fresh => pfile.doc = 0 \/ pfile.age < DocInterval
  BY <1>1, <1>4 DEF MetaInv, DocsFresh
<1>9. ~st.fresh => st.have
  BY <1>4
<1> QED
  BY <1>4, <1>5, <1>6, <1>7, <1>8, <1>9, DocStep

LEMMA ReadStep ==
    ASSUME MetaInv, NEW m \in MetaWorkers, ReadProvider(m) PROVE MetaInv'
<1>1. PICK cache \in {0, pfile.doc} :
        /\ FileRead(cache, pfile.doc)
        /\ Then(m, IF cache # 0 /\ mstate[m].fresh
                     THEN Got(cache)
                   ELSE IF ~mstate[m].have /\ ~mstate[m].discover THEN [mstate[m] EXCEPT !.pc = "failed"]
                   ELSE [mstate[m] EXCEPT !.pc = "retrieve", !.discover = FALSE, !.cache = cache])
  BY DEF ReadProvider
<1>2. mstate[m].pc = "read" /\ UNCHANGED <<TheOp, pfile, cfile, crossed>>
  BY DEF ReadProvider, Files
<1>3. /\ mstate[m] \in MetaRequests /\ disturbed \subseteq MetaFaults
      /\ pfile \in [doc : Docs, age : 0 .. DocInterval]
      /\ 0 \in Docs /\ cache \in Docs
  BY <1>1, MetaAssumption DEF MetaInv, MetaTypeOK, MetaRequests, Docs
<1>4. /\ disturbed' \subseteq MetaFaults /\ disturbed \subseteq disturbed'
      /\ cache # pfile.doc => "file" \in disturbed'
  BY <1>1, <1>3 DEF FileRead, MetaFault, Smoothly
<1>5. /\ mstate[m].known => pfile.doc # 0
      /\ ~mstate[m].fresh => mstate[m].have
  BY <1>2 DEF MetaInv, DocsOrdered, KnownRead
<1>6. (DocInterval > 0 /\ disturbed' = {}) =>
        /\ cache = pfile.doc
        /\ pfile.age < DocInterval => outdated[pfile.doc] <= pfile.age + CallBound
        /\ mstate[m].fresh => pfile.doc = 0 \/ pfile.age < DocInterval
  BY <1>2, <1>4 DEF MetaInv, DocsFresh
<1>7. CASE cache # 0 /\ mstate[m].fresh
  <2>1. PICK st : st = Got(cache)
    OBVIOUS
  <2>2. st \in MetaRequests /\ st.pc = "client" /\ st.doc = cache
    BY <2>1, <1>3, GotTyped
  <2>3. (DocInterval > 0 /\ disturbed' = {}) => outdated[cache] <= DocInterval + CallBound
    <3> SUFFICES ASSUME DocInterval > 0, disturbed' = {}
                 PROVE  outdated[cache] <= DocInterval + CallBound
      OBVIOUS
    <3>1. outdated[cache] <= pfile.age + CallBound /\ pfile.age < DocInterval
      BY <1>6, <1>7
    <3>2. outdated[cache] \in Nat
      BY <1>3, MetaAssumption DEF MetaInv, MetaTypeOK, OutdatedCap
    <3> QED
      BY <3>1, <3>2, <1>3, MetaAssumption
  <2>4. Then(m, st)
    BY <1>1, <1>7, <2>1
  <2> QED
    BY <2>2, <2>3, <2>4, <1>2, <1>3, <1>4, <1>6, <1>7, DocStep
<1>8. CASE ~(cache # 0 /\ mstate[m].fresh) /\ ~mstate[m].have /\ ~mstate[m].discover
  <2>1. PICK st : st = [mstate[m] EXCEPT !.pc = "failed"]
    OBVIOUS
  <2>2. st \in MetaRequests /\ st.pc = "failed" /\ st.known = mstate[m].known
    BY <2>1, <1>3 DEF MetaRequests, MetaSteps
  <2>3. Then(m, st)
    BY <1>1, <1>8, <2>1
  <2>4. st.known => "file" \in disturbed'
    BY <2>2, <1>4, <1>5, <1>8
  <2> QED
    BY <2>2, <2>3, <2>4, <1>2, <1>3, <1>4, <1>6, DocStep
<1>9. CASE ~(cache # 0 /\ mstate[m].fresh) /\ ~(~mstate[m].have /\ ~mstate[m].discover)
  <2>1. PICK st : st = [mstate[m] EXCEPT !.pc = "retrieve", !.discover = FALSE, !.cache = cache]
    OBVIOUS
  <2>2. /\ st \in MetaRequests /\ st.pc = "retrieve" /\ st.known = mstate[m].known
        /\ st.have = mstate[m].have /\ st.cache = cache
    BY <2>1, <1>3 DEF MetaRequests, MetaSteps
  <2>3. Then(m, st)
    BY <1>1, <1>9, <2>1
  <2>4. st.known /\ "file" \notin disturbed' => st.have /\ st.cache # 0
    BY <2>2, <1>4, <1>5, <1>9
  <2>5. st.known => pfile.doc # 0
    BY <2>2, <1>5
  <2> QED
    BY <2>2, <2>3, <2>4, <2>5, <1>2, <1>3, <1>4, <1>6, DocStep
<1> QED
  BY <1>7, <1>8, <1>9

LEMMA RetrieveStep ==
    ASSUME MetaInv, NEW m \in MetaWorkers, RetrieveProvider(m) PROVE MetaInv'
<1>1. mstate[m].pc = "retrieve" /\ UNCHANGED <<TheOp, pfile, cfile, crossed>>
  BY DEF RetrieveProvider, Files
<1>2. /\ mstate[m] \in MetaRequests /\ disturbed \subseteq MetaFaults
      /\ pfile \in [doc : Docs, age : 0 .. DocInterval]
      /\ 0 \in Docs /\ opDoc \in Docs /\ opDoc # 0 /\ outdated[opDoc] = 0
  BY MetaAssumption DEF MetaInv, MetaTypeOK, MetaRequests, DocsOrdered, Docs
<1>3. (DocInterval > 0 /\ disturbed = {}) =>
        (pfile.age < DocInterval => outdated[pfile.doc] <= pfile.age + CallBound)
  BY DEF MetaInv, DocsFresh
<1>4. /\ mstate[m].known /\ "file" \notin disturbed => mstate[m].have /\ mstate[m].cache # 0
  BY <1>1 DEF MetaInv, KnownRead
<1>5. CASE /\ Smoothly
           /\ Then(m, [mstate[m] EXCEPT !.pc = "write", !.doc = opDoc, !.cache = 0])
  <2>1. PICK st : st = [mstate[m] EXCEPT !.pc = "write", !.doc = opDoc, !.cache = 0]
    OBVIOUS
  <2>2. st \in MetaRequests /\ st.pc = "write" /\ st.doc = opDoc /\ st.spent >= 0
    <3>1. st \in MetaRequests /\ st.pc = "write" /\ st.doc = opDoc
      BY <2>1, <1>2 DEF MetaRequests, MetaSteps
    <3> QED
      BY <3>1, MetaAssumption DEF MetaRequests
  <2>3. Then(m, st) /\ disturbed' = disturbed
    BY <1>5, <2>1 DEF Smoothly
  <2> QED
    BY <2>2, <2>3, <1>1, <1>2, <1>3, DocStep
<1>6. ASSUME MetaFault("op"), Then(m, IF mstate[m].have /\ mstate[m].cache # 0
                                    THEN [mstate[m] EXCEPT !.pc = "touch"]
                                    ELSE [mstate[m] EXCEPT !.pc = "failed"])
      PROVE MetaInv'
  <2>1. disturbed' # {} /\ disturbed \subseteq disturbed' /\ disturbed' \subseteq MetaFaults
    BY <1>2, <1>6 DEF MetaFault
  <2>2. "file" \notin disturbed' => "file" \notin disturbed
    BY <2>1
  <2>3. CASE mstate[m].have /\ mstate[m].cache # 0
    <3>1. PICK st : st = [mstate[m] EXCEPT !.pc = "touch"]
      OBVIOUS
    <3>2. st \in MetaRequests /\ st.pc = "touch" /\ st.cache = mstate[m].cache
      BY <3>1, <1>2 DEF MetaRequests, MetaSteps
    <3> QED
      BY <1>6, <3>1, <3>2, <2>1, <2>3, <1>1, <1>2, DocStep
  <2>4. CASE ~(mstate[m].have /\ mstate[m].cache # 0)
    <3>1. PICK st : st = [mstate[m] EXCEPT !.pc = "failed"]
      OBVIOUS
    <3>2. st \in MetaRequests /\ st.pc = "failed" /\ st.known = mstate[m].known
      BY <3>1, <1>2 DEF MetaRequests, MetaSteps
    <3>3. st.known => "file" \in disturbed'
      BY <3>2, <2>2, <2>4, <1>4
    <3> QED
      BY <1>6, <3>1, <3>2, <3>3, <2>1, <2>4, <1>1, <1>2, DocStep
  <2> QED
    BY <2>3, <2>4
<1> QED
  BY <1>5, <1>6 DEF RetrieveProvider

LEMMA TouchStep ==
    ASSUME MetaInv, NEW m \in MetaWorkers, TouchProvider(m) PROVE MetaInv'
<1>1. PICK st : st = Got(mstate[m].cache)
  OBVIOUS
<1>2. mstate[m].pc = "touch" /\ UNCHANGED <<TheOp, cfile, disturbed, crossed>> /\ Then(m, st)
  BY <1>1 DEF TouchProvider
<1>3. mstate[m].cache \in Docs /\ mstate[m].cache # 0 /\ disturbed \subseteq MetaFaults
  BY <1>2 DEF MetaInv, MetaTypeOK, ClientsKnow
<1>4. st \in MetaRequests /\ st.pc = "client" /\ st.doc # 0
  BY <1>1, <1>3, GotTyped
<1>5. pfile' \in [doc : Docs, age : 0 .. DocInterval] /\ pfile'.doc = pfile.doc
  BY MetaAssumption DEF MetaInv, MetaTypeOK, TouchProvider
<1>6. ~(DocInterval > 0 /\ disturbed' = {})
  BY <1>2 DEF MetaInv, DocsFresh
<1> QED
  BY <1>2, <1>3, <1>4, <1>5, <1>6, DocStep

LEMMA WriteStep ==
    ASSUME MetaInv, NEW m \in MetaWorkers, WriteProvider(m) PROVE MetaInv'
<1>1. PICK st : st = Got(mstate[m].doc)
  OBVIOUS
<1>2. mstate[m].pc = "write" /\ UNCHANGED <<TheOp, cfile, crossed>> /\ Then(m, st)
  BY <1>1 DEF WriteProvider
<1>3. PICK ok \in BOOLEAN :
        /\ FileWritten(ok)
        /\ pfile' = IF ok THEN [doc |-> mstate[m].doc, age |-> 0] ELSE pfile
  BY DEF WriteProvider
<1>4. /\ mstate[m].doc \in Docs /\ mstate[m].spent \in 0 .. CallBound /\ disturbed \subseteq MetaFaults
      /\ pfile \in [doc : Docs, age : 0 .. DocInterval] /\ 0 \in 0 .. DocInterval
      /\ mstate[m].doc # 0 /\ outdated[mstate[m].doc] \in Nat
  BY <1>2, MetaAssumption DEF MetaInv, MetaTypeOK, DocsOrdered, OutdatedCap
<1>5. st \in MetaRequests /\ st.pc = "client" /\ st.doc = mstate[m].doc
  BY <1>1, <1>4, GotTyped
<1>6. /\ pfile' \in [doc : Docs, age : 0 .. DocInterval]
      /\ pfile.doc # 0 => pfile'.doc # 0
      /\ pfile' = pfile \/ pfile' = [doc |-> mstate[m].doc, age |-> 0]
  BY <1>3, <1>4
<1>7. disturbed \subseteq disturbed' /\ disturbed' \subseteq MetaFaults
  BY <1>3, <1>4 DEF FileWritten, MetaFault, Smoothly
<1>8. (DocInterval > 0 /\ disturbed' = {}) =>
        /\ pfile.age < DocInterval => outdated[pfile.doc] <= pfile.age + CallBound
        /\ outdated[st.doc] <= CallBound
  BY <1>2, <1>4, <1>5, <1>7, MetaAssumption DEF MetaInv, DocsFresh
<1>9. (DocInterval > 0 /\ disturbed' = {}) =>
        /\ pfile'.age < DocInterval => outdated[pfile'.doc] <= pfile'.age + CallBound
        /\ pfile' = pfile \/ pfile'.age = 0
        /\ outdated[st.doc] <= DocInterval + CallBound
  BY <1>4, <1>5, <1>6, <1>8, MetaAssumption
<1> QED
  BY <1>2, <1>4, <1>5, <1>6, <1>7, <1>9, DocStep

\* A step from the look for a client on: the provider's file stays.
LEMMA ClientStep ==
    ASSUME MetaInv, NEW m \in MetaWorkers, NEW st \in MetaRequests, Then(m, st),
           cfile' \in [client : MetaClients, left : 0 .. SecretLife], disturbed' \subseteq MetaFaults,
           disturbed \subseteq disturbed', UNCHANGED <<opDoc, outdated, pfile>>,
           clients' \in MetaClients, crossed' \in BOOLEAN,
           st.pc \in {"idle", "register", "save", "ready", "failed"},
           st.pc \in {"register", "save"} => st.doc # 0,
           st.pc = "failed" /\ st.known /\ "file" \notin disturbed' => st.doc # 0,
           ClientsOne'
    PROVE  MetaInv'
<1>1. /\ mstate' \in [MetaWorkers -> MetaRequests] /\ mstate'[m] = st
      /\ \A n \in MetaWorkers : n # m => mstate'[n] = mstate[n]
  BY ThenTo
<1>2. opDoc' = opDoc /\ outdated' = outdated /\ pfile' = pfile
  OBVIOUS
<1>3. MetaTypeOK'
  BY <1>1, <1>2 DEF MetaInv, MetaTypeOK, MetaRequests
<1>4. DocsOrdered'
  BY <1>1, <1>2 DEF MetaInv, DocsOrdered
<1>5. KnownRead' /\ ClientsKnow'
  BY <1>1, <1>2 DEF MetaInv, KnownRead, ClientsKnow
<1>6. KnownProviderUsable'
  BY <1>1, <1>2 DEF MetaInv, KnownProviderUsable
<1>7. disturbed' = {} => disturbed = {}
  OBVIOUS
<1>8. DocsFresh'
  BY <1>1, <1>2, <1>7 DEF MetaInv, DocsFresh
<1>9. DocumentFresh'
  BY <1>1, <1>2, <1>7 DEF MetaInv, DocumentFresh
<1> QED
  BY <1>3, <1>4, <1>5, <1>6, <1>8, <1>9 DEF MetaInv

LEMMA ReadClientStep ==
    ASSUME MetaInv, NEW m \in MetaWorkers, ReadClient(m) PROVE MetaInv'
<1>1. PICK client \in {0, cfile.client} :
        /\ FileRead(client, cfile.client)
        /\ IF ClientIsValid(client)
             THEN /\ Then(m, Ready(client))
                  /\ UNCHANGED crossed
             ELSE /\ Then(m, [mstate[m] EXCEPT !.pc = "register"])
                  /\ crossed' = (crossed \/ client # 0 \/ Registering # {})
  BY DEF ReadClient
<1>2. mstate[m].pc = "client" /\ UNCHANGED <<TheOp, opDoc, outdated, clients, pfile, cfile>>
  BY DEF ReadClient, Files, TheOp
<1>3. /\ mstate[m] \in MetaRequests /\ disturbed \subseteq MetaFaults /\ crossed \in BOOLEAN
      /\ clients \in MetaClients /\ cfile \in [client : MetaClients, left : 0 .. SecretLife]
      /\ client \in MetaClients
  BY <1>1, MetaAssumption DEF MetaInv, MetaTypeOK, MetaRequests, MetaClients
<1>4. /\ disturbed' \subseteq MetaFaults /\ disturbed \subseteq disturbed'
      /\ disturbed' = {} => client = cfile.client /\ disturbed = {}
  BY <1>1, <1>3 DEF FileRead, MetaFault, Smoothly
<1>5. CASE ClientIsValid(client)
  <2>1. PICK st : st = Ready(client)
    OBVIOUS
  <2>2. st \in MetaRequests /\ st.pc = "ready" /\ st.client = client
    BY <2>1, <1>3, ReadyTyped
  <2>3. Then(m, st) /\ crossed' = crossed
    BY <2>1, <1>1, <1>5
  <2>4. /\ mstate'[m] = st /\ \A n \in MetaWorkers : n # m => mstate'[n] = mstate[n]
    BY <2>2, <2>3, ThenTo
  <2>5. Registering' = Registering
    BY <2>2, <2>4, <1>2 DEF Registering
  <2>6. ClientsOne'
    BY <2>2, <2>3, <2>4, <2>5, <1>2, <1>4, <1>5 DEF MetaInv, ClientsOne, ClientIsValid
  <2> QED
    BY <2>2, <2>3, <2>6, <1>2, <1>3, <1>4, ClientStep
<1>6. CASE ~ClientIsValid(client)
  <2>1. PICK st : st = [mstate[m] EXCEPT !.pc = "register"]
    OBVIOUS
  <2>2. st \in MetaRequests /\ st.pc = "register" /\ st.doc # 0
    <3>1. st \in MetaRequests /\ st.pc = "register" /\ st.doc = mstate[m].doc
      BY <2>1, <1>3 DEF MetaRequests, MetaSteps
    <3> QED
      BY <3>1, <1>2 DEF MetaInv, ClientsKnow
  <2>3. Then(m, st) /\ crossed' \in BOOLEAN /\ (~crossed' => ~crossed /\ client = 0 /\ Registering = {})
    BY <2>1, <1>1, <1>6
  <2>4. /\ mstate'[m] = st /\ \A n \in MetaWorkers : n # m => mstate'[n] = mstate[n]
    BY <2>2, <2>3, ThenTo
  <2>5. Registering' = Registering \cup {m}
    BY <2>2, <2>4 DEF Registering
  <2>6. ClientsOne'
    BY <2>2, <2>3, <2>4, <2>5, <1>2, <1>4 DEF MetaInv, ClientsOne
  <2> QED
    BY <2>2, <2>3, <2>6, <1>2, <1>3, <1>4, ClientStep
<1> QED
  BY <1>5, <1>6

LEMMA RegisterStep ==
    ASSUME MetaInv, NEW m \in MetaWorkers, RegisterClient(m) PROVE MetaInv'
<1>1. mstate[m].pc = "register" /\ UNCHANGED <<opDoc, outdated, pfile, cfile, crossed>>
  BY DEF RegisterClient, Files
<1>2. /\ mstate[m] \in MetaRequests /\ disturbed \subseteq MetaFaults /\ crossed \in BOOLEAN
      /\ clients \in MetaClients /\ cfile \in [client : MetaClients, left : 0 .. SecretLife]
  BY DEF MetaInv, MetaTypeOK, MetaRequests
<1>3. CASE /\ Smoothly /\ clients < MaxClient /\ clients' = clients + 1
           /\ Then(m, [mstate[m] EXCEPT !.pc = "save", !.client = clients + 1])
  <2>1. PICK st : st = [mstate[m] EXCEPT !.pc = "save", !.client = clients + 1]
    OBVIOUS
  <2>2. clients + 1 \in MetaClients /\ clients + 1 # 0
    BY <1>2, <1>3, MetaAssumption DEF MetaClients
  <2>3. st \in MetaRequests /\ st.pc = "save" /\ st.client = clients + 1 /\ st.doc # 0
    <3>1. st \in MetaRequests /\ st.pc = "save" /\ st.client = clients + 1 /\ st.doc = mstate[m].doc
      BY <2>1, <2>2, <1>2 DEF MetaRequests, MetaSteps
    <3> QED
      BY <3>1, <1>1 DEF MetaInv, ClientsKnow
  <2>4. Then(m, st) /\ disturbed' = disturbed
    BY <2>1, <1>3 DEF Smoothly
  <2>5. /\ mstate'[m] = st /\ \A n \in MetaWorkers : n # m => mstate'[n] = mstate[n]
    BY <2>3, <2>4, ThenTo
  <2>6. Registering' = Registering
    BY <2>3, <2>5, <1>1 DEF Registering
  <2>7. ClientsOne'
    BY <2>2, <2>3, <2>4, <2>5, <2>6, <1>1 DEF MetaInv, ClientsOne
  <2> QED
    BY <2>2, <2>3, <2>4, <2>7, <1>1, <1>2, <1>3, ClientStep
<1>4. CASE MetaFault("op") /\ Then(m, [mstate[m] EXCEPT !.pc = "failed"]) /\ UNCHANGED clients
  <2>1. PICK st : st = [mstate[m] EXCEPT !.pc = "failed"]
    OBVIOUS
  <2>2. st \in MetaRequests /\ st.pc = "failed" /\ st.known = mstate[m].known /\ st.doc = mstate[m].doc
    BY <2>1, <1>2 DEF MetaRequests, MetaSteps
  <2>3. Then(m, st) /\ disturbed' # {} /\ disturbed \subseteq disturbed' /\ disturbed' \subseteq MetaFaults
    BY <2>1, <1>2, <1>4 DEF MetaFault
  <2>4. ClientsOne'
    BY <2>3 DEF ClientsOne
  <2>5. st.doc # 0
    BY <2>2, <1>1 DEF MetaInv, ClientsKnow
  <2> QED
    BY <2>2, <2>3, <2>4, <2>5, <1>1, <1>2, <1>4, ClientStep
<1> QED
  BY <1>3, <1>4 DEF RegisterClient

LEMMA SaveStep ==
    ASSUME MetaInv, NEW m \in MetaWorkers, SaveClient(m) PROVE MetaInv'
<1>1. PICK ok \in BOOLEAN :
        /\ FileWritten(ok)
        /\ cfile' = IF ok THEN [client |-> mstate[m].client, left |-> SecretLife] ELSE cfile
        /\ Then(m, IF ok THEN Ready(mstate[m].client) ELSE [mstate[m] EXCEPT !.pc = "failed"])
  BY DEF SaveClient
<1>2. mstate[m].pc = "save" /\ UNCHANGED <<opDoc, outdated, clients, pfile, crossed>>
  BY DEF SaveClient, TheOp
<1>3. /\ mstate[m] \in MetaRequests /\ disturbed \subseteq MetaFaults /\ crossed \in BOOLEAN
      /\ clients \in MetaClients /\ cfile \in [client : MetaClients, left : 0 .. SecretLife]
      /\ mstate[m].client \in MetaClients /\ SecretLife \in 0 .. SecretLife
  BY MetaAssumption DEF MetaInv, MetaTypeOK, MetaRequests
<1>4. CASE ok
  <2>1. PICK st : st = Ready(mstate[m].client)
    OBVIOUS
  <2>2. st \in MetaRequests /\ st.pc = "ready" /\ st.client = mstate[m].client
    BY <2>1, <1>3, ReadyTyped
  <2>3. Then(m, st) /\ disturbed' = disturbed /\ cfile' = [client |-> mstate[m].client, left |-> SecretLife]
    BY <2>1, <1>1, <1>4 DEF FileWritten, Smoothly
  <2>4. /\ mstate'[m] = st /\ \A n \in MetaWorkers : n # m => mstate'[n] = mstate[n]
    BY <2>2, <2>3, ThenTo
  <2>5. Registering' = Registering \ {m} /\ m \in Registering
    BY <2>2, <2>4, <1>2 DEF Registering
  <2>6. ClientsOne'
    BY <2>2, <2>3, <2>4, <2>5, <1>2 DEF MetaInv, ClientsOne
  <2>7. cfile' \in [client : MetaClients, left : 0 .. SecretLife]
    BY <2>3, <1>3
  <2> QED
    BY <2>2, <2>3, <2>6, <2>7, <1>2, <1>3, ClientStep
<1>5. CASE ~ok
  <2>1. PICK st : st = [mstate[m] EXCEPT !.pc = "failed"]
    OBVIOUS
  <2>2. st \in MetaRequests /\ st.pc = "failed"
    BY <2>1, <1>3 DEF MetaRequests, MetaSteps
  <2>3. /\ Then(m, st) /\ disturbed \subseteq disturbed' /\ disturbed' \subseteq MetaFaults
        /\ "file" \in disturbed' /\ cfile' = cfile
    BY <2>1, <1>1, <1>3, <1>5 DEF FileWritten, MetaFault
  <2>4. ClientsOne'
    BY <2>3 DEF ClientsOne
  <2> QED
    BY <2>2, <2>3, <2>4, <1>2, <1>3, ClientStep
<1> QED
  BY <1>4, <1>5

LEMMA MetadataUsedStep ==
    ASSUME MetaInv, NEW m \in MetaWorkers, MetadataUsed(m) PROVE MetaInv'
<1>1. /\ mstate[m].pc \in {"ready", "failed"} /\ Then(m, NoMetadata)
      /\ UNCHANGED <<opDoc, outdated, clients, pfile, cfile, disturbed, crossed>>
  BY DEF MetadataUsed, TheOp, Files
<1>2. /\ disturbed \subseteq MetaFaults /\ crossed \in BOOLEAN
      /\ clients \in MetaClients /\ cfile \in [client : MetaClients, left : 0 .. SecretLife]
  BY DEF MetaInv, MetaTypeOK
<1>3. PICK st \in MetaRequests : st = NoMetadata /\ st.pc = "idle"
  BY NoMetadataTyped
<1>4. /\ mstate'[m] = st /\ \A n \in MetaWorkers : n # m => mstate'[n] = mstate[n]
  BY <1>1, <1>3, ThenTo
<1>5. Registering' = Registering
  BY <1>1, <1>3, <1>4 DEF Registering
<1>6. ClientsOne'
  BY <1>1, <1>3, <1>4, <1>5 DEF MetaInv, ClientsOne
<1> QED
  BY <1>1, <1>2, <1>3, <1>6, ClientStep

LEMMA PublishStep == ASSUME MetaInv, PublishDocument PROVE MetaInv'
<1>1. /\ opDoc < MaxDoc /\ opDoc' = opDoc + 1
      /\ UNCHANGED <<outdated, pfile, cfile, clients, disturbed, crossed, mstate>>
  BY DEF PublishDocument, Files
<1>2. MetaTypeOK' /\ opDoc' > opDoc /\ opDoc \in Nat
  BY <1>1, MetaAssumption DEF MetaInv, MetaTypeOK
<1>3. DocsOrdered'
  BY <1>1, <1>2 DEF MetaInv, DocsOrdered, Docs
<1>4. Registering' = Registering
  BY <1>1 DEF Registering
<1>5. /\ KnownRead' /\ ClientsKnow' /\ DocsFresh' /\ ClientsOne' /\ DocumentFresh' /\ KnownProviderUsable'
  BY <1>1, <1>4 DEF MetaInv, KnownRead, ClientsKnow, DocsFresh, ClientsOne, DocumentFresh, KnownProviderUsable
<1> QED
  BY <1>2, <1>3, <1>5 DEF MetaInv

LEMMA MetaTickStep == ASSUME MetaInv, MetaTick PROVE MetaInv'
<1>1. /\ \A m \in MetaWorkers : mstate[m].pc \in {"idle", "ready", "retrieve", "write", "register"}
      /\ \A m \in MetaWorkers : mstate[m].pc \in {"retrieve", "write", "register"} => mstate[m].spent < CallBound
      /\ UNCHANGED <<opDoc, clients, disturbed, crossed>>
  BY DEF MetaTick
<1>2. /\ opDoc \in 1 .. MaxDoc /\ outdated \in [Docs -> 0 .. OutdatedCap]
      /\ pfile \in [doc : Docs, age : 0 .. DocInterval]
      /\ cfile \in [client : MetaClients, left : 0 .. SecretLife]
      /\ mstate \in [MetaWorkers -> MetaRequests]
      /\ OutdatedCap \in Nat /\ Docs \subseteq Nat
  BY MetaAssumption DEF MetaInv, MetaTypeOK, MetaRequests, OutdatedCap, Docs
<1>3. /\ outdated' \in [Docs -> 0 .. OutdatedCap]
      /\ \A d \in Docs : d = 0 \/ d >= opDoc => outdated'[d] = outdated[d]
      /\ \A d \in Docs : outdated[d] \in Nat /\ outdated'[d] \in Nat /\ outdated'[d] <= outdated[d] + 1
  <2>1. ASSUME NEW d \in Docs
        PROVE  Min({outdated[d] + 1, OutdatedCap}) \in 0 .. OutdatedCap
               /\ Min({outdated[d] + 1, OutdatedCap}) <= outdated[d] + 1
    <3>1. outdated[d] \in 0 .. OutdatedCap
      BY <1>2, <2>1
    <3> QED
      BY <3>1, <1>2, MinTwoValues
  <2>2. ASSUME NEW d \in Docs
        PROVE  outdated'[d] = IF d # 0 /\ d < opDoc THEN Min({outdated[d] + 1, OutdatedCap}) ELSE outdated[d]
    BY DEF MetaTick
  <2>3. outdated' = [d \in Docs |-> outdated'[d]]
    BY <2>2 DEF MetaTick
  <2>4. ASSUME NEW d \in Docs
        PROVE  /\ outdated'[d] \in 0 .. OutdatedCap /\ outdated'[d] <= outdated[d] + 1
               /\ d = 0 \/ d >= opDoc => outdated'[d] = outdated[d]
    <3>1. outdated[d] \in 0 .. OutdatedCap /\ d \in Nat
      BY <1>2, <2>4
    <3>2. CASE d # 0 /\ d < opDoc
      <4>1. outdated'[d] = Min({outdated[d] + 1, OutdatedCap})
        BY <3>2, <2>2
      <4>2. opDoc \in Nat
        BY <1>2
      <4> QED
        BY <4>1, <4>2, <3>1, <3>2, <2>1
    <3>3. CASE ~(d # 0 /\ d < opDoc)
      <4>1. outdated'[d] = outdated[d]
        BY <3>3, <2>2
      <4> QED
        BY <4>1, <3>1, <1>2
    <3> QED
      BY <3>2, <3>3
  <2>5. \A d \in Docs : outdated[d] \in Nat /\ outdated'[d] \in Nat
    BY <2>4, <1>2
  <2> QED
    BY <2>3, <2>4, <2>5
<1>4. /\ pfile' \in [doc : Docs, age : 0 .. DocInterval] /\ pfile'.doc = pfile.doc
      /\ pfile.doc # 0 => pfile'.age = (IF pfile.age < DocInterval THEN pfile.age + 1 ELSE DocInterval)
      /\ pfile.doc = 0 => pfile'.age = 0
  <2>1. PICK a : a = IF pfile.doc = 0 THEN 0 ELSE Min({pfile.age + 1, DocInterval})
    OBVIOUS
  <2>2. a = IF pfile.doc = 0 THEN 0 ELSE IF pfile.age < DocInterval THEN pfile.age + 1 ELSE DocInterval
    BY <2>1, <1>2, MinTwoValues, MetaAssumption
  <2>3. a \in 0 .. DocInterval
    BY <2>2, <1>2, MetaAssumption
  <2>4. pfile' = [pfile EXCEPT !.age = a]
    BY <2>1 DEF MetaTick
  <2> QED
    BY <2>2, <2>3, <2>4, <1>2
<1>5. cfile' \in [client : MetaClients, left : 0 .. SecretLife] /\ cfile'.client = cfile.client
  <2>1. PICK l : l = IF cfile.left > 0 THEN cfile.left - 1 ELSE 0
    OBVIOUS
  <2>2. l \in 0 .. SecretLife /\ cfile' = [cfile EXCEPT !.left = l]
    BY <2>1, <1>2, MetaAssumption DEF MetaTick
  <2> QED
    BY <2>2, <1>2
<1>6. ASSUME NEW m \in MetaWorkers
      PROVE  /\ mstate'[m] \in MetaRequests /\ mstate'[m].pc = mstate[m].pc
             /\ mstate'[m].known = mstate[m].known /\ mstate'[m].have = mstate[m].have
             /\ mstate'[m].cache = mstate[m].cache /\ mstate'[m].doc = mstate[m].doc
             /\ mstate'[m].client = mstate[m].client
             /\ mstate[m].pc \notin {"idle", "ready"} => mstate'[m].spent = mstate[m].spent + 1
  <2>1. mstate'[m] = IF mstate[m].pc \in {"idle", "ready"} THEN mstate[m]
                     ELSE [mstate[m] EXCEPT !.spent = @ + 1]
    BY DEF MetaTick
  <2>2. mstate[m] \in MetaRequests /\ mstate[m].spent \in 0 .. CallBound
    BY <1>2 DEF MetaRequests
  <2>3. CASE mstate[m].pc \in {"idle", "ready"}
    BY <2>1, <2>2, <2>3
  <2>4. CASE mstate[m].pc \notin {"idle", "ready"}
    <3>1. PICK s : s = mstate[m].spent + 1
      OBVIOUS
    <3>2. s \in 0 .. CallBound /\ mstate'[m] = [mstate[m] EXCEPT !.spent = s]
      BY <3>1, <2>1, <2>2, <2>4, <1>1, MetaAssumption
    <3> QED
      BY <3>1, <3>2, <2>2, <2>4 DEF MetaRequests
  <2> QED
    BY <2>3, <2>4
<1>7. mstate' \in [MetaWorkers -> MetaRequests]
  <2>1. mstate' = [m \in MetaWorkers |-> mstate'[m]]
    BY DEF MetaTick
  <2> QED
    BY <2>1, <1>6
<1>8. MetaTypeOK'
  BY <1>1, <1>3, <1>4, <1>5, <1>7 DEF MetaInv, MetaTypeOK, MetaRequests
<1>9. DocsOrdered'
  BY <1>1, <1>3, <1>4, <1>6 DEF MetaInv, DocsOrdered
<1>10. KnownRead' /\ ClientsKnow' /\ DocumentFresh' /\ KnownProviderUsable'
  BY <1>1, <1>6 DEF MetaInv, KnownRead, ClientsKnow, DocumentFresh, KnownProviderUsable
<1>11. Registering' = Registering
  BY <1>6 DEF Registering
<1>12. ClientsOne'
  BY <1>1, <1>5, <1>6, <1>11 DEF MetaInv, ClientsOne
<1>13. DocsFresh'
  <2> SUFFICES ASSUME DocInterval > 0, disturbed' = {} PROVE DocsFresh'
    BY DEF DocsFresh
  <2>1. pfile'.age < DocInterval => outdated'[pfile'.doc] <= pfile'.age + CallBound
    <3> SUFFICES ASSUME pfile'.age < DocInterval PROVE outdated'[pfile'.doc] <= pfile'.age + CallBound
      OBVIOUS
    <3>1. CASE pfile.doc = 0
      <4>1. outdated'[pfile'.doc] = 0
        BY <3>1, <1>3, <1>4, <1>2 DEF MetaInv, DocsOrdered
      <4> QED
        BY <4>1, <3>1, <1>4, MetaAssumption
    <3>2. CASE pfile.doc # 0
      <4>1. pfile.age < DocInterval /\ pfile'.age = pfile.age + 1
        BY <3>2, <1>4, <1>2, MetaAssumption
      <4>2. outdated[pfile.doc] <= pfile.age + CallBound
        BY <4>1, <1>1 DEF MetaInv, DocsFresh
      <4>3. pfile.doc \in Docs
        BY <1>2
      <4>4. outdated[pfile.doc] \in Nat /\ outdated'[pfile.doc] \in Nat /\ outdated'[pfile.doc] <= outdated[pfile.doc] + 1
        BY <4>3, <1>3
      <4> QED
        BY <4>1, <4>2, <4>4, <1>2, <1>4, MetaAssumption
    <3> QED
      BY <3>1, <3>2
  <2>2. ASSUME NEW m \in MetaWorkers, mstate'[m].pc = "write"
        PROVE  outdated'[mstate'[m].doc] <= mstate'[m].spent
    <3>1. outdated[mstate[m].doc] <= mstate[m].spent /\ mstate'[m].spent = mstate[m].spent + 1
      BY <2>2, <1>1, <1>6 DEF MetaInv, DocsFresh
    <3>2. mstate[m].doc \in Docs /\ mstate[m].spent \in Nat
      BY <1>2, MetaAssumption DEF MetaRequests
    <3>3. outdated[mstate[m].doc] \in Nat /\ outdated'[mstate[m].doc] \in Nat
          /\ outdated'[mstate[m].doc] <= outdated[mstate[m].doc] + 1
      BY <3>2, <1>3
    <3> QED
      BY <3>1, <3>2, <3>3, <1>6
  <2> QED
    BY <2>1, <2>2, <1>1, <1>6 DEF DocsFresh
<1> QED
  BY <1>8, <1>9, <1>10, <1>12, <1>13 DEF MetaInv

LEMMA MetaStep == MetaInv /\ [MetaNext]_metaVars => MetaInv'
<1> SUFFICES ASSUME MetaInv, [MetaNext]_metaVars PROVE MetaInv'
  OBVIOUS
<1>1. CASE UNCHANGED metaVars
  BY <1>1 DEF metaVars, MetaInv, MetaTypeOK, DocsOrdered, KnownRead, ClientsKnow, DocsFresh, ClientsOne,
     Registering, DocumentFresh, KnownProviderUsable
<1>2. CASE PublishDocument
  BY <1>2, PublishStep
<1>3. CASE MetaTick
  BY <1>3, MetaTickStep
<1>4. ASSUME NEW m \in MetaWorkers,
             \/ MetadataGet(m) \/ StatProvider(m) \/ ReadProvider(m) \/ RetrieveProvider(m)
             \/ TouchProvider(m) \/ WriteProvider(m) \/ ReadClient(m) \/ RegisterClient(m)
             \/ SaveClient(m) \/ MetadataUsed(m)
      PROVE  MetaInv'
  BY <1>4, MetadataGetStep, StatStep, ReadStep, RetrieveStep, TouchStep, WriteStep, ReadClientStep,
     RegisterStep, SaveStep, MetadataUsedStep
<1> QED
  BY <1>1, <1>2, <1>3, <1>4 DEF MetaNext

\* The inductive invariant of the provider's files: how long the document of
\* the file, of a download and of a request can have been superseded, what a
\* request has read, and which client there is while one is registered.
THEOREM MetaInvariance == MetaSpec => []MetaInv
  BY MetaInitInv, MetaStep, PTL DEF MetaSpec

\* Whatever requests of other processes do to the two files, and however
\* long the OP takes: no superseded document is used for longer than the
\* interval and a download, a provider that was known stays usable, and all
\* requests use one client, under the conditions that each of the three
\* names (oidc_metadata_provider_get, oidc_metadata_client_get).
THEOREM MetadataAlwaysUsable == MetaSpec => []MetadataUsable
<1>1. MetaInv => MetadataUsable
  BY DEF MetaInv, MetadataUsable, OneClient, ClientsOne
<1> QED
  BY <1>1, MetaInvariance, PTL

=============================================================================
