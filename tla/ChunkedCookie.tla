---------------------------- MODULE ChunkedCookie ----------------------------
(***************************************************************************)
(* A session in the browser (OIDCSessionType client-cookie): a value that  *)
(* is longer than OIDCSessionCookieChunkSize is split over numbered        *)
(* cookies, with their count in one more (http.c).  A response decides     *)
(* which cookies to clear from the ones that its request had brought; the  *)
(* browser, which is external, applies the cookies of a response at once.  *)
(***************************************************************************)
EXTENDS Integers, FiniteSets

CONSTANTS JarRequests,      \* requests of one browser
          ChunkSize,        \* OIDCSessionCookieChunkSize; 0: never split
          ChunksMax,        \* OIDC_HTTP_COOKIE_CHUNKS_MAX
          LengthMax,        \* the longest value
          WriteBound        \* values that are written

ASSUME ChunkAssumption ==
    /\ ChunkSize \in Nat /\ ChunksMax \in Nat \ {0} /\ LengthMax \in Nat /\ WriteBound \in Nat

\* A value is the number of the write; its pieces are numbered.  0: the
\* cookie is not there (a cookie that is set to the empty value is expired).
Values == 1..WriteBound
Indexes == 0..ChunksMax

VARIABLES jar,          \* the browser's cookies
          length,       \* the length of each value that was written
          jreq,         \* the cookies that came with the requests under way
          lastWrite,    \* what the last response meant to leave; 0: nothing
          overlapped    \* two requests have been under way at once

jarVars == <<jar, length, jreq, lastWrite, overlapped>>

NoPiece == <<0, 0>>
EmptyJar == [plain |-> 0, count |-> 0, chunk |-> [i \in Indexes |-> NoPiece]]
NoRequest == [active |-> FALSE, jar |-> EmptyJar]

Jars == [plain : 0..WriteBound, count : 0..ChunksMax,
         chunk : [Indexes -> (Values \X Indexes) \cup {NoPiece}]]

JarTypeOK ==
    /\ jar \in Jars
    /\ length \in [Values -> 0..LengthMax]
    /\ jreq \in [JarRequests -> [active : BOOLEAN, jar : Jars]]
    /\ lastWrite \in 0..WriteBound /\ overlapped \in BOOLEAN

JarInit ==
    /\ jar = EmptyJar /\ length = [v \in Values |-> 0]
    /\ jreq = [q \in JarRequests |-> NoRequest]
    /\ lastWrite = 0 /\ overlapped = FALSE

-----------------------------------------------------------------------------
(* oidc_http_get_chunked_cookie: the pieces in order, or nothing if one of   *)
(* them is missing.                                                          *)
Whole(v) == [i \in 0..v.pieces - 1 |-> <<v.value, i>>]

Read(j) ==
    IF ChunkSize = 0 \/ j.count = 0 THEN [i \in 0..0 |-> <<j.plain, 0>>]
    ELSE IF \E i \in 0..j.count - 1 : j.chunk[i] = NoPiece THEN [i \in 0..0 |-> NoPiece]
    ELSE [i \in 0..j.count - 1 |-> j.chunk[i]]

(* oidc_http_clear_chunked_cookie: as many as the request says there are.    *)
Clear(j, brought) ==
    IF brought.count = 0 THEN j
    ELSE [j EXCEPT !.count = 0,
                   !.chunk = [i \in Indexes |-> IF i < brought.count THEN NoPiece ELSE @[i]]]

(* The number of chunks, rounded up.                                         *)
Chunks(n) == (n + ChunkSize - 1) \div ChunkSize

(* oidc_http_set_chunked_cookie, as what it does to the browser's cookies:   *)
(* one cookie for a short value, chunks for a long one, and neither when the *)
(* value would need too many.                                                *)
IsShort(n) == ChunkSize = 0 \/ (n > 0 /\ n < ChunkSize)
TooLong(n) == ChunkSize # 0 /\ Chunks(n) > ChunksMax

SetShortOnly(j, brought, v) == [j EXCEPT !.plain = v]
SetShort(j, brought, v) == Clear([j EXCEPT !.plain = v], brought)

SetChunksGrow(j, v, n) ==
    [plain |-> 0, count |-> IF j.count > Chunks(n) THEN j.count ELSE Chunks(n),
     chunk |-> [i \in Indexes |-> IF i < Chunks(n) THEN <<v, i>> ELSE j.chunk[i]]]

SetChunks(j, v, n) ==
    [plain |-> 0, count |-> Chunks(n),
     chunk |-> [i \in Indexes |-> IF i < Chunks(n) THEN <<v, i>> ELSE j.chunk[i]]]

SetChunkedCookie(j, brought, v, n) ==
    IF n = 0 THEN SetShort(j, brought, 0)
    ELSE IF IsShort(n) THEN SetShort(j, brought, v)
    ELSE IF TooLong(n) THEN j
    ELSE SetChunks(j, v, n)

-----------------------------------------------------------------------------
SendRequest(q) ==
    /\ ~jreq[q].active
    /\ jreq' = [jreq EXCEPT ![q] = [active |-> TRUE, jar |-> jar]]
    /\ overlapped' = (overlapped \/ \E p \in JarRequests : jreq[p].active)
    /\ UNCHANGED <<jar, length, lastWrite>>

\* The response with a session of n characters; none at all after a logout.
Respond(q, n) ==
    LET unused == {v \in Values : length[v] = 0} IN
    /\ jreq[q].active /\ (n > 0 => unused # {})
    /\ LET v == IF n = 0 THEN 0 ELSE CHOOSE x \in unused : \A y \in unused : x <= y IN
       /\ jar' = SetChunkedCookie(jar, jreq[q].jar, v, n)
       /\ length' = IF v = 0 THEN length ELSE [length EXCEPT ![v] = n]
       /\ lastWrite' = IF n > 0 /\ TooLong(n) THEN lastWrite ELSE v
    /\ jreq' = [jreq EXCEPT ![q] = NoRequest]
    /\ UNCHANGED overlapped

RespondWithout(q) ==
    /\ jreq[q].active
    /\ jreq' = [jreq EXCEPT ![q] = NoRequest]
    /\ UNCHANGED <<jar, length, lastWrite, overlapped>>

JarNext ==
    \E q \in JarRequests :
        SendRequest(q) \/ RespondWithout(q) \/ \E n \in 0..LengthMax : Respond(q, n)

JarSpec == JarInit /\ [][JarNext]_jarVars

-----------------------------------------------------------------------------
Pieces(v) == IF ChunkSize = 0 \/ IsShort(length[v]) THEN 1 ELSE Chunks(length[v])
IsWhole(x) == \E v \in Values : x = Whole([value |-> v, pieces |-> Pieces(v)])
Nothing == [i \in 0..0 |-> NoPiece]

\* What the next request reads is one value as it was written, or nothing:
\* never chunks of different sessions put together, whatever the order in
\* which requests were sent and responses of any length came back.
NeverMixed == Read(jar) = Nothing \/ IsWhole(Read(jar))

\* As long as the requests come one after the other, the session that is
\* read is the one that was written last, however the lengths go up and
\* down, and after a logout there is none.
LastWriteRead ==
    ~overlapped =>
        Read(jar) = IF lastWrite = 0 THEN Nothing
                    ELSE Whole([value |-> lastWrite, pieces |-> Pieces(lastWrite)])

\* A cookie is read back as one value that was written, and in sequence
\* as the last one.
CookiesReadBack == NeverMixed /\ LastWriteRead
=============================================================================
