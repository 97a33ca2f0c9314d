------------------------------ MODULE RedisPool ------------------------------
(***************************************************************************)
(* The connections of the Redis cache backend.  By default a request takes *)
(* one from a small pool or makes one, keeps it and gives it back when it  *)
(* ends (request_scoped); with OIDC_REDIS_MUTEX_GLOBAL all requests share  *)
(* one and hold the mutex for the whole of a command.  A command is tried  *)
(* twice.  The server may go away and come back, which leaves connections  *)
(* behind that nobody notices until they are used.                         *)
(***************************************************************************)
EXTENDS Naturals, Sequences, FiniteSets, SequencesExt

CONSTANTS
    RedisRequests,  \* requests of one process
    PoolMax,        \* OIDC_CACHE_REDIS_POOL_MAX
    MaxConn,        \* bound: connections at the same time
    RedisFaults     \* faults that happen, of {"server", "lock", "reply"}

NoHolder == "nobody"

ASSUME RedisAssumption == PoolMax \in Nat /\ MaxConn \in Nat /\ NoHolder \notin RedisRequests

VARIABLES
    scoped,     \* request_scoped
    up,         \* the server can be reached
    live,       \* the connections that are allocated
    dead,       \* those among them that the server has closed
    idle,       \* the pool, the last one given back at the end
    shared,     \* context->rctx of the global mode, 0 is NULL
    holder,     \* the request that holds the mutex
    rq          \* per request: where it is

redisVars == <<scoped, up, live, dead, idle, shared, holder, rq>>

Conns == 1 .. MaxConn
MaxTries == 2

RedisTypeOK ==
    /\ scoped \in BOOLEAN /\ up \in BOOLEAN
    /\ live \subseteq Conns /\ dead \subseteq live
    /\ idle \in Seq(Conns) /\ Len(idle) <= PoolMax
    /\ shared \in Conns \cup {0}
    /\ holder \in RedisRequests \cup {NoHolder}
    /\ rq \in [RedisRequests -> [pc : {"new", "lock", "connect", "command", "flush", "relock",
                                       "release", "done"},
                                 conn : Conns \cup {0}, try : 1 .. MaxTries + 1,
                                 ok : BOOLEAN, held : BOOLEAN, calm : BOOLEAN]]

Begun == [pc |-> "new", conn |-> 0, try |-> 1, ok |-> FALSE, held |-> TRUE, calm |-> TRUE]

RedisInit ==
    /\ scoped \in BOOLEAN
    /\ up = TRUE
    /\ live = {} /\ dead = {} /\ idle = <<>> /\ shared = 0
    /\ holder = NoHolder
    /\ rq = [r \in RedisRequests |-> Begun]

Set(r, s) == rq' = [rq EXCEPT ![r] = s]
Rest == <<scoped, up>>
Free(c) == live' = live \ {c} /\ dead' = dead \ {c}
Calls(s) == s.pc \notin {"new", "done"}

\* calm: nothing happened to the server, and nobody gave a connection back,
\* since the command was begun.
Disturbed(f) == [r \in RedisRequests |-> IF Calls(f[r]) THEN [f[r] EXCEPT !.calm = FALSE] ELSE f[r]]

-----------------------------------------------------------------------------
(* oidc_cache_redis_get, oidc_cache_redis_set: the global mode takes the     *)
(* mutex; when that fails so does the call.                                  *)
BeginCall(r) ==
    /\ rq[r].pc \in {"new", "done"}
    /\ Set(r, [Begun EXCEPT !.pc = IF scoped THEN "connect" ELSE "lock", !.conn = rq[r].conn,
                             !.calm = up])
    /\ UNCHANGED <<Rest, live, dead, idle, shared, holder>>

LockMutex(r) ==
    /\ rq[r].pc = "lock"
    /\ \/ /\ holder = NoHolder
          /\ holder' = r
          /\ Set(r, [rq[r] EXCEPT !.pc = "connect"])
       \/ /\ "lock" \in RedisFaults
          /\ Set(r, [rq[r] EXCEPT !.pc = "done", !.calm = FALSE, !.held = FALSE])
          /\ UNCHANGED holder
    /\ UNCHANGED <<Rest, live, dead, idle, shared>>

-----------------------------------------------------------------------------
(* Connecting                                                                *)

(* oidc_cache_redis_exec: what follows a connection that cannot be made.     *)
(* The pause gives the mutex to others.  AUTH and SELECT may be refused too. *)
NoConnection(r) ==
    LET s == [rq[r] EXCEPT !.calm = @ /\ ~up] IN
    /\ ~up \/ "reply" \in RedisFaults
    /\     IF s.try < MaxTries
      THEN /\ Set(r, [s EXCEPT !.try = @ + 1, !.pc = IF scoped THEN "connect" ELSE "relock"])
           /\ holder' = IF scoped THEN holder ELSE NoHolder
      ELSE Set(r, [s EXCEPT !.pc = "release"]) /\ UNCHANGED holder

(* oidc_cache_redis_connect_with_timeout, with keepalive, AUTH and SELECT    *)
NewConnection(c) == up /\ c \notin live /\ live' = live \cup {c}

(* oidc_cache_redis_connect, global mode                                     *)
ConnectShared(r) ==
    /\ rq[r].pc = "connect" /\ ~scoped
    /\ \/ /\ shared # 0
          /\ Set(r, [rq[r] EXCEPT !.pc = "command"])
          /\ UNCHANGED <<live, shared, holder>>
       \/ /\ shared = 0
          /\ \E c \in Conns : NewConnection(c) /\ shared' = c
          /\ Set(r, [rq[r] EXCEPT !.pc = "command"])
          /\ UNCHANGED holder
       \/ /\ shared = 0
          /\ NoConnection(r)
          /\ UNCHANGED <<live, shared>>
    /\ UNCHANGED <<Rest, dead, idle>>

(* oidc_cache_redis_connect, request-scoped: the connection of this request, *)
(* the last of the pool, or a new one (oidc_cache_redis_rctx_connect with    *)
(* AUTH and SELECT).                                                         *)
ConnectScoped(r) ==
    LET s == rq[r] IN
    /\ s.pc = "connect" /\ scoped
    /\ \/ /\ s.conn # 0
          /\ Set(r, [s EXCEPT !.pc = "command"])
          /\ UNCHANGED <<live, idle, holder>>
       \/ /\ s.conn = 0 /\ idle # <<>>
          /\ idle' = Front(idle)
          /\ Set(r, [s EXCEPT !.pc = "command", !.conn = Last(idle)])
          /\ UNCHANGED <<live, holder>>
       \/ /\ s.conn = 0 /\ (idle = <<>> \/ "lock" \in RedisFaults)
          /\ \/ /\ \E c \in Conns :
                     NewConnection(c) /\ Set(r, [s EXCEPT !.pc = "command", !.conn = c])
                /\ UNCHANGED holder
             \/ NoConnection(r) /\ UNCHANGED live
          /\ UNCHANGED idle
    /\ UNCHANGED <<Rest, dead, shared>>

\* The mutex may not be had again: the call fails and must not release it.
Relock(r) ==
    /\ rq[r].pc = "relock"
    /\ \/ holder = NoHolder /\ holder' = r /\ Set(r, [rq[r] EXCEPT !.pc = "connect"])
       \/ /\ "lock" \in RedisFaults /\ UNCHANGED holder
          /\ Set(r, [rq[r] EXCEPT !.pc = "release", !.held = FALSE, !.calm = FALSE])
    /\ UNCHANGED <<Rest, live, dead, idle, shared>>

-----------------------------------------------------------------------------
(* The command                                                               *)

Again(s) == [s EXCEPT !.try = @ + 1, !.pc = IF s.try < MaxTries THEN "connect" ELSE "release"]

CommandAnswered(r) ==
    LET c == IF scoped THEN rq[r].conn ELSE shared IN
    /\ rq[r].pc = "command" /\ c \notin dead /\ up
    /\ Set(r, [rq[r] EXCEPT !.pc = "release", !.ok = TRUE])
    /\ UNCHANGED <<Rest, live, dead, idle, shared, holder>>

\* The server answers with an error: in the request-scoped mode the
\* connection is kept, the global mode disconnects.
CommandRefused(r) ==
    /\ rq[r].pc = "command" /\ up /\ "reply" \in RedisFaults
    /\ (IF scoped THEN rq[r].conn ELSE shared) \notin dead
    /\ Set(r, [Again(rq[r]) EXCEPT !.calm = FALSE])
    /\ IF scoped THEN UNCHANGED <<live, dead, shared>> ELSE Free(shared) /\ shared' = 0
    /\ UNCHANGED <<Rest, idle, holder>>

\* The connection is broken: it is freed; the pool is flushed next.
CommandBroken(r) ==
    LET s == rq[r] c == IF scoped THEN s.conn ELSE shared IN
    /\ s.pc = "command" /\ (c \in dead \/ ~up)
    /\ Free(c)
    /\ IF scoped THEN Set(r, [s EXCEPT !.conn = 0, !.pc = "flush"]) /\ UNCHANGED shared
                 ELSE Set(r, Again(s)) /\ shared' = 0
    /\ UNCHANGED <<Rest, idle, holder>>

\* Only the connection itself is dropped.
FlushNothing(r) ==
    /\ rq[r].pc = "flush"
    /\ Set(r, Again(rq[r]))
    /\ UNCHANGED <<Rest, live, dead, idle, shared, holder>>

(* oidc_cache_redis_idle_flush *)
IdleFlush(r) ==
    /\ rq[r].pc = "flush"
    /\ \/ /\ live' = live \ Range(idle) /\ dead' = dead \ Range(idle) /\ idle' = <<>>
          /\ Set(r, Again(rq[r]))
       \/ /\ "lock" \in RedisFaults
          /\ Set(r, [Again(rq[r]) EXCEPT !.calm = FALSE])
          /\ UNCHANGED <<live, dead, idle>>
    /\ UNCHANGED <<Rest, shared, holder>>

\* The mutex is released whether it is held or not.
EndCallAnyway(r) ==
    /\ rq[r].pc = "release"
    /\ Set(r, [rq[r] EXCEPT !.pc = "done"])
    /\ holder' = IF scoped THEN holder ELSE NoHolder
    /\ UNCHANGED <<Rest, live, dead, idle, shared>>

(* The end of oidc_cache_redis_get and _set.                                 *)
EndCall(r) ==
    /\ rq[r].pc = "release"
    /\ Set(r, [rq[r] EXCEPT !.pc = "done"])
    /\ holder' = IF ~scoped /\ rq[r].held THEN NoHolder ELSE holder
    /\ UNCHANGED <<Rest, live, dead, idle, shared>>

\* The connection goes to the pool and is freed as well.
ReturnTwice(r) ==
    /\ rq[r].pc = "done"
    /\ rq' = [Disturbed(rq) EXCEPT ![r] = Begun]
    /\ idle' = IF rq[r].conn # 0 /\ Len(idle) < PoolMax THEN Append(idle, rq[r].conn) ELSE idle
    /\ Free(rq[r].conn)
    /\ UNCHANGED <<Rest, shared, holder>>

(* oidc_cache_redis_conn_return, when the pool of the request is destroyed:  *)
(* to the pool, if there is room and the mutex is had.                       *)
EndRedisRequest(r) ==
    LET c == rq[r].conn IN
    /\ rq[r].pc = "done"
    /\ IF c = 0 THEN /\ rq' = [rq EXCEPT ![r] = Begun]
                     /\ UNCHANGED <<live, dead, idle>>
       ELSE /\ rq' = [Disturbed(rq) EXCEPT ![r] = Begun]
            /\ \/ Len(idle) < PoolMax /\ idle' = Append(idle, c) /\ UNCHANGED <<live, dead>>
               \/ (Len(idle) = PoolMax \/ "lock" \in RedisFaults) /\ Free(c) /\ UNCHANGED idle
    /\ UNCHANGED <<Rest, shared, holder>>

-----------------------------------------------------------------------------
(* The server goes away, with all connections, and comes back.               *)
ServerDown ==
    /\ "server" \in RedisFaults /\ up
    /\ up' = FALSE /\ dead' = live /\ rq' = Disturbed(rq)
    /\ UNCHANGED <<scoped, live, idle, shared, holder>>

ServerUp ==
    /\ ~up
    /\ up' = TRUE /\ rq' = Disturbed(rq)
    /\ UNCHANGED <<scoped, live, dead, idle, shared, holder>>

RedisWork(r) ==
    \/ LockMutex(r) \/ ConnectShared(r) \/ ConnectScoped(r) \/ Relock(r)
    \/ CommandAnswered(r) \/ CommandRefused(r) \/ CommandBroken(r) \/ IdleFlush(r) \/ EndCall(r)

RedisNext ==
    \/ \E r \in RedisRequests : BeginCall(r) \/ RedisWork(r) \/ EndRedisRequest(r)
    \/ ServerDown \/ ServerUp

RedisSpec == RedisInit /\ [][RedisNext]_redisVars

-----------------------------------------------------------------------------
(* Properties                                                                *)

\* A connection is at one place: in the pool once, or with one request, or
\* the shared one; and what is there is allocated.  So no reply of one
\* request is read by another, and nothing freed is used.
ConnectionOwned ==
    LET users(c) == {r \in RedisRequests : rq[r].conn = c}
        slots(c) == {n \in DOMAIN idle : idle[n] = c}
        refs(c) == Cardinality(users(c)) + Cardinality(slots(c)) + (IF shared = c THEN 1 ELSE 0)
    IN \A c \in Conns : refs(c) = (IF c \in live THEN 1 ELSE 0)

\* In the global mode the shared connection is used under the mutex, also by
\* the requests that gave it up for the pause between two attempts.
SharedUnderMutex ==
    \A r \in RedisRequests :
        ~scoped /\ (rq[r].pc \in {"connect", "command"} \/ (rq[r].pc = "release" /\ rq[r].held))
            => holder = r

\* "flush them before retrying": a server that has come back is used at the
\* second attempt at the latest, however many connections to the old one
\* were waiting in the pool, if no other request gives one back in between.
SecondTrySucceeds ==
    \A r \in RedisRequests : rq[r].pc = "done" /\ rq[r].calm /\ up => rq[r].ok

\* Connections are used by one request at a time, and a dead one does not
\* spoil the second try.
ConnectionsSafe == ConnectionOwned /\ SharedUnderMutex /\ SecondTrySucceeds
=============================================================================
