------------------------- MODULE SessionStoreProofs -------------------------
(***************************************************************************)
(* Sessions and the logout index never mix up users, for any number of     *)
(* browsers, users, concurrent requests and logins, whatever the cache     *)
(* loses, evicts or fails to store.                                        *)
(***************************************************************************)
EXTENDS SessionStore, FiniteSetTheorems, TLAPS

\* A stored session is of the user who logged in under its id, and so are
\* the index keys that it knows.
KeysOfUser(d) ==
    d.user # NoUser /\ d.user = UserOf(d.sid) /\ (d.sub = NoKey \/ UserOf(d.sub) = d.user)

StoredOwned ==
    \A i \in Ids : sess[i] # NoSession =>
        i <= last /\ sess[i].user = UserOf(owner[i]) /\ KeysOfUser(sess[i])

\* An index entry leads to an id of the user whose key it is.
IndexOwned ==
    \A k \in Keys : index[k].id # NoId =>
        index[k].id <= last /\ UserOf(owner[index[k].id]) = UserOf(k)

\* The copy that a request works on is one of the user of its id.
CopyOwned(y) ==
    /\ y.id <= last
    /\ y.data # NoSession =>
         y.id # NoId /\ y.data.user = UserOf(owner[y.id]) /\ KeysOfUser(y.data)

\* The steps in which a logout call works with an id from the index.
Cleaning(p, t) ==
    \/ p \in {"fetch", "clean_key", "clean_sid", "clean_sub", "clean_session"}
    \/ t = "clean_key" /\ p \in {"extract", "kill_sid", "kill_session"}

\* The id is one of the user whom the call names.
RefOwned(p, t, q, i) ==
    /\ i <= last
    /\ Cleaning(p, t) => i # NoId /\ UserOf(owner[i]) = UserOf(q.target)

\* Where a request stands: what was asked names a key, a session is taken
\* apart only if there is one, and the way back from a kill is that of the
\* handler that asked for it.
Stands(p, t, q, y) ==
    /\ q.op \in {"login", "front", "back"} => q.target \in Keys
    /\ p = "lookup" \/ t = "lookup" \/ Cleaning(p, t) => q.op \in {"front", "back"}
    /\ p = "idle" => t = "reply"
    /\ t = "clean_key" =>
         p \in {"extract", "kill_sid", "kill_session", "clean_key", "clean_sid", "clean_sub",
                "clean_session", "reply"}
    /\ p = "extract" => y.data # NoSession /\ ~y.open
    /\ p = "kill_sid" /\ t = "clean_key" => ~y.open
    /\ p = "kill_sub_read" => y.open /\ y.data.sub # NoKey
    /\ y.open => y.data # NoSession

ReqTypes == [op : {"none", "access", "login", "logout", "front", "back"},
             browser : Browsers \cup {NoBrowser}, sent : AnyId, target : Keys \cup {NoKey}]
ThenTypes == {"route", "lookup", "clean_key", "reply"}

\* The state of one request: its step, the step after it, what was asked,
\* its copy, the id from the index, and the cookie of the response.
RequestOk(p, t, q, y, i, o) ==
    /\ p \in Labels /\ t \in ThenTypes /\ q \in ReqTypes
    /\ y \in [id : AnyId, data : Sessions, open : BOOLEAN]
    /\ i \in AnyId /\ o \in AnyId \cup {Keep}
    /\ CopyOwned(y) /\ RefOwned(p, t, q, i) /\ Stands(p, t, q, y)

RequestsOk == \A r \in Requests : RequestOk(pc[r], then[r], req[r], z[r], ref[r], out[r])

SessionInv == TypeOK /\ StoredOwned /\ IndexOwned /\ RequestsOk

\* The settings of an instance are numbers where the code computes with them,
\* and browsers, keys and requests do not change during a behaviour.
LEMMA SettingFacts ==
    ASSUME setting \in Settings
    PROVE  /\ Interval \in Nat /\ MaxDuration \in Nat /\ MaxTime \in Nat
           /\ NoBrowser \notin Browsers /\ SidClaim \subseteq BOOLEAN
  BY SettingsAssumption DEF Interval, MaxDuration, MaxTime, Browsers, SidClaim

LEMMA SameSetting ==
    ASSUME setting' = setting
    PROVE  /\ Keys' = Keys /\ Requests' = Requests /\ Browsers' = Browsers
           /\ Sessions' = Sessions /\ ReqTypes' = ReqTypes
  BY DEF Keys, Requests, Browsers, Sessions, ReqTypes

\* A key has a user, and NoKey is none.
LEMMA KeyFacts ==
    /\ \A k \in Keys : UserOf(k) \in Users /\ UserOf(k) # NoUser
    /\ NoKey \notin Keys /\ UserOf(NoKey) = NoUser
    /\ \A u \in Users : SubOf(u) \in Keys /\ UserOf(SubOf(u)) = u
    /\ \A u \in Users, b \in Browsers \cup {NoBrowser} : <<u, b>> \in Keys /\ UserOf(<<u, b>>) = u
  BY NamesAssumption DEF Keys, NoKey, UserOf, SubOf

LEMMA IdFacts == /\ MaxId \in Nat /\ NoId \notin Ids /\ NoId = 0
                 /\ \A i : i \in Ids <=> i \in Nat /\ 1 <= i /\ i <= MaxId
                 /\ \A i : i \in AnyId <=> i \in Ids \/ i = NoId
  BY BoundsAssumption DEF Ids, NoId, AnyId

\* The empty values have their types.
LEMMA EmptyFacts ==
    /\ NoSession \in Sessions /\ NoSession.user = NoUser /\ NoSession.sid = NoKey /\ NoSession.sub = NoKey
    /\ NoIndex \in [id : AnyId, expires : Nat] /\ NoIndex.id = NoId
    /\ EmptyZ \in [id : AnyId, data : Sessions, open : BOOLEAN]
    /\ EmptyZ.id = NoId /\ EmptyZ.data = NoSession /\ EmptyZ.open = FALSE
  BY IdFacts DEF NoSession, NoIndex, EmptyZ, Sessions

LEMMA SessionInitInv == Init => SessionInv
<1> SUFFICES ASSUME Init PROVE SessionInv
  OBVIOUS
<1> USE IdFacts, EmptyFacts, KeyFacts DEF Init
<1>1. TypeOK
  BY DEF TypeOK, Labels, NoRequest, Keep
<1>2. StoredOwned /\ IndexOwned
  BY DEF StoredOwned, IndexOwned
<1>3. RequestsOk
  BY DEF RequestsOk, RequestOk, CopyOwned, RefOwned, Stands, Cleaning, NoRequest, Labels, ReqTypes, ThenTypes
<1> QED
  BY <1>1, <1>2, <1>3 DEF SessionInv

-----------------------------------------------------------------------------
(* The cache.                                                               *)

\* What a get returns is what is stored, or nothing.
LEMMA GetSessionFacts ==
    ASSUME SessionInv, NEW i \in AnyId
    PROVE  /\ GetSession(i) \in Sessions
           /\ GetSession(i) # NoSession =>
                /\ i \in Ids /\ i <= last /\ GetSession(i).user = UserOf(owner[i])
                /\ KeysOfUser(GetSession(i))
  BY IdFacts, EmptyFacts DEF SessionInv, TypeOK, StoredOwned, GetSession

LEMMA IndexReadsFacts ==
    ASSUME SessionInv, NEW k \in Keys, NEW i \in IndexReads(k)
    PROVE  /\ i \in AnyId /\ i <= last
           /\ i # NoId => i \in Ids /\ UserOf(owner[i]) = UserOf(k)
  BY IdFacts DEF SessionInv, TypeOK, IndexOwned, IndexReads, GetIndex

\* A write of the index that leaves everything else alone, except where
\* request r goes next, keeps the types and who owns what.
LEMMA IndexWrite ==
    ASSUME SessionInv, NEW k \in Keys, NEW e \in [id : AnyId, expires : Nat],
           SetIndex(k, e), e.id # NoId => e.id <= last /\ UserOf(owner[e.id]) = UserOf(k),
           UNCHANGED <<setting, last, owner>>
    PROVE  index' \in [Keys -> [id : AnyId, expires : Nat]] /\ IndexOwned'
<1>1. Keys' = Keys
  BY SameSetting
<1>2. CASE index' = index
  BY <1>1, <1>2 DEF SessionInv, TypeOK, IndexOwned
<1>3. CASE index' = [index EXCEPT ![k] = e]
  BY <1>1, <1>3 DEF SessionInv, TypeOK, IndexOwned
<1> QED
  BY <1>2, <1>3 DEF SetIndex

LEMMA IndexDrop ==
    ASSUME SessionInv, NEW k \in Keys \cup {NoKey}, DropIndex(k), UNCHANGED <<setting, last, owner>>
    PROVE  index' \in [Keys -> [id : AnyId, expires : Nat]] /\ IndexOwned'
<1>1. CASE k = NoKey
  BY <1>1, SameSetting DEF DropIndex, SessionInv, TypeOK, IndexOwned
<1>2. CASE k \in Keys
  BY <1>2, IndexWrite, EmptyFacts, KeyFacts DEF DropIndex
<1> QED
  BY <1>1, <1>2

\* Dropping a session, by a kill, a logout, a revocation or an eviction.
LEMMA SessionDrop ==
    ASSUME SessionInv, NEW i, sess' \in {sess, [sess EXCEPT ![i] = NoSession]},
           UNCHANGED <<setting, last, owner>>
    PROVE  sess' \in [Ids -> Sessions] /\ StoredOwned'
  BY EmptyFacts DEF SessionInv, TypeOK, StoredOwned

-----------------------------------------------------------------------------
(* The steps of one request.                                                *)

\* A step of request r gives it the state (p, t, q, y, i, o).
StepOf(r, p, t, q, y, i, o) ==
    /\ pc' = [pc EXCEPT ![r] = p] /\ then' = [then EXCEPT ![r] = t] /\ req' = [req EXCEPT ![r] = q]
    /\ z' = [z EXCEPT ![r] = y] /\ ref' = [ref EXCEPT ![r] = i] /\ out' = [out EXCEPT ![r] = o]

\* If that state is in order, the step keeps all requests in order, and the
\* invariant if the caches are in order as well.
LEMMA RequestStep ==
    ASSUME SessionInv, NEW r \in Requests, NEW p, NEW t, NEW q, NEW y, NEW i, NEW o,
           StepOf(r, p, t, q, y, i, o), RequestOk(p, t, q, y, i, o),
           UNCHANGED <<setting, last, owner>>,
           sess' \in [Ids -> Sessions], StoredOwned',
           index' \in [Keys -> [id : AnyId, expires : Nat]], IndexOwned',
           cookie' \in [Browsers -> AnyId], now' \in Nat, used' \in [Ids -> Nat]
    PROVE  SessionInv'
<1> USE DEF StepOf
<1>1. /\ Keys' = Keys /\ Requests' = Requests /\ Browsers' = Browsers
      /\ Sessions' = Sessions /\ ReqTypes' = ReqTypes
  BY SameSetting
<1>2. TypeOK'
  BY <1>1 DEF SessionInv, TypeOK, RequestOk, ReqTypes, ThenTypes
<1>3. RequestOk(p, t, q, y, i, o)'
  BY <1>1 DEF RequestOk, CopyOwned, RefOwned, Stands
<1>4. ASSUME NEW s \in Requests
      PROVE  RequestOk(pc[s], then[s], req[s], z[s], ref[s], out[s])'
  <2>1. CASE s = r
    BY <1>3, <2>1 DEF SessionInv, TypeOK
  <2>2. CASE s # r
    BY <1>1, <2>2 DEF SessionInv, TypeOK, RequestsOk, RequestOk, CopyOwned, RefOwned, Stands
  <2> QED
    BY <2>1, <2>2
<1>5. RequestsOk'
  BY <1>1, <1>4 DEF RequestsOk
<1> QED
  BY <1>2, <1>5 DEF SessionInv

\* The state of a request, as the invariant gives it.
LEMMA Here ==
    ASSUME SessionInv, NEW r \in Requests
    PROVE  RequestOk(pc[r], then[r], req[r], z[r], ref[r], out[r])
  BY DEF SessionInv, RequestsOk

\* The stored sessions and the index stay in order when they are left alone.
LEMMA StoreKept ==
    ASSUME SessionInv, UNCHANGED <<setting, last, owner>>
    PROVE  /\ sess' = sess => sess' \in [Ids -> Sessions] /\ StoredOwned'
           /\ index' = index => index' \in [Keys -> [id : AnyId, expires : Nat]] /\ IndexOwned'
           /\ cookie' = cookie => cookie' \in [Browsers -> AnyId]
           /\ now' = now => now' \in Nat
           /\ used' = used => used' \in [Ids -> Nat]
  BY SameSetting DEF SessionInv, TypeOK, StoredOwned, IndexOwned

\* A request arrives, from a browser or from the OP.
LEMMA ArrivesInv ==
    ASSUME SessionInv, NEW r \in Requests, BrowserRequest(r) \/ BackChannelRequest(r)
    PROVE  SessionInv'
<1> USE DEF store, history
<1>1. RequestOk("idle", then[r], req[r], z[r], ref[r], out[r]) /\ pc[r] = "idle"
  BY Here DEF BrowserRequest, BackChannelRequest
<1>2. CASE BrowserRequest(r)
  <2>0. PICK b \in Browsers : \E q \in BrowserRequests(b) : req' = [req EXCEPT ![r] = q]
    BY <1>2 DEF BrowserRequest
  <2>1. PICK q \in BrowserRequests(b) : req' = [req EXCEPT ![r] = q]
    BY <2>0
  <2>2. \A u \in Users : SidsOf(b, u) \subseteq Keys
    BY KeyFacts DEF SidsOf
  <2>3. q \in ReqTypes /\ (q.op \in {"login", "front", "back"} => q.target \in Keys)
    BY <2>1, <2>2, IdFacts DEF BrowserRequests, ReqTypes, SessionInv, TypeOK
  <2>4. StepOf(r, "load", then[r], q, z[r], ref[r], out[r])
    BY <1>2, <2>1 DEF BrowserRequest, Goto, StepOf, SessionInv, TypeOK
  <2>5. RequestOk("load", then[r], q, z[r], ref[r], out[r])
    BY <1>1, <2>3 DEF RequestOk, RefOwned, Stands, Cleaning, Labels
  <2> QED
    BY <1>2, <2>4, <2>5, RequestStep, StoreKept DEF BrowserRequest
<1>3. CASE BackChannelRequest(r)
  <2>1. PICK k \in Keys : req' = [req EXCEPT ![r] = [NoRequest EXCEPT !.op = "back", !.target = k]]
    BY <1>3 DEF BackChannelRequest
  <2> DEFINE q == [NoRequest EXCEPT !.op = "back", !.target = k]
  <2>2. q \in ReqTypes /\ q.op = "back" /\ q.target \in Keys
    BY IdFacts DEF ReqTypes, NoRequest
  <2> HIDE DEF q
  <2>3. StepOf(r, "lookup", then[r], q, z[r], ref[r], out[r])
    BY <1>3, <2>1 DEF BackChannelRequest, Goto, StepOf, SessionInv, TypeOK, q
  <2>4. RequestOk("lookup", then[r], q, z[r], ref[r], out[r])
    BY <1>1, <2>2 DEF RequestOk, RefOwned, Stands, Cleaning, Labels
  <2> QED
    BY <1>3, <2>3, <2>4, RequestStep, StoreKept DEF BackChannelRequest
<1> QED
  BY <1>2, <1>3

\* A session is loaded, or not found.
LEMMA LoadInv ==
    ASSUME SessionInv, NEW r \in Requests, LoadFound(r) \/ LoadMissing(r)
    PROVE  SessionInv'
<1> USE DEF store, history
<1>1. RequestOk("load", then[r], req[r], z[r], ref[r], out[r]) /\ pc[r] = "load"
  BY Here DEF LoadFound, LoadMissing
<1>2. req[r].sent \in AnyId
  BY <1>1 DEF RequestOk, ReqTypes
<1>3. CASE LoadFound(r)
  <2> DEFINE y == Opened(req[r].sent)
  <2>1. /\ y \in [id : AnyId, data : Sessions, open : BOOLEAN]
        /\ CopyOwned(y) /\ y.data # NoSession /\ ~y.open
    BY <1>2, <1>3, GetSessionFacts, IdFacts DEF LoadFound, Opened, CopyOwned
  <2> HIDE DEF y
  <2>2. StepOf(r, "extract", "route", req[r], y, ref[r], out[r])
    BY <1>3 DEF LoadFound, Goto, StepOf, SessionInv, TypeOK, y
  <2>3. RequestOk("extract", "route", req[r], y, ref[r], out[r])
    BY <1>1, <2>1 DEF RequestOk, RefOwned, Stands, Cleaning, Labels, ThenTypes
  <2> QED
    BY <1>3, <2>2, <2>3, RequestStep, StoreKept DEF LoadFound
<1>4. CASE LoadMissing(r)
  <2>1. PICK o \in {Keep, NoId, out[r]} : out' = [out EXCEPT ![r] = o]
    BY <1>4 DEF LoadMissing, SessionInv, TypeOK
  <2>2. StepOf(r, "route", then[r], req[r], z[r], ref[r], o)
    BY <1>4, <2>1 DEF LoadMissing, Goto, StepOf, SessionInv, TypeOK
  <2>3. RequestOk("route", then[r], req[r], z[r], ref[r], o)
    BY <1>1, IdFacts DEF RequestOk, RefOwned, Stands, Cleaning, Labels
  <2> QED
    BY <1>4, <2>2, <2>3, RequestStep, StoreKept DEF LoadMissing
<1> QED
  BY <1>3, <1>4

\* The members are taken from the state, or an expired session is killed.
LEMMA ExtractInv ==
    ASSUME SessionInv, NEW r \in Requests, Extract(r)
    PROVE  SessionInv'
<1> USE DEF store, history
<1>1. RequestOk("extract", then[r], req[r], z[r], ref[r], out[r]) /\ pc[r] = "extract"
  BY Here DEF Extract
<1>2. CASE now > z[r].data.expiry
  <2>1. StepOf(r, "kill_sid", then[r], req[r], z[r], ref[r], out[r])
    BY <1>2 DEF Extract, Goto, StepOf, SessionInv, TypeOK
  <2>2. RequestOk("kill_sid", then[r], req[r], z[r], ref[r], out[r])
    BY <1>1 DEF RequestOk, RefOwned, Stands, Cleaning, Labels
  <2> QED
    BY <2>1, <2>2, RequestStep, StoreKept DEF Extract
<1>3. CASE ~(now > z[r].data.expiry)
  <2> DEFINE y == [z[r] EXCEPT !.open = TRUE]
  <2>1. y \in [id : AnyId, data : Sessions, open : BOOLEAN] /\ y.id = z[r].id /\ y.data = z[r].data
    BY <1>1 DEF RequestOk
  <2>2. StepOf(r, then[r], then[r], req[r], y, ref[r], out[r])
    BY <1>3 DEF Extract, Goto, StepOf, SessionInv, TypeOK
  <2> HIDE DEF y
  <2>3. RequestOk(then[r], then[r], req[r], y, ref[r], out[r])
    BY <1>1, <2>1 DEF RequestOk, CopyOwned, RefOwned, Stands, Cleaning, Labels, ThenTypes
  <2> QED
    BY <2>2, <2>3, RequestStep, StoreKept DEF Extract
<1> QED
  BY <1>2, <1>3
\* An index entry is stored for the session that a request saves.
LEMMA SaveIndexInv ==
    ASSUME SessionInv, NEW r \in Requests, SaveSid(r) \/ SaveSub(r)
    PROVE  SessionInv'
<1> USE DEF history
<1>1. /\ pc[r] \in {"save_sid", "save_sub"}
      /\ RequestOk(pc[r], then[r], req[r], z[r], ref[r], out[r])
  BY Here DEF SaveSid, SaveSub
<1>2. PICK k \in {z[r].data.sid, z[r].data.sub}, p \in {"save_sub", "save_session"} :
         SaveIndex(r, k) /\ Goto(r, p)
  BY DEF SaveSid, SaveSub
<1>3. k \in Keys \cup {NoKey}
  BY <1>1 DEF RequestOk, Sessions
<1>4. index' \in [Keys -> [id : AnyId, expires : Nat]] /\ IndexOwned'
  <2>1. CASE k = NoKey
    BY <1>2, <2>1, StoreKept DEF SaveIndex
  <2>2. CASE k # NoKey
    <3> DEFINE e == [id |-> z[r].id, expires |-> z[r].data.expiry]
    <3>1. e \in [id : AnyId, expires : Nat] /\ k \in Keys
      BY <1>1, <1>3, <2>2 DEF RequestOk, Sessions
    <3>2. z[r].data # NoSession
      BY <2>2, EmptyFacts
    <3>3. e.id <= last /\ UserOf(owner[e.id]) = UserOf(k)
      BY <1>1, <2>2, <3>2 DEF RequestOk, CopyOwned, KeysOfUser
    <3>4. SetIndex(k, e) /\ UNCHANGED <<setting, last, owner>>
      BY <1>2, <2>2 DEF SaveIndex
    <3> HIDE DEF e
    <3> QED
      BY <3>1, <3>3, <3>4, IndexWrite
  <2> QED
    BY <2>1, <2>2
<1>5. StepOf(r, p, then[r], req[r], z[r], ref[r], out[r])
  BY <1>2 DEF SaveIndex, Goto, StepOf, SessionInv, TypeOK
<1>6. RequestOk(p, then[r], req[r], z[r], ref[r], out[r])
  BY <1>1 DEF RequestOk, RefOwned, Stands, Cleaning, Labels
<1> QED
  BY <1>2, <1>4, <1>5, <1>6, RequestStep, StoreKept DEF SaveIndex
\* The session is stored under the id of the copy.
LEMMA SaveSessionInv ==
    ASSUME SessionInv, NEW r \in Requests, SaveSession(r)
    PROVE  SessionInv'
<1> USE DEF history
<1>1. pc[r] = "save_session" /\ RequestOk("save_session", then[r], req[r], z[r], ref[r], out[r])
  BY Here DEF SaveSession
<1>2. sess' \in [Ids -> Sessions] /\ StoredOwned'
  <2>1. CASE sess' = sess
    BY <2>1, StoreKept DEF SaveSession
  <2>2. CASE sess' = [sess EXCEPT ![z[r].id] = z[r].data]
    BY <1>1, <2>2, IdFacts DEF SaveSession, SessionInv, TypeOK, StoredOwned, RequestOk, CopyOwned
  <2> QED
    BY <2>1, <2>2 DEF SaveSession
<1>3. PICK o \in {out[r], z[r].id} : out' = [out EXCEPT ![r] = o]
  BY DEF SaveSession, SessionInv, TypeOK
<1>4. StepOf(r, "reply", then[r], req[r], z[r], ref[r], o)
  BY <1>3 DEF SaveSession, Goto, StepOf, SessionInv, TypeOK
<1>5. RequestOk("reply", then[r], req[r], z[r], ref[r], o)
  BY <1>1, IdFacts DEF RequestOk, RefOwned, Stands, Cleaning, Labels
<1> QED
  BY <1>2, <1>4, <1>5, RequestStep, StoreKept DEF SaveSession
\* The keys of a copy are keys, or none.
LEMMA CopyKeys ==
    ASSUME SessionInv, NEW r \in Requests
    PROVE  SidKey(r) \in Keys \cup {NoKey} /\ SubKey(r) \in Keys \cup {NoKey}
  BY Here DEF RequestOk, Sessions, SidKey, SubKey
\* The index entries of a session that is killed are deleted.
LEMMA KillIndexInv ==
    ASSUME SessionInv, NEW r \in Requests, KillSid(r) \/ KillSub(r)
    PROVE  SessionInv'
<1> USE DEF history
<1>1. /\ pc[r] \in {"kill_sid", "kill_sub"}
      /\ RequestOk(pc[r], then[r], req[r], z[r], ref[r], out[r])
  BY Here DEF KillSid, KillSub
<1>2. index' \in [Keys -> [id : AnyId, expires : Nat]] /\ IndexOwned'
  <2>1. UNCHANGED <<setting, last, owner>>
    BY DEF KillSid, KillSub
  <2>2. CASE index' = index
    BY <2>1, <2>2, StoreKept
  <2>3. CASE DropIndex(SidKey(r)) \/ DropIndex(SubKey(r))
    BY <2>1, <2>3, CopyKeys, IndexDrop
  <2> QED
    BY <2>2, <2>3 DEF KillSid, KillSub
<1>3. CASE KillSid(r)
  <2>1. PICK p \in {"kill_session", "kill_sub_read"} :
           Goto(r, p) /\ (p = "kill_sub_read" => SubKey(r) # NoKey)
    BY <1>3 DEF KillSid
  <2>2. p = "kill_sub_read" => z[r].open /\ z[r].data.sub # NoKey
    BY <2>1 DEF SubKey
  <2>3. StepOf(r, p, then[r], req[r], z[r], ref[r], out[r])
    BY <1>3, <2>1 DEF KillSid, Goto, StepOf, SessionInv, TypeOK
  <2>4. RequestOk(p, then[r], req[r], z[r], ref[r], out[r])
    BY <1>1, <1>3, <2>2 DEF KillSid, RequestOk, RefOwned, Stands, Cleaning, Labels
  <2> QED
    BY <1>2, <1>3, <2>3, <2>4, RequestStep, StoreKept DEF KillSid
<1>4. CASE KillSub(r)
  <2>1. StepOf(r, "kill_session", then[r], req[r], z[r], NoId, out[r])
    BY <1>4 DEF KillSub, Goto, StepOf, SessionInv, TypeOK
  <2>2. RequestOk("kill_session", then[r], req[r], z[r], NoId, out[r])
    BY <1>1, <1>4, IdFacts DEF KillSub, SessionInv, TypeOK, RequestOk, RefOwned, Stands, Cleaning, Labels
  <2> QED
    BY <1>2, <1>4, <2>1, <2>2, RequestStep, StoreKept DEF KillSub
<1> QED
  BY <1>3, <1>4
\* The shared entry is read before it is deleted.
LEMMA KillSubReadInv ==
    ASSUME SessionInv, NEW r \in Requests, KillSubRead(r)
    PROVE  SessionInv'
<1> USE DEF store, history
<1>1. pc[r] = "kill_sub_read" /\ RequestOk("kill_sub_read", then[r], req[r], z[r], ref[r], out[r])
  BY Here DEF KillSubRead
<1>2. PICK i \in IndexReads(SubKey(r)) : ref' = [ref EXCEPT ![r] = i]
  BY DEF KillSubRead
<1>3. SubKey(r) \in Keys
  BY <1>1, CopyKeys DEF SubKey, RequestOk, Stands
<1>4. i \in AnyId /\ i <= last
  BY <1>3, IndexReadsFacts
<1>5. StepOf(r, "kill_sub", then[r], req[r], z[r], i, out[r])
  BY <1>2 DEF KillSubRead, Goto, StepOf, SessionInv, TypeOK
<1>6. RequestOk("kill_sub", then[r], req[r], z[r], i, out[r])
  BY <1>1, <1>4 DEF RequestOk, RefOwned, Stands, Cleaning, Labels
<1> QED
  BY <1>5, <1>6, RequestStep, StoreKept DEF KillSubRead
\* The session is deleted, only its id stays in the copy.
LEMMA KillSessionInv ==
    ASSUME SessionInv, NEW r \in Requests, KillSession(r)
    PROVE  SessionInv'
<1> USE DEF history
<1>1. pc[r] = "kill_session" /\ RequestOk("kill_session", then[r], req[r], z[r], ref[r], out[r])
  BY Here DEF KillSession
<1>2. sess' \in [Ids -> Sessions] /\ StoredOwned'
  BY SessionDrop DEF KillSession, DropSession
<1> DEFINE y == [EmptyZ EXCEPT !.id = z[r].id]
<1>3. /\ y \in [id : AnyId, data : Sessions, open : BOOLEAN]
      /\ y.id = z[r].id /\ y.data = NoSession /\ ~y.open
  BY <1>1, EmptyFacts DEF RequestOk, EmptyZ
<1> HIDE DEF y
<1>4. StepOf(r, then[r], then[r], req[r], y, ref[r], NoId)
  BY DEF KillSession, Goto, StepOf, SessionInv, TypeOK, y
<1>5. RequestOk(then[r], then[r], req[r], y, ref[r], NoId)
  BY <1>1, <1>3, IdFacts DEF RequestOk, CopyOwned, RefOwned, Stands, Cleaning, Labels, ThenTypes
<1> QED
  BY <1>2, <1>4, <1>5, RequestStep, StoreKept DEF KillSession

\* A request is answered without the session, or its session is killed first.
LEMMA RouteInv ==
    ASSUME SessionInv, NEW r \in Requests, Unauthenticated(r) \/ ServeEnds(r) \/ Logout(r)
    PROVE  SessionInv'
<1> USE DEF store, history
<1>1. pc[r] = "route" /\ RequestOk("route", then[r], req[r], z[r], ref[r], out[r])
  BY Here DEF Unauthenticated, ServeEnds, Logout
<1>2. PICK p \in {"reply", "kill_sid"}, t \in {then[r], "reply", "lookup"} :
         /\ pc' = [pc EXCEPT ![r] = p] /\ then' = [then EXCEPT ![r] = t]
         /\ t = "lookup" => req[r].op = "front" \/ then[r] = "lookup"
         /\ p = "kill_sid" => t # "clean_key"
  <2>1. CASE Unauthenticated(r)
    BY <2>1 DEF Unauthenticated, Goto, SessionInv, TypeOK
  <2>2. CASE ServeEnds(r) \/ Logout(r)
    BY <2>2 DEF ServeEnds, Logout, Kill, Goto
  <2> QED
    BY <2>1, <2>2
<1>3. UNCHANGED <<store, req, z, ref, out, history>>
  BY DEF Unauthenticated, ServeEnds, Logout
<1>4. StepOf(r, p, t, req[r], z[r], ref[r], out[r])
  BY <1>2, <1>3 DEF StepOf, SessionInv, TypeOK
<1>5. RequestOk(p, t, req[r], z[r], ref[r], out[r])
  BY <1>1, <1>2 DEF RequestOk, RefOwned, Stands, Cleaning, Labels, ThenTypes
<1> QED
  BY <1>3, <1>4, <1>5, RequestStep, StoreKept

\* A request is served; its copy gets a new expiry.
LEMMA ServeInv ==
    ASSUME SessionInv, NEW r \in Requests, Serve(r)
    PROVE  SessionInv'
<1> USE DEF store
<1>1. pc[r] = "route" /\ RequestOk("route", then[r], req[r], z[r], ref[r], out[r]) /\ z[r].open
  BY Here DEF Serve
<1>2. z[r].data \in Sessions /\ now \in Nat /\ Interval \in Nat
  BY <1>1, SettingFacts DEF SessionInv, TypeOK, RequestOk
<1>3. PICK e \in Nat : z' = [z EXCEPT ![r].data = [z[r].data EXCEPT !.expiry = e, !.new = FALSE]]
  <2>1. z[r].data.expiry \in Nat /\ now + Interval \in Nat
    BY <1>2 DEF Sessions
  <2> QED
    BY <2>1 DEF Serve
<1> DEFINE d == [z[r].data EXCEPT !.expiry = e, !.new = FALSE]
           y == [z[r] EXCEPT !.data = d]
<1>4. /\ d \in Sessions /\ d.user = z[r].data.user /\ d.sid = z[r].data.sid /\ d.sub = z[r].data.sub
  BY <1>2, <1>3 DEF Sessions
<1>5. /\ y \in [id : AnyId, data : Sessions, open : BOOLEAN] /\ y.data = d
      /\ y.id = z[r].id /\ y.open = z[r].open
  BY <1>1, <1>4 DEF RequestOk
<1>6. z' = [z EXCEPT ![r] = y]
  BY <1>3 DEF SessionInv, TypeOK
<1> HIDE DEF d, y
<1>7. z[r].data # NoSession /\ d # NoSession
  <2>1. z[r].data # NoSession
    BY <1>1 DEF RequestOk, Stands
  <2>2. d.user # NoUser
    BY <1>1, <1>4, <2>1 DEF RequestOk, CopyOwned, KeysOfUser
  <2> QED
    BY <2>1, <2>2, EmptyFacts
<1>8. PICK p \in {"save_sid", "reply"} : pc' = [pc EXCEPT ![r] = p]
  BY DEF Serve, Goto
<1>9. StepOf(r, p, then[r], req[r], y, ref[r], out[r])
  BY <1>6, <1>8 DEF Serve, StepOf, SessionInv, TypeOK
<1>10. RequestOk(p, then[r], req[r], y, ref[r], out[r])
  BY <1>1, <1>4, <1>5, <1>7 DEF RequestOk, CopyOwned, KeysOfUser, RefOwned, Stands, Cleaning, Labels
<1>11. used' \in [Ids -> Nat]
  BY <1>2 DEF Serve, SessionInv, TypeOK
<1> QED
  BY <1>9, <1>10, <1>11, RequestStep, StoreKept DEF Serve

\* A logout call finds an id in the index.
LEMMA LookupInv ==
    ASSUME SessionInv, NEW r \in Requests, Lookup(r)
    PROVE  SessionInv'
<1> USE DEF store, history
<1>1. pc[r] = "lookup" /\ RequestOk("lookup", then[r], req[r], z[r], ref[r], out[r])
  BY Here DEF Lookup
<1>2. req[r].target \in Keys /\ req[r].op \in {"front", "back"}
  BY <1>1 DEF RequestOk, Stands
<1>3. PICK i \in IndexReads(req[r].target) :
         ref' = [ref EXCEPT ![r] = i] /\ Goto(r, IF i = NoId THEN "reply" ELSE "fetch")
  BY DEF Lookup
<1>4. i \in AnyId /\ i <= last /\ (i # NoId => UserOf(owner[i]) = UserOf(req[r].target))
  BY <1>2, <1>3, IndexReadsFacts
<1>5. PICK p \in {"reply", "fetch"} : pc' = [pc EXCEPT ![r] = p] /\ (p = "fetch" => i # NoId)
  BY <1>3 DEF Goto
<1>6. StepOf(r, p, then[r], req[r], z[r], i, out[r])
  BY <1>3, <1>5 DEF Lookup, StepOf, SessionInv, TypeOK
<1>7. RequestOk(p, then[r], req[r], z[r], i, out[r])
  BY <1>1, <1>2, <1>4, <1>5 DEF RequestOk, RefOwned, Stands, Cleaning, Labels
<1> QED
  BY <1>6, <1>7, RequestStep, StoreKept DEF Lookup

\* It reads the session of the id, which may be gone.
LEMMA FetchInv ==
    ASSUME SessionInv, NEW r \in Requests, Fetch(r)
    PROVE  SessionInv'
<1> USE DEF store, history
<1>1. pc[r] = "fetch" /\ RequestOk("fetch", then[r], req[r], z[r], ref[r], out[r])
  BY Here DEF Fetch
<1>2. /\ ref[r] \in AnyId /\ req[r].op \in {"front", "back"}
      /\ RefOwned("extract", "clean_key", req[r], ref[r])
      /\ RefOwned("clean_key", "clean_key", req[r], ref[r])
  BY <1>1 DEF RequestOk, RefOwned, Stands, Cleaning
<1>3. CASE GetSession(ref[r]) # NoSession /\ z' = [z EXCEPT ![r] = Opened(ref[r])] /\ Goto(r, "extract")
  <2> DEFINE y == Opened(ref[r])
  <2>1. /\ y \in [id : AnyId, data : Sessions, open : BOOLEAN]
        /\ CopyOwned(y) /\ y.data # NoSession /\ ~y.open
    BY <1>2, <1>3, GetSessionFacts, IdFacts DEF Opened, CopyOwned
  <2> HIDE DEF y
  <2>2. StepOf(r, "extract", "clean_key", req[r], y, ref[r], out[r])
    BY <1>3 DEF Fetch, Goto, StepOf, SessionInv, TypeOK, y
  <2>3. RequestOk("extract", "clean_key", req[r], y, ref[r], out[r])
    BY <1>1, <1>2, <2>1 DEF RequestOk, Stands, Labels, ThenTypes
  <2> QED
    BY <2>2, <2>3, RequestStep, StoreKept DEF Fetch
<1>4. CASE z' = [z EXCEPT ![r] = EmptyZ] /\ Goto(r, "clean_key")
  <2>1. StepOf(r, "clean_key", "clean_key", req[r], EmptyZ, ref[r], out[r])
    BY <1>4 DEF Fetch, Goto, StepOf, SessionInv, TypeOK
  <2>2. CopyOwned(EmptyZ)
    BY EmptyFacts, IdFacts DEF CopyOwned, SessionInv, TypeOK
  <2>3. RequestOk("clean_key", "clean_key", req[r], EmptyZ, ref[r], out[r])
    BY <1>1, <1>2, <2>2, EmptyFacts DEF RequestOk, Stands, Labels, ThenTypes
  <2> QED
    BY <2>1, <2>3, RequestStep, StoreKept DEF Fetch
<1> QED
  BY <1>3, <1>4 DEF Fetch

\* It deletes the entries of the key, the sid and the sub.
LEMMA CleanIndexInv ==
    ASSUME SessionInv, NEW r \in Requests, CleanKey(r) \/ CleanSid(r) \/ CleanSub(r)
    PROVE  SessionInv'
<1> USE DEF history
<1>1. /\ pc[r] \in {"clean_key", "clean_sid", "clean_sub"}
      /\ RequestOk(pc[r], then[r], req[r], z[r], ref[r], out[r])
  BY Here DEF CleanKey, CleanSid, CleanSub
<1>2. PICK k \in {req[r].target, SidKey(r), SubKey(r)}, p \in {"clean_sid", "clean_sub", "clean_session"} :
         Clean(r, k) /\ Goto(r, p)
  BY DEF CleanKey, CleanSid, CleanSub
<1>3. k \in Keys \cup {NoKey}
  BY <1>1, <1>2, CopyKeys DEF RequestOk, ReqTypes
<1>4. index' \in [Keys -> [id : AnyId, expires : Nat]] /\ IndexOwned'
  BY <1>2, <1>3, IndexDrop DEF Clean
<1>5. StepOf(r, p, then[r], req[r], z[r], ref[r], out[r])
  BY <1>2 DEF Clean, Goto, StepOf, SessionInv, TypeOK
<1>6. RequestOk(p, then[r], req[r], z[r], ref[r], out[r])
  BY <1>1 DEF RequestOk, RefOwned, Stands, Cleaning, Labels
<1> QED
  BY <1>2, <1>4, <1>5, <1>6, RequestStep, StoreKept DEF Clean

\* At last it deletes the session of the id.
LEMMA CleanSessionInv ==
    ASSUME SessionInv, NEW r \in Requests, CleanSession(r)
    PROVE  SessionInv'
<1> USE DEF history
<1>1. pc[r] = "clean_session" /\ RequestOk("clean_session", then[r], req[r], z[r], ref[r], out[r])
  BY Here DEF CleanSession
<1>2. sess' \in [Ids -> Sessions] /\ StoredOwned'
  BY SessionDrop DEF CleanSession, DropSession
<1>3. StepOf(r, "reply", then[r], req[r], z[r], ref[r], out[r])
  BY DEF CleanSession, Goto, StepOf, SessionInv, TypeOK
<1>4. RequestOk("reply", then[r], req[r], z[r], ref[r], out[r])
  BY <1>1 DEF RequestOk, RefOwned, Stands, Cleaning, Labels
<1> QED
  BY <1>2, <1>3, <1>4, RequestStep, StoreKept DEF CleanSession

\* The response is delivered; nothing of the request is left.
LEMMA ReplyInv ==
    ASSUME SessionInv, NEW r \in Requests, Reply(r)
    PROVE  SessionInv'
<1> USE DEF history
<1>1. StepOf(r, "idle", "reply", NoRequest, EmptyZ, NoId, Keep)
  BY DEF Reply, Goto, StepOf
<1>2. CopyOwned(EmptyZ) /\ NoRequest \in ReqTypes
  BY EmptyFacts, IdFacts DEF CopyOwned, SessionInv, TypeOK, NoRequest, ReqTypes
<1>3. RequestOk("idle", "reply", NoRequest, EmptyZ, NoId, Keep)
  BY <1>2, EmptyFacts, IdFacts
     DEF RequestOk, RefOwned, Stands, Cleaning, Labels, ThenTypes, SessionInv, TypeOK, NoRequest
<1>4. cookie' \in [Browsers -> AnyId]
  BY DEF Reply, CookieAfter, SessionInv, TypeOK
<1> QED
  BY <1>1, <1>3, <1>4, RequestStep, StoreKept DEF Reply

\* A login: the presented session is dropped, the copy is a new session with
\* a new id, and nobody knew that id before.
LEMMA ResetInv ==
    ASSUME SessionInv, NEW r \in Requests, Reset(r)
    PROVE  SessionInv'
<1> USE IdFacts
<1> DEFINE n == last + 1
           q == req[r]
           y == ResetZ(r)
           d == NewSession(q.target)
<1>1. /\ pc[r] = "route" /\ q.op = "login" /\ q.target \in Keys /\ q \in ReqTypes
      /\ RequestOk("route", then[r], q, z[r], ref[r], out[r])
  BY Here DEF Reset, RequestOk, Stands
<1>2. last \in Nat /\ n \in Ids /\ n = last + 1 /\ now \in Nat
  <2>1. last \in AnyId /\ last < MaxId /\ now \in Nat
    BY DEF Reset, SessionInv, TypeOK
  <2>2. last \in Nat
    BY <2>1
  <2> QED
    BY <2>1, <2>2
<1>3. /\ last' = n /\ owner' = [owner EXCEPT ![n] = <<UserOf(q.target), q.browser>>]
      /\ pc' = [pc EXCEPT ![r] = "save_sid"] /\ z' = [z EXCEPT ![r] = y]
      /\ used' = [used EXCEPT ![n] = now]
      /\ sess' \in {sess, [sess EXCEPT ![z[r].id] = NoSession]}
      /\ UNCHANGED <<setting, index, cookie, now, then, req, ref, out>>
  BY DEF Reset, DropSession, Goto
<1>4. /\ Keys' = Keys /\ Requests' = Requests /\ Browsers' = Browsers
      /\ Sessions' = Sessions /\ ReqTypes' = ReqTypes
  BY <1>3, SameSetting
<1>5. d \in Sessions /\ d.user = UserOf(q.target) /\ KeysOfUser(d) /\ d # NoSession
  <2>1. /\ UserOf(q.target) \in Users /\ UserOf(q.target) # NoUser
        /\ SubOf(UserOf(q.target)) \in Keys /\ UserOf(SubOf(UserOf(q.target))) = UserOf(q.target)
    BY <1>1, KeyFacts
  <2>2. now + Interval \in Nat /\ now + MaxDuration \in Nat
    BY <1>2, SettingFacts DEF SessionInv, TypeOK
  <2>3. d \in Sessions /\ d.user = UserOf(q.target) /\ KeysOfUser(d)
    BY <1>1, <2>1, <2>2 DEF NewSession, Sessions, KeysOfUser
  <2> QED
    BY <2>1, <2>3, EmptyFacts
<1>6. y = [id |-> n, data |-> d, open |-> TRUE]
  BY DEF ResetZ
<1>7. /\ owner' \in [Ids -> Keys \cup {NoKey}]
      /\ UserOf(owner'[n]) = UserOf(q.target)
      /\ \A i \in Ids : i <= last => owner'[i] = owner[i]
  <2>1. <<UserOf(q.target), q.browser>> \in Keys /\ UserOf(<<UserOf(q.target), q.browser>>) = UserOf(q.target)
    BY <1>1, KeyFacts DEF ReqTypes
  <2> QED
    BY <1>2, <1>3, <2>1 DEF SessionInv, TypeOK
<1> HIDE DEF n, q, y, d
<1>new. n \in AnyId /\ n # NoId /\ n <= n
  BY <1>2
<1>old. ASSUME NEW i \in AnyId, i <= last PROVE i <= n
  <2>1. i \in Nat
    OBVIOUS
  <2> QED
    BY <1>2, <1>old, <2>1
<1>8. TypeOK'
  <2>1. z' \in [Requests -> [id : AnyId, data : Sessions, open : BOOLEAN]]
    BY <1>2, <1>3, <1>5, <1>6 DEF SessionInv, TypeOK
  <2>2. sess' \in [Ids -> Sessions] /\ last' \in AnyId /\ used' \in [Ids -> Nat]
    BY <1>2, <1>3, EmptyFacts DEF SessionInv, TypeOK
  <2>3. pc' \in [Requests -> Labels]
    BY <1>3 DEF SessionInv, TypeOK, Labels
  <2> QED
    BY <1>3, <1>4, <1>7, <2>1, <2>2, <2>3 DEF SessionInv, TypeOK
<1>9. StoredOwned'
  BY <1>2, <1>3, <1>7 DEF SessionInv, TypeOK, StoredOwned
<1>10. IndexOwned'
  BY <1>2, <1>3, <1>4, <1>7 DEF SessionInv, TypeOK, IndexOwned
<1>11. ASSUME NEW s \in Requests
       PROVE  RequestOk(pc[s], then[s], req[s], z[s], ref[s], out[s])'
  <2>1. CASE s = r
    <3>1. pc'[s] = "save_sid" /\ z'[s] = y /\ then'[s] = then[r] /\ req'[s] = q /\ ref'[s] = ref[r]
          /\ out'[s] = out[r]
      BY <1>3, <2>1 DEF SessionInv, TypeOK, q
    <3>2. z'[s] \in [id : AnyId, data : Sessions, open : BOOLEAN] /\ CopyOwned(z[s])'
      <4>1. z'[s].id = n /\ z'[s].data = d /\ z'[s].open = TRUE
        BY <1>6, <3>1
      <4>2. z'[s] \in [id : AnyId, data : Sessions, open : BOOLEAN]
        BY <1>5, <1>6, <1>new, <3>1
      <4> QED
        BY <1>3, <1>5, <1>7, <1>new, <4>1, <4>2 DEF CopyOwned
    <3>3. RefOwned(pc[s], then[s], req[s], ref[s])'
      <4>1. ref[r] <= n
        BY <1>1, <1>old DEF RequestOk, RefOwned
      <4> QED
        BY <1>3, <3>1, <4>1 DEF RefOwned, Cleaning
    <3>4. Stands(pc[s], then[s], req[s], z[s])'
      BY <1>1, <1>4, <1>5, <1>6, <3>1 DEF RequestOk, Stands, Cleaning
    <3> QED
      BY <1>1, <1>4, <3>1, <3>2, <3>3, <3>4 DEF RequestOk, Labels
  <2>2. CASE s # r
    <3>1. pc'[s] = pc[s] /\ z'[s] = z[s] /\ then'[s] = then[s] /\ req'[s] = req[s] /\ ref'[s] = ref[s]
          /\ out'[s] = out[s]
      BY <1>3, <2>2 DEF SessionInv, TypeOK
    <3>2. RequestOk(pc[s], then[s], req[s], z[s], ref[s], out[s])
      BY Here
    <3>3. CopyOwned(z[s])'
      BY <1>2, <1>3, <1>7, <3>1, <3>2 DEF RequestOk, CopyOwned
    <3>4. RefOwned(pc[s], then[s], req[s], ref[s])'
      BY <1>2, <1>3, <1>7, <3>1, <3>2 DEF RequestOk, RefOwned
    <3>5. Stands(pc[s], then[s], req[s], z[s])'
      BY <1>4, <3>1, <3>2 DEF RequestOk, Stands
    <3> QED
      BY <1>4, <3>1, <3>2, <3>3, <3>4, <3>5 DEF RequestOk
  <2> QED
    BY <2>1, <2>2
<1>12. RequestsOk'
  BY <1>4, <1>11 DEF RequestsOk
<1> QED
  BY <1>8, <1>9, <1>10, <1>12 DEF SessionInv

-----------------------------------------------------------------------------
(* The steps of the cache and of the clock.                                 *)

\* Revoked and evicted sessions, evicted index entries.
LEMMA StoreStepInv ==
    ASSUME SessionInv, UNCHANGED <<setting, cookie, last, pc, then, req, z, ref, out, owner, used>>,
           sess' \in [Ids -> Sessions], StoredOwned',
           index' \in [Keys -> [id : AnyId, expires : Nat]], IndexOwned', now' \in Nat
    PROVE  SessionInv'
<1>1. /\ Keys' = Keys /\ Requests' = Requests /\ Browsers' = Browsers
      /\ Sessions' = Sessions /\ ReqTypes' = ReqTypes
  BY SameSetting
<1>2. TypeOK'
  BY <1>1 DEF SessionInv, TypeOK
<1>3. RequestsOk'
  BY <1>1 DEF SessionInv, RequestsOk, RequestOk, CopyOwned, RefOwned, Stands
<1> QED
  BY <1>2, <1>3 DEF SessionInv

LEMMA EvictInv ==
    ASSUME SessionInv, Evict \/ \E r \in Requests : Revoke(r)
    PROVE  SessionInv'
<1> USE DEF history
<1>1. UNCHANGED <<setting, cookie, now, last, pc, then, req, z, ref, out, owner, used>>
  BY DEF Evict, Revoke
<1>2. CASE \E i \in Ids : DropSession(i) /\ UNCHANGED index
  <2>1. PICK i \in Ids : sess' \in {sess, [sess EXCEPT ![i] = NoSession]} /\ UNCHANGED index
    BY <1>2 DEF DropSession
  <2> QED
    BY <1>1, <2>1, SessionDrop, StoreKept, StoreStepInv
<1>3. CASE \E k \in Keys : index' = [index EXCEPT ![k] = NoIndex] /\ UNCHANGED sess
  <2>1. PICK k \in Keys : SetIndex(k, NoIndex) /\ UNCHANGED sess
    BY <1>3 DEF SetIndex
  <2> QED
    BY <1>1, <2>1, IndexWrite, EmptyFacts, StoreKept, StoreStepInv
<1> QED
  BY <1>2, <1>3 DEF Evict, Revoke, DropSession

LEMMA TickInv == ASSUME SessionInv, Tick PROVE SessionInv'
<1> USE DEF history
<1>1. now' \in Nat
  BY DEF Tick, SessionInv, TypeOK
<1> QED
  BY <1>1, StoreKept, StoreStepInv DEF Tick

\* The invariant is inductive.
THEOREM SessionInvariance == Spec => []SessionInv
<1>1. Init => SessionInv
  BY SessionInitInv
<1>2. SessionInv /\ [Next]_vars => SessionInv'
  <2> SUFFICES ASSUME SessionInv, [Next]_vars PROVE SessionInv'
    OBVIOUS
  <2>1. CASE Evict \/ Tick
    BY <2>1, EvictInv, TickInv
  <2>2. ASSUME NEW r \in Requests,
               \/ BrowserRequest(r) \/ BackChannelRequest(r) \/ Revoke(r)
               \/ LoadFound(r) \/ LoadMissing(r) \/ Extract(r)
               \/ SaveSid(r) \/ SaveSub(r) \/ SaveSession(r)
        PROVE  SessionInv'
    BY <2>2, ArrivesInv, EvictInv, LoadInv, ExtractInv, SaveIndexInv, SaveSessionInv
  <2>3. ASSUME NEW r \in Requests,
               \/ KillSid(r) \/ KillSubRead(r) \/ KillSub(r) \/ KillSession(r)
               \/ Unauthenticated(r) \/ ServeEnds(r) \/ Serve(r) \/ Reset(r) \/ Logout(r)
        PROVE  SessionInv'
    BY <2>3, KillIndexInv, KillSubReadInv, KillSessionInv, RouteInv, ServeInv, ResetInv
  <2>4. ASSUME NEW r \in Requests,
               \/ Lookup(r) \/ Fetch(r) \/ CleanKey(r) \/ CleanSid(r) \/ CleanSub(r) \/ CleanSession(r)
               \/ Reply(r)
        PROVE  SessionInv'
    BY <2>4, LookupInv, FetchInv, CleanIndexInv, CleanSessionInv, ReplyInv
  <2>5. CASE UNCHANGED vars
    BY <2>5, StoreKept, StoreStepInv DEF vars
  <2> QED
    BY <2>1, <2>2, <2>3, <2>4, <2>5 DEF Next
<1> QED
  BY <1>1, <1>2, PTL DEF Spec

\* A session id belongs to one login for ever: nobody's session is stored
\* under the id of another user's session (oidc_session_reset and late saves).
THEOREM OneUser == Spec => []OneUserPerId
<1>1. SessionInv => OneUserPerId
  BY DEF SessionInv, StoredOwned, OneUserPerId
<1> QED
  BY <1>1, SessionInvariance, PTL

\* A logout call of the OP ends only sessions of the user it names, for every
\* id that oidc_logout_cleanup_by_sid takes from the index.
THEOREM LogoutHits == Spec => []LogoutHitsItsUser
<1>1. SessionInv => LogoutHitsItsUser
  <2> SUFFICES ASSUME SessionInv PROVE LogoutHitsItsUser
    OBVIOUS
  <2>1. ASSUME NEW k \in Keys, index[k].id # NoId, sess[index[k].id] # NoSession
        PROVE  sess[index[k].id].user = UserOf(k)
    BY <2>1, IdFacts DEF SessionInv, TypeOK, StoredOwned, IndexOwned
  <2>2. ASSUME NEW r \in Requests, pc[r] \in {"fetch", "clean_session"}, sess[ref[r]] # NoSession
        PROVE  sess[ref[r]].user = UserOf(req[r].target)
    BY <2>2, Here, IdFacts DEF SessionInv, StoredOwned, RequestOk, RefOwned, Cleaning
  <2> QED
    BY <2>1, <2>2 DEF LogoutHitsItsUser
<1> QED
  BY <1>1, SessionInvariance, PTL
-----------------------------------------------------------------------------
(* The inactivity timeout, where requests are handled one after the other. *)

\* The remaining life of a session of id i is right for its last use.
Window(d, i) ==
    /\ d.expiry <= used[i] + Interval
    /\ d.expiry + Slack >= used[i] + Interval

\* Between its last use and its save a session is older than it should be,
\* in the cache and not in the copy of the request that will save it.
Saving(r) == pc[r] \in {"save_sid", "save_sub", "save_session"}

CopyInWindow(r) ==
    /\ pc[r] \in {"idle", "load"} => z[r].data = NoSession
    /\ pc[r] \in {"extract", "route"} /\ z[r].data # NoSession =>
         /\ Window(z[r].data, z[r].id)
         /\ sess[z[r].id] # NoSession => sess[z[r].id].expiry = z[r].data.expiry
    /\ Saving(r) => z[r].id \in Ids /\ z[r].data # NoSession /\ Window(z[r].data, z[r].id)

StoredInWindow(i) ==
    sess[i] # NoSession => Window(sess[i], i) \/ \E r \in Requests : Saving(r) /\ z[r].id = i

WindowInv ==
    /\ \A i \in Ids : used[i] <= now /\ StoredInWindow(i)
    /\ \A r \in Requests : CopyInWindow(r)

\* One request at a time, and the cache does not fail to store a session.
OneByOne == (\E r : Requests = {r}) /\ "set" \notin Faults

LEMMA SlackFacts == ASSUME setting \in Settings PROVE Slack \in Nat
<1>1. Interval \div 10 \in Nat
  BY SettingFacts
<1> QED
  BY <1>1, BoundsAssumption DEF Slack

LEMMA WindowInit == Init => WindowInv
  BY EmptyFacts DEF Init, WindowInv, StoredInWindow, CopyInWindow, Saving

\* A step that leaves the times of use alone and stores no session keeps
\* what is stored in its window, if the request that saves goes on saving.
LEMMA StoredKept ==
    ASSUME SessionInv, WindowInv, setting' = setting, used' = used, now' = now,
           \A i \in Ids : sess'[i] = sess[i] \/ sess'[i] = NoSession,
           \A r \in Requests : Saving(r) => Saving(r)' /\ z'[r] = z[r]
    PROVE  \A i \in Ids : used'[i] <= now' /\ StoredInWindow(i)'
<1> SUFFICES ASSUME NEW i \in Ids
             PROVE  used'[i] <= now' /\ StoredInWindow(i)'
  OBVIOUS
<1>0. used'[i] <= now'
  BY DEF WindowInv
<1> SUFFICES ASSUME sess'[i] # NoSession
             PROVE  Window(sess[i], i)' \/ \E r \in Requests : Saving(r)' /\ z'[r].id = i
  BY <1>0, SameSetting DEF StoredInWindow
<1>1. sess'[i] = sess[i] /\ used[i] <= now /\ StoredInWindow(i)
  BY DEF WindowInv
<1>2. CASE Window(sess[i], i)
  BY <1>1, <1>2 DEF Window, Interval, Slack
<1>3. CASE \E r \in Requests : Saving(r) /\ z[r].id = i
  BY <1>1, <1>3
<1> QED
  BY <1>1, <1>2, <1>3 DEF StoredInWindow

\* With one request the invariant is about its copy and about the store.
LEMMA WindowParts ==
    ASSUME OneByOne, NEW r \in Requests, setting' = setting, CopyInWindow(r)',
           \A i \in Ids : used'[i] <= now' /\ StoredInWindow(i)'
    PROVE  WindowInv'
  BY SameSetting DEF WindowInv, OneByOne

\* Steps after which the request neither has a session to serve nor saves one.
LEMMA QuietWindow ==
    ASSUME SessionInv, WindowInv, OneByOne, NEW r \in Requests,
           \/ BrowserRequest(r) \/ BackChannelRequest(r) \/ Lookup(r)
           \/ CleanKey(r) \/ CleanSid(r) \/ CleanSub(r) \/ CleanSession(r)
           \/ KillSid(r) \/ KillSubRead(r) \/ KillSub(r) \/ KillSession(r)
           \/ Unauthenticated(r) \/ ServeEnds(r) \/ Logout(r) \/ Reply(r)
           \/ Revoke(r) \/ LoadMissing(r)
    PROVE  WindowInv'
<1> USE Here
<1>0. r \in DOMAIN pc /\ r \in DOMAIN z /\ CopyInWindow(r)
  BY DEF SessionInv, TypeOK, WindowInv
<1>1. /\ setting' = setting /\ used' = used /\ now' = now
      /\ \A i \in Ids : sess'[i] = sess[i] \/ sess'[i] = NoSession
  <2>0. sess \in [Ids -> Sessions]
    BY DEF SessionInv, TypeOK
  <2>1. ASSUME sess' = sess \/ \E i \in AnyId : DropSession(i)
        PROVE  \A i \in Ids : sess'[i] = sess[i] \/ sess'[i] = NoSession
    BY <2>0, <2>1 DEF DropSession
  <2>2. CASE \/ BrowserRequest(r) \/ BackChannelRequest(r) \/ Lookup(r)
             \/ Unauthenticated(r) \/ ServeEnds(r) \/ Logout(r) \/ Reply(r) \/ LoadMissing(r)
             \/ KillSubRead(r)
    BY <2>2 DEF BrowserRequest, BackChannelRequest, Lookup, Unauthenticated, ServeEnds, Logout, Reply,
       LoadMissing, KillSubRead, store, history
  <2>3. CASE \/ CleanKey(r) \/ CleanSid(r) \/ CleanSub(r) \/ KillSid(r) \/ KillSub(r)
    BY <2>3 DEF CleanKey, CleanSid, CleanSub, Clean, KillSid, KillSub, history
  <2>4. CASE CleanSession(r) \/ KillSession(r) \/ Revoke(r)
    <3>1. ref[r] \in AnyId /\ z[r].id \in AnyId /\ Ids \subseteq AnyId
      BY IdFacts DEF SessionInv, TypeOK
    <3>2. sess' = sess \/ \E i \in AnyId : DropSession(i)
      BY <2>4, <3>1 DEF CleanSession, KillSession, Revoke
    <3> QED
      BY <2>1, <2>4, <3>2 DEF CleanSession, KillSession, Revoke, history
  <2> QED
    BY <2>2, <2>3, <2>4
<1>2. ~Saving(r)
  BY DEF Saving, BrowserRequest, BackChannelRequest, Lookup, CleanKey, CleanSid, CleanSub, CleanSession,
     KillSid, KillSubRead, KillSub, KillSession, Unauthenticated, ServeEnds, Logout, Reply, Revoke, LoadMissing
<1>3. \A i \in Ids : used'[i] <= now' /\ StoredInWindow(i)'
  BY <1>1, <1>2, StoredKept DEF OneByOne
<1>4. \/ pc'[r] \notin {"idle", "load", "extract", "route", "save_sid", "save_sub", "save_session"}
      \/ pc'[r] \in {"idle", "load", "route"} /\ z'[r].data = NoSession
  <2>1. CASE \/ BackChannelRequest(r) \/ Lookup(r) \/ CleanKey(r) \/ CleanSid(r) \/ CleanSub(r)
             \/ CleanSession(r) \/ KillSid(r) \/ KillSubRead(r) \/ KillSub(r) \/ Unauthenticated(r)
             \/ ServeEnds(r) \/ Logout(r)
    BY <2>1, <1>0 DEF BackChannelRequest, Lookup, CleanKey, CleanSid, CleanSub, CleanSession,
       KillSid, KillSubRead, KillSub, Unauthenticated, ServeEnds, Logout, Kill, Goto
  <2>2. CASE BrowserRequest(r) \/ Revoke(r) \/ LoadMissing(r)
    BY <2>2, <1>0 DEF BrowserRequest, Revoke, LoadMissing, Goto, CopyInWindow
  <2>3. CASE Reply(r)
    BY <2>3, <1>0, EmptyFacts DEF Reply, Goto
  <2>4. CASE KillSession(r)
    <3>1. then[r] \in ThenTypes
      BY DEF SessionInv, TypeOK, ThenTypes
    <3>2. z'[r].data = NoSession
      BY <2>4, <1>0 DEF KillSession, EmptyZ
    <3> QED
      BY <2>4, <1>0, <3>1, <3>2 DEF KillSession, Goto, ThenTypes
  <2> QED
    BY <2>1, <2>2, <2>3, <2>4
<1>5. CopyInWindow(r)'
  BY <1>4 DEF CopyInWindow, Saving
<1> QED
  BY <1>1, <1>3, <1>5, WindowParts

\* A session that a request or a logout call loads is in its window.
LEMMA LoadedWindow ==
    ASSUME SessionInv, WindowInv, OneByOne, NEW r \in Requests, LoadFound(r) \/ Fetch(r)
    PROVE  WindowInv'
<1> USE Here
<1>0. r \in DOMAIN pc /\ r \in DOMAIN z /\ CopyInWindow(r) /\ req[r].sent \in AnyId /\ ref[r] \in AnyId
  BY DEF SessionInv, TypeOK, WindowInv
<1>1. setting' = setting /\ used' = used /\ now' = now /\ sess' = sess
  BY DEF LoadFound, Fetch, store, history
<1>2. ~Saving(r)
  BY DEF Saving, LoadFound, Fetch
<1>3. \A i \in Ids : used'[i] <= now' /\ StoredInWindow(i)'
  BY <1>1, <1>2, StoredKept DEF OneByOne
<1>4. CASE pc'[r] = "clean_key"
  <2>1. CopyInWindow(r)'
    BY <1>4 DEF CopyInWindow, Saving
  <2> QED
    BY <1>1, <1>3, <2>1, WindowParts
<1>5. ASSUME NEW i \in AnyId, GetSession(i) # NoSession, z'[r] = Opened(i), pc'[r] = "extract"
      PROVE  WindowInv'
  <2>1. i \in Ids /\ sess[i] = GetSession(i) /\ sess[i] # NoSession
    BY <1>5 DEF GetSession
  <2>2. Window(sess[i], i)
    BY <2>1, <1>2 DEF WindowInv, StoredInWindow, OneByOne
  <2>3. z'[r].id = i /\ z'[r].data = sess[i]
    BY <1>5, <2>1 DEF Opened
  <2>4. Window(z[r].data, z[r].id)'
    BY <2>2, <2>3, <1>1 DEF Window, Interval, Slack
  <2>5. CopyInWindow(r)'
    BY <2>3, <2>4, <1>1, <1>5 DEF CopyInWindow, Saving
  <2> QED
    BY <1>1, <1>3, <2>5, WindowParts
<1> QED
  BY <1>0, <1>4, <1>5 DEF LoadFound, Fetch, Goto

\* The copy stays in its window while it is taken apart and while the index
\* entries are saved.
LEMMA KeptWindow ==
    ASSUME SessionInv, WindowInv, OneByOne, NEW r \in Requests, Extract(r) \/ SaveSid(r) \/ SaveSub(r)
    PROVE  WindowInv'
<1> USE Here
<1>0. /\ r \in DOMAIN pc /\ r \in DOMAIN z /\ CopyInWindow(r) /\ then[r] \in ThenTypes
      /\ z[r] \in [id : AnyId, data : Sessions, open : BOOLEAN]
  BY DEF SessionInv, TypeOK, WindowInv, ThenTypes
<1>1. setting' = setting /\ used' = used /\ now' = now /\ sess' = sess
  BY DEF Extract, SaveSid, SaveSub, SaveIndex, store, history
<1>2. z'[r].id = z[r].id /\ z'[r].data = z[r].data
  BY <1>0 DEF Extract, SaveSid, SaveSub, SaveIndex
<1>3. Saving(r) => Saving(r)' /\ z'[r] = z[r]
  BY <1>0 DEF Extract, SaveSid, SaveSub, SaveIndex, Saving, Goto
<1>4. \A i \in Ids : used'[i] <= now' /\ StoredInWindow(i)'
  BY <1>1, <1>3, StoredKept DEF OneByOne
<1>5. Window(z[r].data, z[r].id) => Window(z[r].data, z[r].id)'
  BY <1>1, <1>2 DEF Window, Interval, Slack
<1>6. CASE Extract(r)
  <2>1. pc'[r] \in {"kill_sid", "route", "lookup", "clean_key", "reply"} /\ pc[r] = "extract"
    BY <1>0, <1>6 DEF Extract, Goto, ThenTypes
  <2>2. CopyInWindow(r)'
    BY <2>1, <1>0, <1>1, <1>2, <1>5 DEF CopyInWindow, Saving
  <2> QED
    BY <1>1, <1>4, <2>2, WindowParts
<1>7. CASE SaveSid(r) \/ SaveSub(r)
  <2>1. Saving(r) /\ Saving(r)' /\ pc'[r] \in {"save_sub", "save_session"}
    BY <1>0, <1>7 DEF SaveSid, SaveSub, Goto, Saving
  <2>2. CopyInWindow(r)'
    BY <2>1, <1>0, <1>2, <1>5 DEF CopyInWindow
  <2> QED
    BY <1>1, <1>4, <2>2, WindowParts
<1> QED
  BY <1>6, <1>7

\* The save brings the stored session to where the copy is.
LEMMA SavedWindow ==
    ASSUME SessionInv, WindowInv, OneByOne, NEW r \in Requests, SaveSession(r)
    PROVE  WindowInv'
<1> USE Here
<1>0. /\ r \in DOMAIN pc /\ r \in DOMAIN z /\ CopyInWindow(r)
      /\ sess \in [Ids -> Sessions] /\ Saving(r)
  BY DEF SessionInv, TypeOK, WindowInv, SaveSession, Saving
<1>1. setting' = setting /\ used' = used /\ now' = now /\ pc'[r] = "reply"
  BY <1>0 DEF SaveSession, history, Goto
<1>2. /\ sess' = [sess EXCEPT ![z[r].id] = z[r].data]
      /\ z[r].id \in Ids /\ Window(z[r].data, z[r].id)
  BY <1>0 DEF SaveSession, OneByOne, CopyInWindow
<1>3. ASSUME NEW i \in Ids PROVE used'[i] <= now' /\ StoredInWindow(i)'
  <2>1. used'[i] <= now'
    BY <1>1 DEF WindowInv
  <2>2. CASE i = z[r].id
    <3>1. sess'[i] = z[r].data
      BY <2>2, <1>2, <1>0
    <3>2. Window(sess[i], i)'
      BY <3>1, <2>2, <1>1, <1>2 DEF Window, Interval, Slack
    <3> QED
      BY <2>1, <3>2 DEF StoredInWindow
  <2>3. CASE i # z[r].id
    <3>1. sess'[i] = sess[i]
      BY <2>3, <1>2, <1>0
    <3>2. sess[i] # NoSession => Window(sess[i], i)
      BY <2>3 DEF WindowInv, StoredInWindow, OneByOne
    <3>3. sess[i] # NoSession => Window(sess[i], i)'
      BY <3>1, <3>2, <1>1 DEF Window, Interval, Slack
    <3> QED
      BY <2>1, <3>1, <3>3 DEF StoredInWindow
  <2> QED
    BY <2>2, <2>3
<1>4. CopyInWindow(r)'
  BY <1>1 DEF CopyInWindow, Saving
<1> QED
  BY <1>1, <1>3, <1>4, WindowParts

\* A request that uses a session moves its window, and saves the session
\* unless it is in the new window already.
LEMMA ServedWindow ==
    ASSUME SessionInv, WindowInv, OneByOne, NEW r \in Requests, Serve(r)
    PROVE  WindowInv'
<1> USE Here
<1> DEFINE i == z[r].id
           d == z[r].data
<1>0. /\ r \in DOMAIN pc /\ r \in DOMAIN z /\ CopyInWindow(r)
      /\ z[r] \in [id : AnyId, data : Sessions, open : BOOLEAN]
      /\ now \in Nat /\ used \in [Ids -> Nat] /\ setting \in Settings
      /\ sess \in [Ids -> Sessions]
  BY DEF SessionInv, TypeOK, WindowInv
<1>1. pc[r] = "route" /\ d # NoSession /\ i \in Ids
  BY <1>0, IdFacts DEF Serve, RequestOk, Stands, CopyOwned
<1>2. Interval \in Nat /\ Slack \in Nat /\ d.expiry \in Nat /\ used[i] \in Nat /\ used[i] <= now
  BY <1>0, <1>1, SettingFacts, SlackFacts DEF WindowInv, Sessions
<1>3. setting' = setting /\ now' = now /\ sess' = sess /\ used' = [used EXCEPT ![i] = now]
  BY DEF Serve, store
<1>4. Interval' = Interval /\ Slack' = Slack
  BY <1>3 DEF Interval, Slack
<1>5. /\ z'[r].id = i
      /\ z'[r].data # NoSession
      /\ z'[r].data.expiry = IF Extends(d.expiry) THEN now + Interval ELSE d.expiry
  <2>1. z'[r] = [z[r] EXCEPT !.data = [d EXCEPT !.expiry = IF Extends(@) THEN now + Interval ELSE @,
                                                 !.new = FALSE]]
    BY <1>0 DEF Serve
  <2>2. d \in Sessions
    BY <1>0
  <2>3. z'[r].data.user = d.user
    BY <2>1, <2>2, <1>0 DEF Sessions
  <2>4. d.user # NoUser
    BY <1>0, <1>1 DEF RequestOk, CopyOwned, KeysOfUser
  <2> QED
    BY <1>0, <2>1, <2>2, <2>3, <2>4, EmptyFacts DEF Sessions
<1>6. used'[i] = now
  BY <1>0, <1>1, <1>3
<1>7. d.expiry <= used[i] + Interval
  BY <1>0, <1>1 DEF CopyInWindow, Window
<1>8. Window(z[r].data, z[r].id)'
  <2>1. CASE Extends(d.expiry)
    <3>1. z'[r].data.expiry = now + Interval
      BY <2>1, <1>5
    <3> QED
      BY <3>1, <1>0, <1>2, <1>4, <1>5, <1>6 DEF Window
  <2>2. CASE ~Extends(d.expiry)
    <3>1. z'[r].data.expiry = d.expiry
      BY <2>2, <1>5
    <3>2. d.expiry + Slack >= now + Interval
      BY <2>2, <1>0, <1>2 DEF Extends
    <3> QED
      BY <3>1, <3>2, <1>0, <1>2, <1>4, <1>5, <1>6, <1>7 DEF Window
  <2> QED
    BY <2>1, <2>2
<1>9. \/ pc'[r] = "save_sid"
      \/ pc'[r] = "reply" /\ ~Extends(d.expiry)
  BY <1>0 DEF Serve, Goto
<1>10. CopyInWindow(r)'
  BY <1>1, <1>5, <1>8, <1>9 DEF CopyInWindow, Saving
<1>11. ASSUME NEW j \in Ids PROVE used'[j] <= now' /\ StoredInWindow(j)'
  <2>1. used'[j] <= now'
    BY <1>0, <1>3 DEF WindowInv
  <2>2. CASE j = i
    <3>1. CASE pc'[r] = "save_sid"
      BY <2>1, <2>2, <3>1, <1>3, <1>5, SameSetting DEF StoredInWindow, Saving
    <3>2. CASE pc'[r] = "reply" /\ ~Extends(d.expiry)
      <4>1. sess[i] # NoSession => sess[i].expiry = z'[r].data.expiry
        BY <3>2, <1>0, <1>1, <1>5 DEF CopyInWindow
      <4>2. sess[i] # NoSession => Window(sess[j], j)'
        BY <4>1, <2>2, <1>3, <1>5, <1>8 DEF Window
      <4> QED
        BY <4>2, <2>1, <2>2, <1>3 DEF StoredInWindow
    <3> QED
      BY <1>9, <3>1, <3>2
  <2>3. CASE j # i
    <3>1. used'[j] = used[j]
      BY <2>3, <1>0, <1>3
    <3>2. sess[j] # NoSession => Window(sess[j], j)
      BY <1>1 DEF WindowInv, StoredInWindow, OneByOne, Saving
    <3>3. sess[j] # NoSession => Window(sess[j], j)'
      BY <3>1, <3>2, <1>3, <1>4 DEF Window
    <3> QED
      BY <2>1, <3>3, <1>3 DEF StoredInWindow
  <2> QED
    BY <2>2, <2>3
<1> QED
  BY <1>3, <1>10, <1>11, WindowParts

\* A login starts a window, and will save its session.
LEMMA ResetWindow ==
    ASSUME SessionInv, WindowInv, OneByOne, NEW r \in Requests, Reset(r)
    PROVE  WindowInv'
<1> USE Here
<1> DEFINE i == last + 1
<1>0. /\ r \in DOMAIN pc /\ r \in DOMAIN z
      /\ now \in Nat /\ used \in [Ids -> Nat] /\ setting \in Settings
      /\ sess \in [Ids -> Sessions] /\ z[r].id \in AnyId /\ last \in AnyId
  BY DEF SessionInv, TypeOK
<1>1. i \in Ids /\ pc[r] = "route"
  BY <1>0, IdFacts DEF Reset
<1>2. Interval \in Nat /\ Slack \in Nat /\ req[r].target \in Keys
  BY <1>0, SettingFacts, SlackFacts DEF Reset, RequestOk, Stands
<1>3. setting' = setting /\ now' = now /\ used' = [used EXCEPT ![i] = now] /\ pc'[r] = "save_sid"
  BY <1>0 DEF Reset, Goto
<1>4. Interval' = Interval /\ Slack' = Slack
  BY <1>3 DEF Interval, Slack
<1>5. /\ z'[r].id = i /\ z'[r].data # NoSession
      /\ z'[r].data.expiry = now + Interval
  <2>1. z'[r] = ResetZ(r)
    BY <1>0 DEF Reset
  <2>2. z'[r].data.user # NoUser
    BY <2>1, <1>2, KeyFacts DEF ResetZ, NewSession
  <2> QED
    BY <2>1, <2>2, EmptyFacts DEF ResetZ, NewSession
<1>6. used'[i] = now
  BY <1>0, <1>1, <1>3
<1>7. Window(z[r].data, z[r].id)'
  BY <1>0, <1>2, <1>4, <1>5, <1>6 DEF Window
<1>8. CopyInWindow(r)'
  BY <1>1, <1>3, <1>5, <1>7 DEF CopyInWindow, Saving
<1>9. ASSUME NEW j \in Ids PROVE used'[j] <= now' /\ StoredInWindow(j)'
  <2>1. used'[j] <= now'
    BY <1>0, <1>3 DEF WindowInv
  <2>2. CASE j = i
    BY <2>1, <2>2, <1>3, <1>5, SameSetting DEF StoredInWindow, Saving
  <2>3. CASE j # i
    <3>1. used'[j] = used[j]
      BY <2>3, <1>0, <1>3
    <3>2. sess[j] # NoSession => Window(sess[j], j)
      BY <1>1 DEF WindowInv, StoredInWindow, OneByOne, Saving
    <3>3. sess'[j] = sess[j] \/ sess'[j] = NoSession
      BY <1>0 DEF Reset, DropSession
    <3>4. sess'[j] # NoSession => Window(sess[j], j)'
      BY <3>1, <3>2, <3>3, <1>4 DEF Window
    <3> QED
      BY <2>1, <3>4 DEF StoredInWindow
  <2> QED
    BY <2>2, <2>3
<1> QED
  BY <1>3, <1>8, <1>9, WindowParts

\* The settings never change.
LEMMA SettingStays == ASSUME [Next]_vars PROVE setting' = setting
<1>1. CASE Evict \/ Tick \/ UNCHANGED vars
  BY <1>1 DEF Evict, Tick, vars
<1>2. ASSUME NEW r \in Requests,
             \/ BrowserRequest(r) \/ BackChannelRequest(r) \/ Revoke(r)
             \/ LoadFound(r) \/ LoadMissing(r) \/ Extract(r)
             \/ SaveSid(r) \/ SaveSub(r) \/ SaveSession(r)
             \/ KillSid(r) \/ KillSubRead(r) \/ KillSub(r) \/ KillSession(r)
      PROVE  setting' = setting
  BY <1>2 DEF BrowserRequest, BackChannelRequest, Revoke, LoadFound, LoadMissing, Extract, SaveSid, SaveSub,
     SaveIndex, SaveSession, KillSid, KillSubRead, KillSub, KillSession, store
<1>3. ASSUME NEW r \in Requests,
             \/ Unauthenticated(r) \/ ServeEnds(r) \/ Serve(r) \/ Reset(r) \/ Logout(r)
             \/ Lookup(r) \/ Fetch(r) \/ CleanKey(r) \/ CleanSid(r) \/ CleanSub(r) \/ CleanSession(r)
             \/ Reply(r)
      PROVE  setting' = setting
  BY <1>3 DEF Unauthenticated, ServeEnds, Serve, Reset, Logout, Lookup, Fetch, CleanKey, CleanSid, CleanSub,
     Clean, CleanSession, Reply, store
<1> QED
  BY <1>1, <1>2, <1>3 DEF Next

\* Time passes and the cache forgets sessions: windows do not move.
LEMMA StillWindow ==
    ASSUME SessionInv, WindowInv, OneByOne, Tick \/ Evict \/ UNCHANGED vars
    PROVE  WindowInv'
<1>0. now \in Nat /\ sess \in [Ids -> Sessions] /\ used \in [Ids -> Nat]
  BY DEF SessionInv, TypeOK
<1>1. /\ setting' = setting /\ used' = used /\ pc' = pc /\ z' = z
      /\ now' \in Nat /\ now <= now'
      /\ \A i \in Ids : sess'[i] = sess[i] \/ sess'[i] = NoSession
  BY <1>0 DEF Tick, Evict, vars, history
<1>2. ASSUME NEW i \in Ids PROVE used'[i] <= now' /\ StoredInWindow(i)'
  <2>1. used'[i] <= now'
    BY <1>0, <1>1 DEF WindowInv
  <2>2. sess'[i] # NoSession => sess'[i] = sess[i] /\ StoredInWindow(i)
    BY <1>1 DEF WindowInv
  <2>3. sess'[i] # NoSession /\ Window(sess[i], i) => Window(sess[i], i)'
    BY <2>2, <1>1 DEF Window, Interval, Slack
  <2> QED
    BY <2>1, <2>2, <2>3, <1>1, SameSetting DEF StoredInWindow, Saving
<1>3. ASSUME NEW r \in Requests PROVE CopyInWindow(r)'
  <2>1. CopyInWindow(r) /\ z[r].id \in AnyId
    BY DEF WindowInv, SessionInv, TypeOK
  <2>2. Window(z[r].data, z[r].id) => Window(z[r].data, z[r].id)'
    BY <1>1 DEF Window, Interval, Slack
  <2>3. pc[r] \in {"extract", "route"} /\ z[r].data # NoSession => z[r].id \in Ids
    BY Here, IdFacts, <2>1 DEF RequestOk, CopyOwned
  <2> QED
    BY <2>1, <2>2, <2>3, <1>1 DEF CopyInWindow, Saving
<1> QED
  BY <1>1, <1>2, <1>3, SameSetting DEF WindowInv

\* The inductive invariant of the inactivity timeout.
THEOREM WindowInvariance == Spec => [](SessionInv /\ (OneByOne => WindowInv))
<1>1. Init => WindowInv
  BY WindowInit
<1>2. SessionInv /\ (OneByOne => WindowInv) /\ [Next]_vars => (OneByOne => WindowInv)'
  <2> SUFFICES ASSUME SessionInv, OneByOne => WindowInv, [Next]_vars, OneByOne' PROVE WindowInv'
    OBVIOUS
  <2>0. setting' = setting
    BY SettingStays
  <2>1. OneByOne /\ WindowInv
    BY <2>0, SameSetting DEF OneByOne, Faults
  <2>2. CASE Tick \/ Evict \/ UNCHANGED vars
    BY <2>1, <2>2, StillWindow
  <2>3. ASSUME NEW r \in Requests,
               \/ BrowserRequest(r) \/ BackChannelRequest(r) \/ Revoke(r)
               \/ LoadFound(r) \/ LoadMissing(r) \/ Extract(r)
               \/ SaveSid(r) \/ SaveSub(r) \/ SaveSession(r)
               \/ KillSid(r) \/ KillSubRead(r) \/ KillSub(r) \/ KillSession(r)
        PROVE  WindowInv'
    BY <2>1, <2>3, QuietWindow, LoadedWindow, KeptWindow, SavedWindow
  <2>4. ASSUME NEW r \in Requests,
               \/ Unauthenticated(r) \/ ServeEnds(r) \/ Serve(r) \/ Reset(r) \/ Logout(r)
               \/ Lookup(r) \/ Fetch(r) \/ CleanKey(r) \/ CleanSid(r) \/ CleanSub(r) \/ CleanSession(r)
               \/ Reply(r)
        PROVE  WindowInv'
    BY <2>1, <2>4, QuietWindow, LoadedWindow, ServedWindow, ResetWindow
  <2> QED
    BY <2>2, <2>3, <2>4 DEF Next
<1> QED
  BY <1>1, <1>2, SessionInvariance, PTL DEF Spec

\* With requests that overlap, one that loaded the session before another used
\* it may save the older expiry last; and a save that fails leaves it behind.
Solo == \A s \in Settings : (\E r : s.requests = {r}) /\ "set" \notin s.faults

\* Where requests are handled one after the other and sessions are stored, a
\* session's remaining life is the inactivity timeout counted from its last
\* use, less at most the slack (oidc_session_pass_tokens).  Index entries may
\* fail to be stored, reads may fail and entries may be evicted.
THEOREM WindowKept ==
    ASSUME Solo
    PROVE  Spec => []InactivityWindow
<1>1. SessionInv /\ (OneByOne => WindowInv) => InactivityWindow
  BY DEF Solo, SessionInv, TypeOK, OneByOne, Requests, Faults,
     WindowInv, StoredInWindow, Window, Saving, InactivityWindow
<1> QED
  BY <1>1, WindowInvariance, PTL

-----------------------------------------------------------------------------
(* Logouts, where requests are handled one after the other, the cache works *)
(* and the OP sends a sid.                                                  *)

\* What is stored under an id knows the keys of its login, and an index entry
\* is under one of them.
SubKeyOf(i) == IF BackChannel THEN SubOf(UserOf(owner[i])) ELSE NoKey
OwnKeys(d, i) == d.sid = owner[i] /\ d.sub = SubKeyOf(i)
KeysKnown ==
    /\ \A i \in Ids : i <= last => owner[i] \in Users \X Browsers
    /\ \A i \in Ids : sess[i] # NoSession => OwnKeys(sess[i], i)
    /\ \A k \in Keys : index[k].id # NoId =>
         k = owner[index[k].id] \/ (BackChannel /\ k = SubOf(UserOf(owner[index[k].id])))

\* An index entry lives as long as its session.
EntriesLast == \A k \in Keys : index[k].id # NoId => sess[index[k].id].expiry <= index[k].expires

\* The entry of a sub is not older than that of the sid of its session, except
\* between the two writes of a save.
SubFollows(r) ==
    \A k \in Keys :
        LET i == index[SubOf(UserOf(k))].id
        IN  i # NoId /\ owner[i] = k =>
                index[k].id \in {i, NoId} \/ (pc[r] = "save_sub" /\ owner[z[r].id] = k)

\* A cookie has an id of its own browser, and the sid of a session that lives
\* and that no request is about to end leads to it.
Live(i) == i \in Ids /\ sess[i].expiry > now

Leaving(r, i) ==
    \/ z[r].id = i /\ pc[r] \in {"kill_sub_read", "kill_sub", "kill_session"}
    \/ ref[r] = i /\ pc[r] \in {"clean_sid", "clean_sub", "clean_session"}

OfBrowser(i, b) == i <= last /\ owner[i] \in Users \X {b}

CookiesIndexed(r) ==
    \A b \in Browsers : cookie[b] # NoId =>
        /\ OfBrowser(cookie[b], b)
        /\ Live(cookie[b]) => index[owner[cookie[b]]].id = cookie[b] \/ Leaving(r, cookie[b])

\* What a browser sent is its cookie, and the session that is handled is the one
\* of the cookie.
Handling(r) == pc[r] \in {"extract", "route", "kill_sid", "kill_sub_read", "kill_sub", "kill_session"}
               /\ then[r] # "clean_key"
CopyOfCookie(r) ==
    /\ pc[r] # "idle" /\ req[r].op # "back" =>
         /\ req[r].browser \in Browsers
         /\ req[r].sent = cookie[req[r].browser] \/ (req[r].op = "front" /\ req[r].sent = NoId)
    /\ req[r].op = "login" => req[r].target[2] \in Browsers /\ req[r].target[2] = req[r].browser
    /\ pc[r] \in {"idle", "load"} => z[r].id = NoId /\ z[r].data = NoSession
    /\ z[r].data # NoSession => OwnKeys(z[r].data, z[r].id)
    /\ Handling(r) => /\ z[r].id \in {NoId, req[r].sent}
                      /\ req[r].op = "login" /\ Live(req[r].sent) => z[r].id = req[r].sent
    /\ Handling(r) \/ Saving(r) \/ pc[r] = "load" => req[r].op # "back"

\* A save writes the index before the session, with the expiry of the copy.
SavesInOrder(r) ==
    LET i == z[r].id
        entry == [id |-> i, expires |-> z[r].data.expiry]
    IN  /\ Saving(r) =>
             /\ i \in Ids /\ OfBrowser(i, req[r].browser) /\ z[r].data # NoSession
             /\ cookie[req[r].browser] = i \/ ~Live(cookie[req[r].browser])
             /\ sess[i].expiry <= z[r].data.expiry
        /\ pc[r] \in {"save_sub", "save_session"} => index[owner[i]] = entry
        /\ pc[r] = "save_session" /\ BackChannel => index[SubOf(UserOf(owner[i]))] = entry
        /\ out[r] \in Ids =>
             /\ pc[r] = "reply" /\ OfBrowser(out[r], req[r].browser)
             /\ Live(out[r]) => index[owner[out[r]]].id = out[r]

\* A logout call removes the entry of the key it names, and that of the sid of
\* the session it led to.
CleansAll(r) ==
    LET k == req[r].target
    IN  /\ Cleaning(pc[r], then[r]) =>
             /\ pc[r] \in {"fetch", "extract", "kill_sid", "kill_session", "clean_key"} => index[k].id = ref[r]
             /\ pc[r] # "clean_sub" /\ pc[r] # "clean_session" => index[owner[ref[r]]].id \in {ref[r], NoId}
             /\ pc[r] # "fetch" /\ z[r].data # NoSession => z[r].id = ref[r]
             /\ pc[r] \in {"extract", "kill_sid", "kill_session"} => z[r].id = ref[r]
             /\ pc[r] \in {"clean_sid", "clean_sub", "clean_session"} => index[k].id = NoId
        /\ req[r].op = "back" =>
             /\ pc[r] \in {"lookup", "reply"} \/ Cleaning(pc[r], then[r])
             /\ pc[r] = "reply" => \A b \in Browsers : Live(cookie[b]) => owner[cookie[b]] # k

\* The kill of a session has compared the entry of the sub before it deletes it.
SubCompared(r) ==
    pc[r] = "kill_sub" =>
        /\ z[r].open /\ z[r].data.sub # NoKey
        /\ MayDropSub(r) => LET i == index[z[r].data.sub].id IN i = z[r].id \/ ~Live(i)

StoreInv(r) == KeysKnown /\ EntriesLast /\ SubFollows(r) /\ CookiesIndexed(r)
RequestInv(r) == CopyOfCookie(r) /\ SavesInOrder(r) /\ CleansAll(r) /\ SubCompared(r)
LogoutInv == \A r \in Requests : StoreInv(r) /\ RequestInv(r)

\* One request at a time, a cache that works, and an OP that sends a sid.
Alone(r) == Requests = {r} /\ Faults \subseteq {"refresh"} /\ SidClaim \subseteq {TRUE}

LEMMA InTurnAlone ==
    ASSUME setting \in Settings, InTurn, FALSE \notin SidClaim
    PROVE  \E r : Alone(r)
<1>1. IsFiniteSet(Requests) /\ Cardinality(Requests) = 1
  BY SettingsAssumption DEF InTurn, Requests
<1>2. Requests # {}
  BY <1>1, FS_EmptySet
<1>3. PICK r \in Requests : TRUE
  BY <1>2
<1>4. IsFiniteSet(Requests \ {r}) /\ Cardinality(Requests \ {r}) = 0
  BY <1>1, <1>3, FS_RemoveElement
<1>5. Requests \ {r} = {}
  BY <1>4, FS_EmptySet
<1> QED
  BY <1>3, <1>5, SettingFacts DEF Alone, InTurn

\* What the cache does when it works.
LEMMA CacheWorks ==
    ASSUME SessionInv, NEW r, Alone(r)
    PROVE  /\ \A k \in Keys : \A e : SetIndex(k, e) => index' = [index EXCEPT ![k] = e]
           /\ \A k \in Keys : DropIndex(k) => index' = [index EXCEPT ![k] = NoIndex]
           /\ DropIndex(NoKey) => index' = index
           /\ \A i : DropSession(i) => sess' = [sess EXCEPT ![i] = NoSession]
           /\ \A k : IndexReads(k) = {GetIndex(k)}
  BY KeyFacts DEF Alone, SetIndex, DropIndex, DropSession, IndexReads

LEMMA OneByOneAlone == ASSUME NEW r, Alone(r) PROVE OneByOne
  BY DEF Alone, OneByOne

LEMMA LogoutParts ==
    ASSUME NEW r, Alone(r), setting' = setting, StoreInv(r)', RequestInv(r)'
    PROVE  LogoutInv'
<1>1. Requests' = {r}
  BY SameSetting DEF Alone
<1> QED
  BY <1>1 DEF LogoutInv

\* The types of what a request has.
LEMMA Types ==
    ASSUME SessionInv, NEW r \in Requests
    PROVE  /\ r \in DOMAIN pc /\ r \in DOMAIN then /\ r \in DOMAIN req /\ r \in DOMAIN z
           /\ r \in DOMAIN ref /\ r \in DOMAIN out
           /\ pc[r] \in Labels /\ then[r] \in ThenTypes /\ req[r] \in ReqTypes
           /\ z[r] \in [id : AnyId, data : Sessions, open : BOOLEAN]
           /\ ref[r] \in AnyId /\ out[r] \in AnyId \cup {Keep}
           /\ req[r].sent \in AnyId /\ req[r].target \in Keys \cup {NoKey}
           /\ z[r].id \in AnyId /\ z[r].data \in Sessions
  BY DEF SessionInv, TypeOK, ThenTypes, ReqTypes

\* A step that leaves the index, the cookies and the ids alone, and at most
\* deletes sessions, keeps the store in order if what request r was about to
\* end is gone or still about to be ended.
LEMMA StoreKeeps ==
    ASSUME SessionInv, NEW r \in Requests, StoreInv(r), setting' = setting,
           index' = index, cookie' = cookie, owner' = owner, last' = last,
           now' \in Nat, now <= now',
           \A i \in Ids : sess'[i] = sess[i] \/ sess'[i] = NoSession,
           pc[r] = "save_sub" => pc'[r] = "save_sub" /\ z'[r] = z[r],
           \A i \in Ids : Leaving(r, i) /\ Live(i)' => Leaving(r, i)'
    PROVE  StoreInv(r)' /\ \A i : Live(i)' => Live(i) /\ sess'[i] = sess[i]
<1> USE SameSetting
<1>0. /\ sess \in [Ids -> Sessions] /\ now \in Nat /\ index \in [Keys -> [id : AnyId, expires : Nat]]
      /\ cookie \in [Browsers -> AnyId] /\ NoSession.expiry = 0
      /\ \A d \in Sessions : d.expiry \in Nat
  BY DEF SessionInv, TypeOK, NoSession, Sessions
<1>1. ASSUME NEW i, Live(i)' PROVE Live(i) /\ sess'[i] = sess[i]
  <2>1. i \in Ids /\ sess'[i].expiry > now'
    BY <1>1 DEF Live
  <2>2. sess'[i] = sess[i]
    BY <2>1, <1>0
  <2>3. sess[i].expiry \in Nat
    BY <2>1, <1>0
  <2> QED
    BY <2>1, <2>2, <2>3, <1>0 DEF Live
<1>2. KeysKnown'
  BY DEF StoreInv, KeysKnown, OwnKeys, SubKeyOf
<1>3. EntriesLast'
  <2> SUFFICES ASSUME NEW k \in Keys, index[k].id # NoId
               PROVE  sess'[index[k].id].expiry <= index[k].expires
    BY DEF EntriesLast
  <2>1. index[k].id \in Ids /\ index[k].expires \in Nat
    BY <1>0, IdFacts
  <2>2. sess[index[k].id].expiry <= index[k].expires
    BY DEF StoreInv, EntriesLast
  <2>3. CASE sess'[index[k].id] = sess[index[k].id]
    BY <2>2, <2>3
  <2>4. CASE sess'[index[k].id] = NoSession
    BY <2>1, <2>4, <1>0
  <2> QED
    BY <2>1, <2>3, <2>4
<1>4. SubFollows(r)'
  BY DEF StoreInv, SubFollows
<1>5. CookiesIndexed(r)'
  <2> SUFFICES ASSUME NEW b \in Browsers, cookie[b] # NoId
               PROVE  /\ OfBrowser(cookie[b], b)
                      /\ Live(cookie[b])' => index[owner[cookie[b]]].id = cookie[b] \/ Leaving(r, cookie[b])'
    BY DEF CookiesIndexed, OfBrowser
  <2>1. cookie[b] \in Ids
    BY <1>0, IdFacts
  <2> QED
    BY <2>1, <1>1 DEF StoreInv, CookiesIndexed
<1> QED
  BY <1>1, <1>2, <1>3, <1>4, <1>5 DEF StoreInv

\* A request that arrives has what its browser has, and no session yet.
LEMMA ArrivesLogout ==
    ASSUME SessionInv, NEW r \in Requests, Alone(r), StoreInv(r), RequestInv(r),
           BrowserRequest(r) \/ BackChannelRequest(r) \/ Revoke(r)
    PROVE  LogoutInv'
<1> USE Types, SameSetting
<1>0. now \in Nat /\ sess \in [Ids -> Sessions] /\ pc[r] = "idle" /\ then[r] = "reply"
  BY Here DEF SessionInv, TypeOK, BrowserRequest, BackChannelRequest, Revoke, RequestOk, Stands
<1>1. /\ setting' = setting /\ index' = index /\ cookie' = cookie /\ owner' = owner /\ last' = last
      /\ now' = now /\ then' = then /\ z' = z /\ ref' = ref /\ out' = out
      /\ \A i \in Ids : sess'[i] = sess[i] \/ sess'[i] = NoSession
  BY <1>0 DEF BrowserRequest, BackChannelRequest, Revoke, store, history, DropSession
<1>2. pc'[r] \in {"load", "lookup", "idle"}
  BY <1>0 DEF BrowserRequest, BackChannelRequest, Revoke, Goto
<1>3. StoreInv(r)' /\ \A i : Live(i)' => Live(i) /\ sess'[i] = sess[i]
  BY <1>0, <1>1, <1>2, StoreKeeps DEF Leaving
<1>4. z[r].id = NoId /\ z[r].data = NoSession /\ out[r] \notin Ids
  BY <1>0 DEF RequestInv, CopyOfCookie, SavesInOrder
<1>5. SavesInOrder(r)' /\ SubCompared(r)'
  BY <1>1, <1>2, <1>4 DEF SavesInOrder, SubCompared, Saving
<1>6. CopyOfCookie(r)'
  <2>1. ~Handling(r)' /\ ~Saving(r)'
    BY <1>2 DEF Handling, Saving
  <2>2. CASE Revoke(r)
    BY <2>1, <2>2, <1>0, <1>1, <1>4 DEF Revoke, RequestInv, CopyOfCookie
  <2>3. CASE BackChannelRequest(r)
    <3>1. req'[r].op = "back" /\ pc'[r] = "lookup"
      BY <2>3 DEF BackChannelRequest, NoRequest, Goto
    <3> QED
      BY <2>1, <3>1, <1>0, <1>1, <1>4 DEF CopyOfCookie
  <2>4. CASE BrowserRequest(r)
    <3>1. PICK b \in Browsers : \E q \in BrowserRequests(b) : req'[r] = q
      BY <2>4 DEF BrowserRequest
    <3>2. /\ req'[r].browser = b /\ req'[r].op \in {"access", "logout", "login", "front"}
          /\ req'[r].sent = cookie[b] \/ (req'[r].op = "front" /\ req'[r].sent = NoId)
          /\ req'[r].op = "login" => \E u \in Users : req'[r].target \in SidsOf(b, u)
      BY <3>1 DEF BrowserRequests
    <3>3. req'[r].op = "login" => req'[r].target[2] = b
      <4> SUFFICES ASSUME NEW u \in Users, req'[r].target \in SidsOf(b, u)
                   PROVE  req'[r].target[2] = b
        BY <3>2
      <4>1. PICK hasSid \in SidClaim : req'[r].target = IF hasSid THEN <<u, b>> ELSE SubOf(u)
        BY DEF SidsOf
      <4>2. hasSid = TRUE
        BY DEF Alone
      <4>3. req'[r].target = <<u, b>>
        BY <4>1, <4>2
      <4> QED
        BY <4>3
    <3> QED
      BY <2>1, <2>4, <3>2, <3>3, <1>0, <1>1, <1>2, <1>4 DEF CopyOfCookie
  <2> QED
    BY <2>2, <2>3, <2>4
<1>7. CleansAll(r)'
  <2>1. ~Cleaning(pc[r], then[r])'
    BY <1>0, <1>1, <1>2 DEF Cleaning
  <2>2. CASE Revoke(r)
    BY <2>1, <2>2, <1>0, <1>1 DEF Revoke, RequestInv, CleansAll, Cleaning
  <2>3. CASE BackChannelRequest(r)
    BY <2>1, <2>3, <1>0 DEF BackChannelRequest, CleansAll, Goto
  <2>4. CASE BrowserRequest(r)
    <3>1. PICK b \in Browsers : \E q \in BrowserRequests(b) : req'[r] = q
      BY <2>4 DEF BrowserRequest
    <3>2. req'[r].op \in {"access", "logout", "login", "front"}
      BY <3>1 DEF BrowserRequests
    <3> QED
      BY <2>1, <3>2 DEF CleansAll
  <2> QED
    BY <2>2, <2>3, <2>4
<1> QED
  BY <1>1, <1>3, <1>5, <1>6, <1>7, LogoutParts DEF RequestInv

\* A load finds the live session of the cookie, and only that one.
LEMMA LoadLogout ==
    ASSUME SessionInv, NEW r \in Requests, Alone(r), StoreInv(r), RequestInv(r),
           LoadFound(r) \/ LoadMissing(r)
    PROVE  LogoutInv'
<1> USE Types, SameSetting
<1>0. now \in Nat /\ sess \in [Ids -> Sessions] /\ pc[r] = "load"
  BY DEF SessionInv, TypeOK, LoadFound, LoadMissing
<1>1. /\ setting' = setting /\ index' = index /\ cookie' = cookie /\ owner' = owner /\ last' = last
      /\ now' = now /\ req' = req /\ ref' = ref /\ sess' = sess
  BY <1>0 DEF LoadFound, LoadMissing, store, history
<1>2. pc'[r] \in {"extract", "route"} /\ then'[r] # "clean_key"
  BY <1>0, Here DEF LoadFound, LoadMissing, Goto, RequestOk, Stands
<1>3. StoreInv(r)' /\ \A i : Live(i)' => Live(i) /\ sess'[i] = sess[i]
  BY <1>0, <1>1, <1>2, StoreKeeps DEF Leaving
<1>4. /\ z[r].id = NoId /\ z[r].data = NoSession /\ out[r] \notin Ids
      /\ req[r].op # "back" /\ req[r].browser \in Browsers
      /\ req[r].sent = cookie[req[r].browser] \/ (req[r].op = "front" /\ req[r].sent = NoId)
  BY <1>0 DEF RequestInv, CopyOfCookie, SavesInOrder
<1>5. out'[r] \notin Ids
  BY <1>4, IdFacts DEF LoadFound, LoadMissing, Keep
<1>6. SavesInOrder(r)' /\ SubCompared(r)'
  BY <1>1, <1>2, <1>5 DEF SavesInOrder, SubCompared, Saving
<1>7. CleansAll(r)'
  BY <1>1, <1>2, <1>4 DEF CleansAll, Cleaning
<1>8. CopyOfCookie(r)'
  <2>1. CASE LoadFound(r)
    <3>1. z'[r] = Opened(req[r].sent)
      BY <2>1 DEF LoadFound
    <3>2. z'[r].id = req[r].sent /\ (z'[r].data # NoSession => OwnKeys(z'[r].data, z'[r].id))
      BY <3>1 DEF Opened, GetSession, StoreInv, KeysKnown
    <3>3. (z'[r].data # NoSession => OwnKeys(z[r].data, z[r].id)')
      BY <3>2, <1>1 DEF OwnKeys, SubKeyOf
    <3> QED
      BY <3>2, <3>3, <1>0, <1>1, <1>2, <1>4 DEF CopyOfCookie, Handling, Saving, RequestInv
  <2>2. CASE LoadMissing(r)
    <3>1. z' = z /\ ~Live(req[r].sent)
      <4>1. GetSession(req[r].sent) = NoSession
        BY <2>2 DEF LoadMissing, Alone
      <4> QED
        BY <2>2, <4>1, <1>0 DEF LoadMissing, GetSession, Live, NoSession
    <3>2. ~Live(req[r].sent)'
      BY <3>1, <1>1 DEF Live
    <3> QED
      BY <3>1, <3>2, <1>0, <1>1, <1>2, <1>4 DEF CopyOfCookie, Handling, Saving, RequestInv
  <2> QED
    BY <2>1, <2>2
<1> QED
  BY <1>1, <1>3, <1>6, <1>7, <1>8, LogoutParts DEF RequestInv

\* A session is taken apart, or found to have expired.
LEMMA ExtractLogout ==
    ASSUME SessionInv, NEW r \in Requests, Alone(r), StoreInv(r), RequestInv(r), Extract(r)
    PROVE  LogoutInv'
<1> USE Types, SameSetting
<1>0. now \in Nat /\ sess \in [Ids -> Sessions] /\ pc[r] = "extract"
  BY DEF SessionInv, TypeOK, Extract
<1>1. /\ setting' = setting /\ index' = index /\ cookie' = cookie /\ owner' = owner /\ last' = last
      /\ now' = now /\ req' = req /\ ref' = ref /\ sess' = sess /\ out' = out /\ then' = then
  BY <1>0 DEF Extract, store, history
<1>2. z'[r].id = z[r].id /\ z'[r].data = z[r].data
  BY DEF Extract
<1>3. pc'[r] = "kill_sid" \/ pc'[r] = then[r]
  BY DEF Extract, Goto
<1>4. /\ pc'[r] \in {"kill_sid", "route", "lookup", "clean_key", "reply"}
      /\ then[r] = "clean_key" => pc'[r] \in {"kill_sid", "clean_key"}
      /\ then[r] # "clean_key" => pc'[r] # "clean_key"
  BY <1>3 DEF ThenTypes
<1>5. StoreInv(r)' /\ \A i : Live(i)' => Live(i) /\ sess'[i] = sess[i]
  BY <1>0, <1>1, <1>4, StoreKeeps DEF Leaving
<1>6. out[r] \notin Ids
  BY <1>0 DEF RequestInv, SavesInOrder
<1>7. SavesInOrder(r)' /\ SubCompared(r)'
  BY <1>1, <1>4, <1>6 DEF SavesInOrder, SubCompared, Saving
<1>8. CopyOfCookie(r)'
  <2>1. Handling(r)' => Handling(r)
    BY <1>0, <1>1, <1>4 DEF Handling
  <2>2. Live(req[r].sent)' => Live(req[r].sent)
    BY <1>1, <1>5
  <2>3. z[r].data # NoSession => OwnKeys(z[r].data, z[r].id)'
    BY <1>1, <1>2 DEF RequestInv, CopyOfCookie, OwnKeys, SubKeyOf
  <2> QED
    BY <2>1, <2>2, <2>3, <1>0, <1>1, <1>2, <1>4 DEF RequestInv, CopyOfCookie, Saving
<1>9. CleansAll(r)'
  <2>1. CASE then[r] = "clean_key"
    <3>1. Cleaning(pc[r], then[r]) /\ Cleaning(pc[r], then[r])' /\ pc'[r] \in {"kill_sid", "clean_key"}
      BY <2>1, <1>0, <1>1, <1>4 DEF Cleaning
    <3>2. /\ index[req[r].target].id = ref[r]
          /\ index[owner[ref[r]]].id \in {ref[r], NoId}
          /\ z[r].id = ref[r]
      BY <3>1, <1>0 DEF RequestInv, CleansAll
    <3> QED
      BY <3>1, <3>2, <1>1, <1>2 DEF CleansAll
  <2>2. CASE then[r] # "clean_key"
    <3>1. req[r].op # "back"
      BY <2>2, <1>0 DEF RequestInv, CopyOfCookie, Handling
    <3>2. ~Cleaning(pc[r], then[r])'
      BY <2>2, <1>1, <1>4 DEF Cleaning
    <3> QED
      BY <3>1, <3>2, <1>1 DEF CleansAll
  <2> QED
    BY <2>1, <2>2
<1> QED
  BY <1>1, <1>5, <1>7, <1>8, <1>9, LogoutParts DEF RequestInv

\* What is done with a loaded session that leaves it alone for now.
LEMMA RouteLogout ==
    ASSUME SessionInv, NEW r \in Requests, Alone(r), StoreInv(r), RequestInv(r),
           Unauthenticated(r) \/ ServeEnds(r) \/ Logout(r)
    PROVE  LogoutInv'
<1> USE Types, SameSetting
<1>0. now \in Nat /\ sess \in [Ids -> Sessions] /\ pc[r] = "route" /\ then[r] # "clean_key"
  BY Here DEF SessionInv, TypeOK, Unauthenticated, ServeEnds, Logout, RequestOk, Stands
<1>1. /\ setting' = setting /\ index' = index /\ cookie' = cookie /\ owner' = owner /\ last' = last
      /\ now' = now /\ req' = req /\ ref' = ref /\ sess' = sess /\ out' = out /\ z' = z
  BY <1>0 DEF Unauthenticated, ServeEnds, Logout, store, history
<1>2. pc'[r] \in {"reply", "kill_sid"} /\ then'[r] # "clean_key"
  BY <1>0 DEF Unauthenticated, ServeEnds, Logout, Goto, Kill
<1>3. StoreInv(r)' /\ \A i : Live(i)' => Live(i) /\ sess'[i] = sess[i]
  BY <1>0, <1>1, <1>2, StoreKeeps DEF Leaving
<1>4. out[r] \notin Ids /\ Handling(r) /\ req[r].op # "back"
  BY <1>0 DEF RequestInv, SavesInOrder, CopyOfCookie, Handling
<1>5. SavesInOrder(r)' /\ SubCompared(r)' /\ CleansAll(r)'
  BY <1>1, <1>2, <1>4 DEF SavesInOrder, SubCompared, Saving, CleansAll, Cleaning
<1>6. CopyOfCookie(r)'
  <2>1. Live(req[r].sent)' => Live(req[r].sent)
    BY <1>1, <1>3
  <2>2. z[r].data # NoSession => OwnKeys(z[r].data, z[r].id)'
    BY <1>1 DEF RequestInv, CopyOfCookie, OwnKeys, SubKeyOf
  <2> QED
    BY <2>1, <2>2, <1>0, <1>1, <1>2, <1>4 DEF RequestInv, CopyOfCookie, Saving
<1> QED
  BY <1>1, <1>3, <1>5, <1>6, LogoutParts DEF RequestInv

\* A session that is served is the one of the cookie.
LEMMA ServeLogout ==
    ASSUME SessionInv, NEW r \in Requests, Alone(r), WindowInv, StoreInv(r), RequestInv(r), Serve(r)
    PROVE  LogoutInv'
<1> USE Types, SameSetting
<1> DEFINE i == z[r].id
           d == z[r].data
<1>0. /\ now \in Nat /\ sess \in [Ids -> Sessions] /\ pc[r] = "route" /\ then[r] # "clean_key"
      /\ d # NoSession /\ i \in Ids /\ d.user # NoUser /\ setting \in Settings
  BY Here, IdFacts DEF SessionInv, TypeOK, Serve, RequestOk, Stands, CopyOwned, KeysOfUser
<1>1. /\ setting' = setting /\ index' = index /\ cookie' = cookie /\ owner' = owner /\ last' = last
      /\ now' = now /\ req' = req /\ ref' = ref /\ sess' = sess /\ out' = out /\ then' = then
  BY <1>0 DEF Serve, store
<1>2. pc'[r] \in {"reply", "save_sid"}
  BY <1>0 DEF Serve, Goto
<1>3. StoreInv(r)' /\ \A j : Live(j)' => Live(j) /\ sess'[j] = sess[j]
  BY <1>0, <1>1, <1>2, StoreKeeps DEF Leaving
<1>4. out[r] \notin Ids /\ Handling(r) /\ req[r].op = "access" /\ i = req[r].sent /\ i = cookie[req[r].browser]
      /\ req[r].browser \in Browsers
  BY <1>0, IdFacts DEF RequestInv, SavesInOrder, CopyOfCookie, Handling, Serve
<1>5. OfBrowser(i, req[r].browser)
  BY <1>0, <1>4, IdFacts DEF StoreInv, CookiesIndexed
<1>6. /\ z'[r].id = i /\ z'[r].data # NoSession
      /\ z'[r].data.sid = d.sid /\ z'[r].data.sub = d.sub
      /\ z'[r].data.expiry = IF Extends(d.expiry) THEN now + Interval ELSE d.expiry
  <2>1. z'[r] = [z[r] EXCEPT !.data = [d EXCEPT !.expiry = IF Extends(@) THEN now + Interval ELSE @,
                                                 !.new = FALSE]]
    BY DEF Serve
  <2>2. d \in Sessions /\ z'[r].data.user = d.user
    BY <2>1 DEF Sessions
  <2>3. z'[r].data # NoSession
    BY <2>2, <1>0, EmptyFacts
  <2>4. z[r] \in [id : AnyId, data : Sessions, open : BOOLEAN]
    OBVIOUS
  <2>5. z'[r].data = [d EXCEPT !.expiry = IF Extends(@) THEN now + Interval ELSE @, !.new = FALSE]
    BY <2>1, <2>4
  <2>6. z'[r].id = i
    BY <2>1, <2>4
  <2>7. z'[r].data.sid = d.sid /\ z'[r].data.sub = d.sub
    BY <2>2, <2>5 DEF Sessions
  <2>8. z'[r].data.expiry = IF Extends(d.expiry) THEN now + Interval ELSE d.expiry
    BY <2>2, <2>5 DEF Sessions
  <2> QED
    BY <2>3, <2>6, <2>7, <2>8
<1>7. sess[i].expiry <= z'[r].data.expiry
  <2>1. /\ d.expiry \in Nat /\ sess[i].expiry \in Nat /\ Interval \in Nat /\ Slack \in Nat
    BY <1>0, SettingFacts, SlackFacts DEF Sessions
  <2>2. sess[i].expiry <= d.expiry
    <3>1. CopyInWindow(r)
      BY DEF WindowInv
    <3>2. sess[i] # NoSession => sess[i].expiry = d.expiry
      BY <3>1, <1>0 DEF CopyInWindow
    <3>3. NoSession.expiry = 0
      BY DEF NoSession
    <3> QED
      BY <3>2, <3>3, <2>1
  <2>3. CASE Extends(d.expiry)
    <3>1. z'[r].data.expiry = now + Interval /\ d.expiry + Slack < now + Interval
      BY <2>3, <1>6 DEF Extends
    <3> QED
      BY <3>1, <2>1, <2>2, <1>0
  <2>4. CASE ~Extends(d.expiry)
    BY <2>4, <2>2, <1>6
  <2> QED
    BY <2>3, <2>4
<1>8. SavesInOrder(r)'
  <2>1. OfBrowser(z[r].id, req[r].browser)'
    BY <1>1, <1>5, <1>6 DEF OfBrowser
  <2> QED
    BY <2>1, <1>0, <1>1, <1>2, <1>4, <1>6, <1>7 DEF SavesInOrder, Saving
<1>9. SubCompared(r)' /\ CleansAll(r)'
  BY <1>1, <1>2, <1>4 DEF SubCompared, CleansAll, Cleaning
<1>10. CopyOfCookie(r)'
  <2>1. OwnKeys(z[r].data, z[r].id)'
    BY <1>0, <1>1, <1>6 DEF RequestInv, CopyOfCookie, OwnKeys, SubKeyOf
  <2> QED
    BY <2>1, <1>0, <1>1, <1>2, <1>4 DEF RequestInv, CopyOfCookie, Saving, Handling
<1> QED
  BY <1>1, <1>3, <1>8, <1>9, <1>10, LogoutParts DEF RequestInv

\* A logout call that finds no entry leaves no session of its key in a cookie,
\* because entries last as long as their sessions.
LEMMA LookupLogout ==
    ASSUME SessionInv, NEW r \in Requests, Alone(r), StoreInv(r), RequestInv(r), Lookup(r)
    PROVE  LogoutInv'
<1> USE Types, SameSetting
<1> DEFINE k == req[r].target
<1>0. /\ now \in Nat /\ sess \in [Ids -> Sessions] /\ pc[r] = "lookup" /\ then[r] # "clean_key"
      /\ req[r].op \in {"front", "back"} /\ k \in Keys /\ index \in [Keys -> [id : AnyId, expires : Nat]]
      /\ cookie \in [Browsers -> AnyId]
  BY Here DEF SessionInv, TypeOK, Lookup, RequestOk, Stands
<1>1. /\ setting' = setting /\ index' = index /\ cookie' = cookie /\ owner' = owner /\ last' = last
      /\ now' = now /\ req' = req /\ sess' = sess /\ out' = out /\ then' = then /\ z' = z
  BY <1>0 DEF Lookup, store, history
<1>2. /\ ref'[r] = GetIndex(k)
      /\ pc'[r] = IF GetIndex(k) = NoId THEN "reply" ELSE "fetch"
  BY CacheWorks DEF Lookup, Goto
<1>3. StoreInv(r)' /\ \A j : Live(j)' => Live(j) /\ sess'[j] = sess[j]
  BY <1>0, <1>1, <1>2, StoreKeeps DEF Leaving
<1>4. out[r] \notin Ids
  BY <1>0 DEF RequestInv, SavesInOrder
<1>5. SavesInOrder(r)' /\ SubCompared(r)'
  BY <1>1, <1>2, <1>4 DEF SavesInOrder, SubCompared, Saving
<1>6. CopyOfCookie(r)'
  <2>1. z[r].data # NoSession => OwnKeys(z[r].data, z[r].id)'
    BY <1>1 DEF RequestInv, CopyOfCookie, OwnKeys, SubKeyOf
  <2> QED
    BY <2>1, <1>0, <1>1, <1>2 DEF RequestInv, CopyOfCookie, Saving, Handling
<1>7. CASE GetIndex(k) = NoId
  <2>1. ASSUME NEW b \in Browsers, Live(cookie[b]) PROVE owner[cookie[b]] # k
    <3> SUFFICES ASSUME owner[cookie[b]] = k PROVE FALSE
      OBVIOUS
    <3> DEFINE j == cookie[b]
    <3>1. j \in Ids /\ sess[j].expiry > now /\ j # NoId
      BY <2>1, IdFacts DEF Live
    <3>2. index[k].id = j
      BY <3>1, <2>1, <1>0 DEF StoreInv, CookiesIndexed, Leaving
    <3>3. sess[j].expiry <= index[k].expires
      BY <3>1, <3>2, <1>0 DEF StoreInv, EntriesLast
    <3>4. index[k].expires <= now
      BY <3>1, <3>2, <1>0, <1>7 DEF GetIndex
    <3>5. sess[j].expiry \in Nat /\ index[k].expires \in Nat
      BY <3>1, <1>0 DEF Sessions
    <3> QED
      BY <3>1, <3>3, <3>4, <3>5, <1>0
  <2>2. \A b \in Browsers : Live(cookie[b])' => owner'[cookie'[b]] # k
    BY <2>1, <1>1, <1>3
  <2>3. pc'[r] = "reply" /\ ~Cleaning(pc[r], then[r])'
    BY <1>0, <1>1, <1>2, <1>7 DEF Cleaning
  <2>4. CleansAll(r)'
    BY <2>2, <2>3, <1>1 DEF CleansAll
  <2> QED
    BY <2>4, <1>1, <1>3, <1>5, <1>6, LogoutParts DEF RequestInv
<1>8. CASE GetIndex(k) # NoId
  <2>1. index[k].id = ref'[r] /\ ref'[r] # NoId /\ ref'[r] \in Ids /\ pc'[r] = "fetch"
    BY <1>0, <1>2, <1>8, IdFacts DEF GetIndex
  <2> DEFINE j == ref'[r]
  <2>2. index[owner[j]].id \in {j, NoId}
    <3>1. k = owner[j] \/ k = SubOf(UserOf(owner[j]))
      BY <2>1, <1>0 DEF StoreInv, KeysKnown
    <3>2. CASE k = owner[j]
      BY <3>2, <2>1
    <3>3. CASE k = SubOf(UserOf(owner[j]))
      <4>1. j <= last
        BY <2>1, <1>0 DEF SessionInv, IndexOwned
      <4>2. owner[j] \in Keys
        BY <4>1, <2>1 DEF StoreInv, KeysKnown, Keys
      <4> QED
        BY <4>2, <3>3, <2>1, <1>0 DEF StoreInv, SubFollows
    <3> QED
      BY <3>1, <3>2, <3>3
  <2>3. Cleaning(pc[r], then[r])'
    BY <2>1 DEF Cleaning
  <2>4. CleansAll(r)'
    BY <2>1, <2>2, <2>3, <1>1 DEF CleansAll
  <2> QED
    BY <2>4, <1>1, <1>3, <1>5, <1>6, LogoutParts DEF RequestInv
<1> QED
  BY <1>7, <1>8

\* The session that the entry leads to is read.
LEMMA FetchLogout ==
    ASSUME SessionInv, NEW r \in Requests, Alone(r), StoreInv(r), RequestInv(r), Fetch(r)
    PROVE  LogoutInv'
<1> USE Types, SameSetting
<1>0. now \in Nat /\ sess \in [Ids -> Sessions] /\ pc[r] = "fetch" /\ req[r].op \in {"front", "back"}
  BY Here DEF SessionInv, TypeOK, Fetch, RequestOk, Stands, Cleaning
<1>1. /\ setting' = setting /\ index' = index /\ cookie' = cookie /\ owner' = owner /\ last' = last
      /\ now' = now /\ req' = req /\ ref' = ref /\ sess' = sess /\ out' = out
  BY <1>0 DEF Fetch, store, history
<1>2. then'[r] = "clean_key" /\ pc'[r] \in {"extract", "clean_key"}
  BY DEF Fetch, Goto
<1>3. StoreInv(r)' /\ \A j : Live(j)' => Live(j) /\ sess'[j] = sess[j]
  BY <1>0, <1>1, <1>2, StoreKeeps DEF Leaving
<1>4. out[r] \notin Ids
  BY <1>0 DEF RequestInv, SavesInOrder
<1>5. SavesInOrder(r)' /\ SubCompared(r)'
  BY <1>1, <1>2, <1>4 DEF SavesInOrder, SubCompared, Saving
<1>6. /\ z'[r].data # NoSession => z'[r].id = ref[r] /\ z'[r].data = sess[ref[r]] /\ ref[r] \in Ids
      /\ pc'[r] = "extract" => z'[r].id = ref[r]
  BY EmptyFacts DEF Fetch, Opened, GetSession, Goto
<1>7. CopyOfCookie(r)'
  <2>1. z'[r].data # NoSession => OwnKeys(z[r].data, z[r].id)'
    BY <1>1, <1>6 DEF StoreInv, KeysKnown, OwnKeys, SubKeyOf
  <2> QED
    BY <2>1, <1>0, <1>1, <1>2 DEF RequestInv, CopyOfCookie, Saving, Handling
<1>8. CleansAll(r)'
  <2>1. Cleaning(pc[r], then[r])' /\ Cleaning(pc[r], then[r])
    BY <1>0, <1>2 DEF Cleaning
  <2> QED
    BY <2>1, <1>0, <1>1, <1>2, <1>6 DEF RequestInv, CleansAll
<1> QED
  BY <1>1, <1>3, <1>5, <1>7, <1>8, LogoutParts DEF RequestInv

\* The kill compares the entry of the sub with its session.
LEMMA KillSubReadLogout ==
    ASSUME SessionInv, NEW r \in Requests, Alone(r), StoreInv(r), RequestInv(r), KillSubRead(r)
    PROVE  LogoutInv'
<1> USE Types, SameSetting
<1>0. /\ now \in Nat /\ sess \in [Ids -> Sessions] /\ pc[r] = "kill_sub_read"
      /\ z[r].open /\ z[r].data.sub # NoKey /\ then[r] # "clean_key"
      /\ index \in [Keys -> [id : AnyId, expires : Nat]]
  BY Here DEF SessionInv, TypeOK, KillSubRead, RequestOk, Stands
<1>1. /\ setting' = setting /\ index' = index /\ cookie' = cookie /\ owner' = owner /\ last' = last
      /\ now' = now /\ req' = req /\ z' = z /\ sess' = sess /\ out' = out /\ then' = then
  BY <1>0 DEF KillSubRead, store, history
<1>2. pc'[r] = "kill_sub" /\ ref'[r] = GetIndex(z[r].data.sub)
  BY <1>0, CacheWorks DEF KillSubRead, Goto, SubKey
<1>3. StoreInv(r)' /\ \A j : Live(j)' => Live(j) /\ sess'[j] = sess[j]
  BY <1>0, <1>1, <1>2, StoreKeeps DEF Leaving
<1>4. out[r] \notin Ids /\ Handling(r) /\ req[r].op # "back"
  BY <1>0 DEF RequestInv, SavesInOrder, CopyOfCookie, Handling
<1>5. SavesInOrder(r)' /\ CleansAll(r)'
  BY <1>0, <1>1, <1>2, <1>4 DEF SavesInOrder, Saving, CleansAll, Cleaning
<1>6. SubCompared(r)'
  <2>0. PICK i : i = index[z[r].data.sub].id
    OBVIOUS
  <2>1. ASSUME MayDropSub(r)', i # z[r].id, Live(i)' PROVE FALSE
    <3>1. z[r].data.sub \in Keys
      BY <1>0 DEF Sessions
    <3>2. i \in Ids /\ sess[i].expiry > now /\ i # NoId
      BY <2>1, <1>3, IdFacts DEF Live
    <3>3. GetIndex(z[r].data.sub) = NoId
      BY <2>0, <2>1, <3>2, <1>1, <1>2 DEF MayDropSub, GetIndex
    <3>4. index[z[r].data.sub].expires <= now
      BY <2>0, <3>1, <3>2, <3>3, <1>0 DEF GetIndex
    <3>5. sess[i].expiry <= index[z[r].data.sub].expires
      BY <2>0, <3>1, <3>2 DEF StoreInv, EntriesLast
    <3>6. sess[i].expiry \in Nat /\ index[z[r].data.sub].expires \in Nat
      BY <3>1, <3>2, <1>0 DEF Sessions
    <3> QED
      BY <3>2, <3>4, <3>5, <3>6, <1>0
  <2> QED
    BY <2>0, <2>1, <1>0, <1>1, <1>2 DEF SubCompared
<1>7. CopyOfCookie(r)'
  <2>1. z[r].data # NoSession => OwnKeys(z[r].data, z[r].id)'
    BY <1>1 DEF RequestInv, CopyOfCookie, OwnKeys, SubKeyOf
  <2>2. Live(req[r].sent)' => Live(req[r].sent)
    BY <1>1, <1>3
  <2> QED
    BY <2>1, <2>2, <1>0, <1>1, <1>2, <1>4 DEF RequestInv, CopyOfCookie, Saving
<1> QED
  BY <1>1, <1>3, <1>5, <1>6, <1>7, LogoutParts DEF RequestInv

\* The session is gone, and what was said of its entries does not matter.
LEMMA DropLogout ==
    ASSUME SessionInv, NEW r \in Requests, Alone(r), StoreInv(r), RequestInv(r),
           KillSession(r) \/ CleanSession(r)
    PROVE  LogoutInv'
<1> USE Types, SameSetting
<1>0. /\ now \in Nat /\ sess \in [Ids -> Sessions] /\ cookie \in [Browsers -> AnyId] /\ NoSession.expiry = 0
  BY DEF SessionInv, TypeOK, NoSession
<1>1. /\ setting' = setting /\ index' = index /\ cookie' = cookie /\ owner' = owner /\ last' = last
      /\ now' = now /\ req' = req /\ ref' = ref /\ then' = then
  BY <1>0 DEF KillSession, CleanSession, history
<1>2. CASE KillSession(r)
  <2>1. /\ pc[r] = "kill_session" /\ pc'[r] = then[r] /\ out'[r] = NoId
        /\ z'[r].id = z[r].id /\ z'[r].data = NoSession
        /\ \A i \in Ids : sess'[i] = IF i = z[r].id THEN NoSession ELSE sess[i]
    BY <1>0, <1>2, CacheWorks, IdFacts DEF KillSession, Goto, EmptyZ
  <2>2. ~Live(z[r].id)'
    BY <2>1, <1>0, <1>1 DEF Live
  <2>3. StoreInv(r)' /\ \A j : Live(j)' => Live(j) /\ sess'[j] = sess[j]
    <3>1. \A i \in Ids : ~(Leaving(r, i) /\ Live(i)')
      BY <2>1, <2>2, <1>0, <1>1 DEF Leaving, Live
    <3> QED
      BY <2>1, <3>1, <1>0, <1>1, StoreKeeps
  <2>4. pc'[r] \in {"route", "lookup", "clean_key", "reply"} /\ out'[r] \notin Ids
    BY <2>1, IdFacts DEF ThenTypes
  <2>5. SavesInOrder(r)' /\ SubCompared(r)'
    BY <2>4 DEF SavesInOrder, SubCompared, Saving
  <2>6. CopyOfCookie(r)'
    <3>1. Handling(r)' => Handling(r)
      BY <2>1, <2>4, <1>1 DEF Handling
    <3>2. Live(req[r].sent)' => Live(req[r].sent)
      BY <1>1, <2>3
    <3> QED
      BY <2>1, <2>4, <3>1, <3>2, <1>1 DEF RequestInv, CopyOfCookie, Saving
  <2>7. CleansAll(r)'
    <3>1. CASE then[r] = "clean_key"
      <4>1. Cleaning(pc[r], then[r]) /\ Cleaning(pc[r], then[r])' /\ pc'[r] = "clean_key"
        BY <2>1, <3>1, <1>1 DEF Cleaning
      <4> QED
        BY <4>1, <2>1, <1>1 DEF RequestInv, CleansAll
    <3>2. CASE then[r] # "clean_key"
      <4>1. req[r].op # "back" /\ ~Cleaning(pc[r], then[r])'
        BY <3>2, <2>1, <2>4, <1>1 DEF RequestInv, CopyOfCookie, Handling, Cleaning
      <4> QED
        BY <4>1, <1>1 DEF CleansAll
    <3> QED
      BY <3>1, <3>2
  <2> QED
    BY <2>3, <2>5, <2>6, <2>7, <1>1, LogoutParts DEF RequestInv
<1>3. CASE CleanSession(r)
  <2>1. /\ pc[r] = "clean_session" /\ pc'[r] = "reply" /\ z' = z /\ out' = out
        /\ \A i \in Ids : sess'[i] = IF i = ref[r] THEN NoSession ELSE sess[i]
    BY <1>0, <1>3, CacheWorks DEF CleanSession, Goto
  <2>2. ~Live(ref[r])'
    BY <2>1, <1>0, <1>1 DEF Live
  <2>3. StoreInv(r)' /\ \A j : Live(j)' => Live(j) /\ sess'[j] = sess[j]
    <3>1. \A i \in Ids : ~(Leaving(r, i) /\ Live(i)')
      BY <2>1, <2>2, <1>0, <1>1 DEF Leaving, Live
    <3> QED
      BY <2>1, <3>1, <1>0, <1>1, StoreKeeps
  <2>4. out[r] \notin Ids
    BY <2>1 DEF RequestInv, SavesInOrder
  <2>5. SavesInOrder(r)' /\ SubCompared(r)'
    BY <2>1, <2>4 DEF SavesInOrder, SubCompared, Saving
  <2>6. CopyOfCookie(r)'
    <3>1. z[r].data # NoSession => OwnKeys(z[r].data, z[r].id)'
      BY <2>1, <1>1 DEF RequestInv, CopyOfCookie, OwnKeys, SubKeyOf
    <3> QED
      BY <2>1, <3>1, <1>1 DEF RequestInv, CopyOfCookie, Saving, Handling
  <2>7. ASSUME NEW b \in Browsers, Live(cookie[b])' PROVE owner[cookie[b]] # req[r].target
    <3>1. Live(cookie[b]) /\ cookie[b] # ref[r] /\ cookie[b] # NoId
      BY <2>2, <2>3, <2>7, <1>1, IdFacts DEF Live
    <3>2. index[owner[cookie[b]]].id = cookie[b]
      BY <3>1, <2>1 DEF StoreInv, CookiesIndexed, Leaving
    <3>3. index[req[r].target].id = NoId
      BY <2>1 DEF RequestInv, CleansAll, Cleaning
    <3> QED
      BY <3>1, <3>2, <3>3
  <2>8. CleansAll(r)'
    <3>1. ~Cleaning(pc[r], then[r])'
      BY <2>1 DEF Cleaning
    <3> QED
      BY <2>1, <2>7, <3>1, <1>1 DEF CleansAll
  <2> QED
    BY <2>3, <2>5, <2>6, <2>8, <1>1, LogoutParts DEF RequestInv
<1> QED
  BY <1>2, <1>3

\* Time passes, or nothing happens.
LEMMA TickLogout ==
    ASSUME SessionInv, NEW r \in Requests, Alone(r), StoreInv(r), RequestInv(r), Tick \/ UNCHANGED vars
    PROVE  LogoutInv'
<1> USE Types, SameSetting
<1>0. now \in Nat /\ sess \in [Ids -> Sessions]
  BY DEF SessionInv, TypeOK
<1>1. /\ setting' = setting /\ index' = index /\ cookie' = cookie /\ owner' = owner /\ last' = last
      /\ req' = req /\ ref' = ref /\ then' = then /\ sess' = sess /\ z' = z /\ out' = out /\ pc' = pc
      /\ now' \in Nat /\ now <= now'
  BY <1>0 DEF Tick, vars, history
<1>2. StoreInv(r)' /\ \A j : Live(j)' => Live(j) /\ sess'[j] = sess[j]
  BY <1>0, <1>1, StoreKeeps DEF Leaving
<1>3. SavesInOrder(r)'
  <2>1. (Saving(r)' <=> Saving(r)) /\ (\A i, b : OfBrowser(i, b)' <=> OfBrowser(i, b))
    BY <1>1 DEF Saving, OfBrowser
  <2>2. SavesInOrder(r)
    BY DEF RequestInv
  <2> QED
    BY <2>1, <2>2, <1>1, <1>2 DEF SavesInOrder
<1>4. SubCompared(r)'
  <2>1. MayDropSub(r)' <=> MayDropSub(r)
    BY <1>1 DEF MayDropSub
  <2> QED
    BY <2>1, <1>1, <1>2 DEF RequestInv, SubCompared
<1>5. CleansAll(r)'
  BY <1>1, <1>2 DEF RequestInv, CleansAll, Cleaning
<1>6. CopyOfCookie(r)'
  <2>1. z[r].data # NoSession => OwnKeys(z[r].data, z[r].id)'
    BY <1>1 DEF RequestInv, CopyOfCookie, OwnKeys, SubKeyOf
  <2>2. (Handling(r)' <=> Handling(r)) /\ (Saving(r)' <=> Saving(r))
    BY <1>1 DEF Handling, Saving
  <2>3. Live(req[r].sent)' => Live(req[r].sent)
    BY <1>1, <1>2
  <2> QED
    BY <2>1, <2>2, <2>3, <1>1 DEF RequestInv, CopyOfCookie
<1> QED
  BY <1>1, <1>2, <1>3, <1>4, <1>5, <1>6, LogoutParts DEF RequestInv

\* A key of a login has a browser, and the key of a sub has none.
LEMMA SidIsNoSub ==
    ASSUME SessionInv, NEW i \in Ids, owner[i] \in Users \X Browsers
    PROVE  /\ owner[i] \in Keys /\ UserOf(owner[i]) \in Users
           /\ \A u : owner[i] # SubOf(u)
           /\ SubOf(UserOf(owner[i])) \in Keys /\ SubOf(UserOf(owner[i])) # NoKey /\ owner[i] # NoKey
<1>1. NoBrowser \notin Browsers
  BY SettingFacts DEF SessionInv, TypeOK
<1>2. PICK u \in Users, b \in Browsers : owner[i] = <<u, b>>
  OBVIOUS
<1>3. UserOf(owner[i]) = u
  BY <1>2 DEF UserOf
<1>4. \A v : owner[i] # SubOf(v)
  BY <1>1, <1>2 DEF SubOf
<1> QED
  BY <1>2, <1>3, <1>4, KeyFacts

\* An entry is deleted, and nothing else changes in the store.
LEMMA DropEntry ==
    ASSUME SessionInv, NEW r \in Requests, StoreInv(r), setting' = setting,
           sess' = sess, cookie' = cookie, owner' = owner, last' = last, now' = now,
           NEW k, index' = index \/ (k \in Keys /\ index' = [index EXCEPT ![k] = NoIndex]),
           pc[r] # "save_sub",
           \A b \in Browsers :
               /\ Live(cookie[b])
               /\ Leaving(r, cookie[b]) \/ (index' # index /\ owner[cookie[b]] = k /\ index[k].id = cookie[b])
               => Leaving(r, cookie[b])'
    PROVE  StoreInv(r)' /\ \A i : Live(i)' <=> Live(i)
<1> USE SameSetting
<1>0. index \in [Keys -> [id : AnyId, expires : Nat]] /\ NoIndex.id = NoId
  BY DEF SessionInv, TypeOK, NoIndex
<1>1. \A i : Live(i)' <=> Live(i)
  BY DEF Live
<1>2. \A j \in Keys : index'[j] = index[j] \/ index'[j] = NoIndex
  BY <1>0
<1>3. \A j \in Keys : index'[j].id # NoId => index'[j] = index[j]
  BY <1>0, <1>2
<1>4. KeysKnown'
  BY <1>3 DEF StoreInv, KeysKnown, OwnKeys, SubKeyOf
<1>5. EntriesLast'
  BY <1>3 DEF StoreInv, EntriesLast
<1>6. SubFollows(r)'
  <2> SUFFICES ASSUME NEW j \in Keys, index'[SubOf(UserOf(j))].id # NoId, owner[index'[SubOf(UserOf(j))].id] = j
               PROVE  index'[j].id \in {index'[SubOf(UserOf(j))].id, NoId}
    BY DEF SubFollows
  <2>1. SubOf(UserOf(j)) \in Keys
    BY KeyFacts
  <2>2. index'[SubOf(UserOf(j))] = index[SubOf(UserOf(j))]
    BY <2>1, <1>3
  <2>3. index[j].id \in {index'[SubOf(UserOf(j))].id, NoId}
    BY <2>2 DEF StoreInv, SubFollows
  <2> QED
    BY <2>3, <1>0, <1>2
<1>7. CookiesIndexed(r)'
  <2> SUFFICES ASSUME NEW b \in Browsers, cookie[b] # NoId
               PROVE  /\ OfBrowser(cookie[b], b)
                      /\ Live(cookie[b]) => index'[owner[cookie[b]]].id = cookie[b] \/ Leaving(r, cookie[b])'
    BY <1>1 DEF CookiesIndexed, OfBrowser
  <2>1. /\ OfBrowser(cookie[b], b)
        /\ Live(cookie[b]) => index[owner[cookie[b]]].id = cookie[b] \/ Leaving(r, cookie[b])
    BY DEF StoreInv, CookiesIndexed
  <2>2. CASE index' = index
    BY <2>1, <2>2
  <2>3. CASE index' # index /\ owner[cookie[b]] # k
    <3>1. owner[cookie[b]] \in Keys
      BY <2>1 DEF OfBrowser, Keys
    <3>2. index'[owner[cookie[b]]] = index[owner[cookie[b]]]
      BY <2>3, <3>1, <1>0
    <3> QED
      BY <2>1, <3>2
  <2>4. CASE index' # index /\ owner[cookie[b]] = k
    BY <2>1, <2>4
  <2> QED
    BY <2>2, <2>3, <2>4
<1> QED
  BY <1>1, <1>4, <1>5, <1>6, <1>7 DEF StoreInv

\* The kill of a session deletes its own entries.
LEMMA KillSidLogout ==
    ASSUME SessionInv, NEW r \in Requests, Alone(r), StoreInv(r), RequestInv(r), KillSid(r)
    PROVE  LogoutInv'
<1> USE Types, SameSetting
<1> DEFINE i == z[r].id
           d == z[r].data
<1>0. /\ pc[r] = "kill_sid" /\ cookie \in [Browsers -> AnyId]
      /\ then[r] = "clean_key" => ~z[r].open
      /\ z[r].open => d # NoSession /\ i \in Ids /\ i <= last
  BY Here, IdFacts DEF SessionInv, TypeOK, KillSid, RequestOk, Stands, CopyOwned
<1>1. /\ setting' = setting /\ cookie' = cookie /\ owner' = owner /\ last' = last /\ sess' = sess
      /\ now' = now /\ req' = req /\ ref' = ref /\ then' = then /\ z' = z /\ out' = out
  BY DEF KillSid, history
<1>2. /\ pc'[r] \in {"kill_session", "kill_sub_read"}
      /\ ~z[r].open => pc'[r] = "kill_session" /\ index' = index
      /\ z[r].open => d.sid = owner[i] /\ owner[i] \in Keys /\ index' = [index EXCEPT ![owner[i]] = NoIndex]
  <2>1. CASE ~z[r].open
    BY <2>1, CacheWorks DEF KillSid, SidKey, SubKey, Goto
  <2>2. CASE z[r].open
    <3>1. d.sid = owner[i] /\ owner[i] \in Users \X Browsers
      BY <2>2, <1>0 DEF RequestInv, CopyOfCookie, OwnKeys, StoreInv, KeysKnown
    <3>2. owner[i] \in Keys
      BY <2>2, <3>1, <1>0, SidIsNoSub
    <3> QED
      BY <2>2, <3>1, <3>2, CacheWorks DEF KillSid, SidKey, Goto
  <2> QED
    BY <2>1, <2>2
<1>3. ASSUME NEW b \in Browsers, Live(cookie[b]), z[r].open, owner[cookie[b]] = owner[i]
      PROVE  cookie[b] = i
  <2>1. Handling(r) /\ i = req[r].sent /\ i # NoId /\ req[r].op # "back"
    BY <1>0, <1>3, IdFacts DEF RequestInv, CopyOfCookie, Handling
  <2>2. i = cookie[req[r].browser] /\ req[r].browser \in Browsers
    BY <2>1, <1>0 DEF RequestInv, CopyOfCookie
  <2>3. OfBrowser(i, req[r].browser) /\ OfBrowser(cookie[b], b)
    BY <2>1, <2>2, <1>3, IdFacts DEF StoreInv, CookiesIndexed, Live
  <2>4. b = req[r].browser
    BY <2>3, <1>3 DEF OfBrowser
  <2> QED
    BY <2>2, <2>4
<1>4. StoreInv(r)' /\ \A j : Live(j)' <=> Live(j)
  <2>1. \A b \in Browsers :
           /\ Live(cookie[b])
           /\ Leaving(r, cookie[b]) \/ (index' # index /\ owner[cookie[b]] = owner[i] /\ index[owner[i]].id = cookie[b])
           => Leaving(r, cookie[b])'
    BY <1>0, <1>1, <1>2, <1>3 DEF Leaving
  <2>2. index' = index \/ (owner[i] \in Keys /\ index' = [index EXCEPT ![owner[i]] = NoIndex])
    BY <1>2
  <2>3. PICK k : k = owner[i]
    OBVIOUS
  <2> QED
    BY <2>1, <2>2, <2>3, <1>0, <1>1, DropEntry
<1>5. out[r] \notin Ids
  BY <1>0 DEF RequestInv, SavesInOrder
<1>6. SavesInOrder(r)' /\ SubCompared(r)'
  BY <1>1, <1>2, <1>5 DEF SavesInOrder, SubCompared, Saving
<1>7. CopyOfCookie(r)'
  <2>1. d # NoSession => OwnKeys(z[r].data, z[r].id)'
    BY <1>1 DEF RequestInv, CopyOfCookie, OwnKeys, SubKeyOf
  <2>2. Handling(r)' <=> Handling(r)
    BY <1>0, <1>1, <1>2 DEF Handling
  <2>3. Live(req[r].sent)' => Live(req[r].sent)
    BY <1>1, <1>4
  <2> QED
    BY <2>1, <2>2, <2>3, <1>0, <1>1, <1>2 DEF RequestInv, CopyOfCookie, Saving
<1>8. CleansAll(r)'
  <2>1. CASE then[r] = "clean_key"
    <3>1. /\ Cleaning(pc[r], then[r]) /\ Cleaning(pc[r], then[r])'
          /\ pc'[r] = "kill_session" /\ index' = index
      BY <2>1, <1>0, <1>1, <1>2 DEF Cleaning
    <3> QED
      BY <3>1, <1>0, <1>1 DEF RequestInv, CleansAll
  <2>2. CASE then[r] # "clean_key"
    <3>1. req[r].op # "back" /\ ~Cleaning(pc[r], then[r])'
      BY <2>2, <1>0, <1>1, <1>2 DEF RequestInv, CopyOfCookie, Handling, Cleaning
    <3> QED
      BY <3>1, <1>1 DEF CleansAll
  <2> QED
    BY <2>1, <2>2
<1> QED
  BY <1>1, <1>4, <1>6, <1>7, <1>8, LogoutParts DEF RequestInv

LEMMA KillSubLogout ==
    ASSUME SessionInv, NEW r \in Requests, Alone(r), StoreInv(r), RequestInv(r), KillSub(r)
    PROVE  LogoutInv'
<1> USE Types, SameSetting
<1> DEFINE i == z[r].id
           d == z[r].data
<1>0. /\ pc[r] = "kill_sub" /\ cookie \in [Browsers -> AnyId] /\ then[r] # "clean_key"
      /\ z[r].open /\ d.sub # NoKey /\ d # NoSession /\ i \in Ids /\ i <= last
  BY Here, IdFacts DEF SessionInv, TypeOK, KillSub, RequestOk, Stands, CopyOwned, RequestInv, SubCompared
<1>1. /\ setting' = setting /\ cookie' = cookie /\ owner' = owner /\ last' = last /\ sess' = sess
      /\ now' = now /\ req' = req /\ then' = then /\ z' = z /\ out' = out
      /\ pc'[r] = "kill_session"
  BY DEF KillSub, history, Goto
<1>2. d.sub = SubOf(UserOf(owner[i])) /\ d.sub \in Keys /\ owner[i] \in Users \X Browsers
  <2>1. OwnKeys(d, i) /\ owner[i] \in Users \X Browsers
    BY <1>0 DEF RequestInv, CopyOfCookie, StoreInv, KeysKnown
  <2> QED
    BY <2>1, <1>0, SidIsNoSub DEF OwnKeys, SubKeyOf
<1>3. index' = index \/ (d.sub \in Keys /\ index' = [index EXCEPT ![d.sub] = NoIndex])
  BY <1>0, <1>2, CacheWorks DEF KillSub, SubKey
<1>4. StoreInv(r)' /\ \A j : Live(j)' <=> Live(j)
  <2>1. ASSUME NEW b \in Browsers, Live(cookie[b]) PROVE owner[cookie[b]] # d.sub
    <3>1. cookie[b] \in Ids /\ OfBrowser(cookie[b], b)
      BY <2>1, IdFacts DEF Live, StoreInv, CookiesIndexed
    <3>2. owner[cookie[b]] \in Users \X Browsers
      BY <3>1 DEF OfBrowser
    <3> QED
      BY <3>1, <3>2, <1>2, SidIsNoSub
  <2>2. \A b \in Browsers :
           /\ Live(cookie[b])
           /\ Leaving(r, cookie[b]) \/ (index' # index /\ owner[cookie[b]] = d.sub /\ index[d.sub].id = cookie[b])
           => Leaving(r, cookie[b])'
    BY <2>1, <1>0, <1>1 DEF Leaving
  <2>3. PICK k : k = d.sub
    OBVIOUS
  <2> QED
    BY <2>2, <2>3, <1>0, <1>1, <1>3, DropEntry
<1>5. out[r] \notin Ids /\ Handling(r) /\ Handling(r)' /\ req[r].op # "back"
  BY <1>0, <1>1 DEF RequestInv, SavesInOrder, CopyOfCookie, Handling
<1>6. SavesInOrder(r)' /\ SubCompared(r)'
  BY <1>1, <1>5 DEF SavesInOrder, SubCompared, Saving
<1>7. CopyOfCookie(r)'
  <2>1. OwnKeys(z[r].data, z[r].id)'
    BY <1>0, <1>1 DEF RequestInv, CopyOfCookie, OwnKeys, SubKeyOf
  <2>2. Live(req[r].sent)' => Live(req[r].sent)
    BY <1>1, <1>4
  <2> QED
    BY <2>1, <2>2, <1>0, <1>1, <1>5 DEF RequestInv, CopyOfCookie, Saving
<1>8. CleansAll(r)'
  BY <1>0, <1>1, <1>5 DEF CleansAll, Cleaning
<1> QED
  BY <1>1, <1>4, <1>6, <1>7, <1>8, LogoutParts DEF RequestInv

\* A logout call deletes the entry of the key it names, those of the session it
\* found, and no other.
LEMMA CleanLogout ==
    ASSUME SessionInv, NEW r \in Requests, Alone(r), StoreInv(r), RequestInv(r),
           CleanKey(r) \/ CleanSid(r) \/ CleanSub(r)
    PROVE  LogoutInv'
<1> USE Types, SameSetting
<1>0. /\ pc[r] \in {"clean_key", "clean_sid", "clean_sub"} /\ cookie \in [Browsers -> AnyId]
      /\ req[r].target \in Keys /\ req[r].op \in {"front", "back"} /\ ref[r] \in Ids /\ ref[r] <= last
      /\ z[r].open => z[r].data # NoSession
      /\ index \in [Keys -> [id : AnyId, expires : Nat]] /\ NoIndex.id = NoId
  BY Here, IdFacts DEF SessionInv, TypeOK, CleanKey, CleanSid, CleanSub, RequestOk, Stands, RefOwned, Cleaning, NoIndex
<1>1. /\ setting' = setting /\ cookie' = cookie /\ owner' = owner /\ last' = last /\ sess' = sess
      /\ now' = now /\ req' = req /\ then' = then /\ z' = z /\ out' = out /\ ref' = ref
  BY DEF CleanKey, CleanSid, CleanSub, Clean, history
<1>2. /\ pc[r] = "clean_key" => pc'[r] = "clean_sid"
      /\ pc[r] = "clean_sid" => pc'[r] = "clean_sub"
      /\ pc[r] = "clean_sub" => pc'[r] = "clean_session"
  BY DEF CleanKey, CleanSid, CleanSub, Goto
<1>3. Cleaning(pc[r], then[r]) /\ Cleaning(pc[r], then[r])'
  BY <1>0, <1>1, <1>2 DEF Cleaning
<1>4. owner[ref[r]] \in Users \X Browsers
  BY <1>0 DEF StoreInv, KeysKnown
<1>5. z[r].open => /\ z[r].id = ref[r] /\ z[r].data.sid = owner[ref[r]]
                   /\ z[r].data.sub = SubKeyOf(ref[r])
  BY <1>0, <1>3 DEF RequestInv, CleansAll, CopyOfCookie, OwnKeys
<1>6. \A j : Leaving(r, j) => Leaving(r, j)'
  BY <1>0, <1>1, <1>2 DEF Leaving
<1>7. ASSUME NEW b \in Browsers, Live(cookie[b]), ~Leaving(r, cookie[b])
      PROVE  /\ index[owner[cookie[b]]].id = cookie[b] /\ cookie[b] \in Ids /\ cookie[b] # NoId
             /\ owner[cookie[b]] \in Users \X Browsers
  BY <1>7, IdFacts DEF Live, StoreInv, CookiesIndexed, OfBrowser
<1> DEFINE Drops(k) ==
             /\ index' = index \/ (k \in Keys /\ index' = [index EXCEPT ![k] = NoIndex])
             /\ \A b \in Browsers :
                  /\ Live(cookie[b])
                  /\ Leaving(r, cookie[b]) \/ (index' # index /\ owner[cookie[b]] = k /\ index[k].id = cookie[b])
                  => Leaving(r, cookie[b])'
<1>8. \E k : Drops(k)
  <2>1. CASE CleanKey(r)
    <3>1. pc[r] = "clean_key" /\ index' = [index EXCEPT ![req[r].target] = NoIndex]
      BY <2>1, <1>0, CacheWorks DEF CleanKey, Clean
    <3>2. index[req[r].target].id = ref[r]
      BY <3>1, <1>3 DEF RequestInv, CleansAll
    <3>3. ASSUME NEW b \in Browsers, Live(cookie[b]), index[req[r].target].id = cookie[b]
          PROVE  Leaving(r, cookie[b])'
      BY <3>1, <3>2, <3>3, <1>1, <1>2 DEF Leaving
    <3>4. Drops(req[r].target)
      BY <3>1, <3>3, <1>0, <1>1, <1>6
    <3> QED
      BY <3>4
  <2>2. CASE CleanSid(r)
    <3>1. CASE ~z[r].open
      BY <2>2, <3>1, <1>6, CacheWorks DEF CleanSid, Clean, SidKey
    <3>2. CASE z[r].open
      <4>1. owner[ref[r]] \in Keys
        BY <1>0, <1>4, SidIsNoSub
      <4>2. pc[r] = "clean_sid" /\ index' = [index EXCEPT ![owner[ref[r]]] = NoIndex]
        BY <2>2, <3>2, <4>1, <1>5, CacheWorks DEF CleanSid, Clean, SidKey
      <4>3. index[owner[ref[r]]].id \in {ref[r], NoId}
        BY <4>2, <1>3 DEF RequestInv, CleansAll
      <4>4. ASSUME NEW b \in Browsers, Live(cookie[b]), index[owner[ref[r]]].id = cookie[b]
            PROVE  Leaving(r, cookie[b])'
        <5>1. cookie[b] # NoId
          BY <4>4, IdFacts DEF Live
        <5> QED
          BY <4>2, <4>3, <4>4, <5>1, <1>1, <1>2 DEF Leaving
      <4>5. Drops(owner[ref[r]])
        BY <4>1, <4>2, <4>4, <1>1, <1>6
      <4> QED
        BY <4>5
    <3> QED
      BY <3>1, <3>2
  <2>3. CASE CleanSub(r)
    <3>1. CASE ~z[r].open \/ ~BackChannel
      BY <2>3, <3>1, <1>5, <1>6, CacheWorks DEF CleanSub, Clean, SubKey, SubKeyOf
    <3>2. CASE z[r].open /\ BackChannel
      <4> DEFINE s == SubOf(UserOf(owner[ref[r]]))
      <4>1. s \in Keys
        BY <1>0, <1>4, SidIsNoSub
      <4>2. index' = [index EXCEPT ![s] = NoIndex]
        BY <2>3, <3>2, <4>1, <1>5, CacheWorks DEF CleanSub, Clean, SubKey, SubKeyOf
      <4>3. ASSUME NEW b \in Browsers, Live(cookie[b]), ~Leaving(r, cookie[b])
            PROVE  owner[cookie[b]] # s
        BY <4>3, <1>7, SidIsNoSub
      <4>4. Drops(s)
        BY <4>1, <4>2, <4>3, <1>1, <1>6
      <4> QED
        BY <4>4
    <3> QED
      BY <3>1, <3>2
  <2> QED
    BY <2>1, <2>2, <2>3
<1>9. StoreInv(r)' /\ \A j : Live(j)' <=> Live(j)
  BY <1>0, <1>1, <1>8, DropEntry
<1>10. out[r] \notin Ids
  BY <1>0 DEF RequestInv, SavesInOrder
<1>11. SavesInOrder(r)' /\ SubCompared(r)'
  BY <1>0, <1>1, <1>2, <1>10 DEF SavesInOrder, SubCompared, Saving
<1>12. CopyOfCookie(r)'
  <2>1. z[r].data # NoSession => OwnKeys(z[r].data, z[r].id)'
    BY <1>1 DEF RequestInv, CopyOfCookie, OwnKeys, SubKeyOf
  <2>2. ~Handling(r)' /\ ~Saving(r)' /\ pc'[r] \notin {"idle", "load"} /\ pc[r] # "idle"
    BY <1>0, <1>2 DEF Handling, Saving
  <2> QED
    BY <2>1, <2>2, <1>1 DEF RequestInv, CopyOfCookie
<1>13. CleansAll(r)'
  <2>0. \A k \in Keys : index'[k] = index[k] \/ index'[k].id = NoId
    BY <1>0, <1>8
  <2>1. owner[ref[r]] \in Keys
    BY <1>0, <1>4, SidIsNoSub
  <2>2. index'[req[r].target].id = NoId
    <3>1. CASE CleanKey(r)
      BY <3>1, <1>0, CacheWorks DEF CleanKey, Clean
    <3>2. CASE CleanSid(r) \/ CleanSub(r)
      <4>1. index[req[r].target].id = NoId
        BY <3>2, <1>3 DEF RequestInv, CleansAll, CleanSid, CleanSub
      <4> QED
        BY <4>1, <2>0, <1>0
    <3> QED
      BY <3>1, <3>2
  <2>3. pc'[r] = "clean_sid" => index'[owner[ref[r]]].id \in {ref[r], NoId}
    <3>1. pc'[r] = "clean_sid" => pc[r] = "clean_key"
      BY <1>0, <1>2
    <3>2. pc[r] = "clean_key" => index[owner[ref[r]]].id \in {ref[r], NoId}
      BY <1>3 DEF RequestInv, CleansAll
    <3> QED
      BY <3>1, <3>2, <2>0, <2>1
  <2>4. z[r].data # NoSession => z[r].id = ref[r]
    BY <1>0, <1>3 DEF RequestInv, CleansAll
  <2>5. pc'[r] \in {"clean_sid", "clean_sub", "clean_session"}
    BY <1>0, <1>2
  <2> QED
    BY <2>2, <2>3, <2>4, <2>5, <1>1, <1>3 DEF CleansAll
<1> QED
  BY <1>1, <1>9, <1>11, <1>12, <1>13, LogoutParts DEF RequestInv

\* The entry of the sid is written before that of the sub.
LEMMA SaveSidLogout ==
    ASSUME SessionInv, NEW r \in Requests, Alone(r), StoreInv(r), RequestInv(r), SaveSid(r)
    PROVE  LogoutInv'
<1> USE Types, SameSetting
<1> DEFINE i == z[r].id
           d == z[r].data
           k == owner[i]
           e == [id |-> i, expires |-> d.expiry]
<1>0. /\ pc[r] = "save_sid" /\ cookie \in [Browsers -> AnyId]
      /\ index \in [Keys -> [id : AnyId, expires : Nat]] /\ Saving(r)
  BY DEF SessionInv, TypeOK, SaveSid, Saving
<1>1. /\ setting' = setting /\ cookie' = cookie /\ owner' = owner /\ last' = last /\ sess' = sess
      /\ now' = now /\ req' = req /\ then' = then /\ z' = z /\ out' = out /\ ref' = ref
      /\ pc'[r] = "save_sub"
  BY DEF SaveSid, SaveIndex, history, Goto
<1>2. /\ i \in Ids /\ d # NoSession /\ OfBrowser(i, req[r].browser)
      /\ cookie[req[r].browser] = i \/ ~Live(cookie[req[r].browser])
      /\ sess[i].expiry <= d.expiry /\ out[r] \notin Ids /\ req[r].op # "back"
      /\ req[r].browser \in Browsers
  BY <1>0 DEF RequestInv, SavesInOrder, CopyOfCookie
<1>3. OwnKeys(d, i) /\ k \in Users \X Browsers
  BY <1>2 DEF RequestInv, CopyOfCookie, OfBrowser
<1>4. k \in Keys /\ k # NoKey /\ d.sid = k /\ \A u : k # SubOf(u)
  BY <1>2, <1>3, SidIsNoSub DEF OwnKeys
<1>5. index' = [index EXCEPT ![k] = e]
  BY <1>4, CacheWorks DEF SaveSid, SaveIndex
<1>6. index'[k] = e /\ \A j \in Keys : j # k => index'[j] = index[j]
  BY <1>0, <1>4, <1>5
<1>7. \A j : Live(j)' <=> Live(j)
  BY <1>1 DEF Live
<1>8. KeysKnown'
  <2>1. ASSUME NEW j \in Keys, index'[j].id # NoId
        PROVE  j = owner[index'[j].id] \/ (BackChannel /\ j = SubOf(UserOf(owner[index'[j].id])))
    <3>1. CASE j = k
      BY <3>1, <1>6
    <3>2. CASE j # k
      BY <3>2, <2>1, <1>6 DEF StoreInv, KeysKnown
    <3> QED
      BY <3>1, <3>2
  <2> QED
    BY <2>1, <1>1 DEF StoreInv, KeysKnown, OwnKeys, SubKeyOf
<1>9. EntriesLast'
  <2>1. ASSUME NEW j \in Keys, index'[j].id # NoId
        PROVE  sess[index'[j].id].expiry <= index'[j].expires
    <3>1. CASE j = k
      BY <3>1, <1>2, <1>6
    <3>2. CASE j # k
      BY <3>2, <2>1, <1>6 DEF StoreInv, EntriesLast
    <3> QED
      BY <3>1, <3>2
  <2> QED
    BY <2>1, <1>1 DEF EntriesLast
<1>10. SubFollows(r)'
  <2> SUFFICES ASSUME NEW j \in Keys, index'[SubOf(UserOf(j))].id # NoId,
                      owner[index'[SubOf(UserOf(j))].id] = j, j # k
               PROVE  index'[j].id \in {index'[SubOf(UserOf(j))].id, NoId}
    BY <1>1 DEF SubFollows
  <2>1. index'[SubOf(UserOf(j))] = index[SubOf(UserOf(j))] /\ index'[j] = index[j]
    BY <1>4, <1>6, KeyFacts
  <2> QED
    BY <2>1, <1>0 DEF StoreInv, SubFollows
<1>11. CookiesIndexed(r)'
  <2> SUFFICES ASSUME NEW b \in Browsers, cookie[b] # NoId
               PROVE  /\ OfBrowser(cookie[b], b)
                      /\ Live(cookie[b]) => index'[owner[cookie[b]]].id = cookie[b]
    BY <1>1, <1>7 DEF CookiesIndexed, OfBrowser
  <2>1. OfBrowser(cookie[b], b) /\ (Live(cookie[b]) => index[owner[cookie[b]]].id = cookie[b])
    BY <1>0 DEF StoreInv, CookiesIndexed, Leaving
  <2>2. owner[cookie[b]] \in Keys
    BY <2>1 DEF OfBrowser, Keys
  <2>3. CASE owner[cookie[b]] = k
    <3>1. b = req[r].browser
      BY <2>1, <2>3, <1>2 DEF OfBrowser
    <3> QED
      BY <2>1, <2>3, <3>1, <1>2, <1>6
  <2>4. CASE owner[cookie[b]] # k
    BY <2>1, <2>2, <2>4, <1>6
  <2> QED
    BY <2>3, <2>4
<1>12. SavesInOrder(r)'
  <2>1. OfBrowser(z[r].id, req[r].browser)'
    BY <1>1, <1>2 DEF OfBrowser
  <2> QED
    BY <2>1, <1>1, <1>2, <1>6, <1>7 DEF SavesInOrder, Saving
<1>13. SubCompared(r)' /\ CleansAll(r)'
  <2>1. ~Cleaning(pc[r], then[r])'
    BY <1>1 DEF Cleaning
  <2> QED
    BY <2>1, <1>1, <1>2 DEF SubCompared, CleansAll
<1>14. CopyOfCookie(r)'
  <2>1. OwnKeys(z[r].data, z[r].id)'
    BY <1>1, <1>3 DEF OwnKeys, SubKeyOf
  <2> QED
    BY <2>1, <1>0, <1>1, <1>2 DEF RequestInv, CopyOfCookie, Handling, Saving
<1> QED
  BY <1>1, <1>8, <1>9, <1>10, <1>11, <1>12, <1>13, <1>14, LogoutParts DEF RequestInv, StoreInv

LEMMA SaveSubLogout ==
    ASSUME SessionInv, NEW r \in Requests, Alone(r), StoreInv(r), RequestInv(r), SaveSub(r)
    PROVE  LogoutInv'
<1> USE Types, SameSetting
<1> DEFINE i == z[r].id
           d == z[r].data
           k == SubOf(UserOf(owner[i]))
           e == [id |-> i, expires |-> d.expiry]
<1>0. /\ pc[r] = "save_sub" /\ cookie \in [Browsers -> AnyId]
      /\ index \in [Keys -> [id : AnyId, expires : Nat]] /\ Saving(r)
  BY DEF SessionInv, TypeOK, SaveSub, Saving
<1>1. /\ setting' = setting /\ cookie' = cookie /\ owner' = owner /\ last' = last /\ sess' = sess
      /\ now' = now /\ req' = req /\ then' = then /\ z' = z /\ out' = out /\ ref' = ref
      /\ pc'[r] = "save_session"
  BY DEF SaveSub, SaveIndex, history, Goto
<1>2. /\ i \in Ids /\ d # NoSession /\ OfBrowser(i, req[r].browser)
      /\ cookie[req[r].browser] = i \/ ~Live(cookie[req[r].browser])
      /\ sess[i].expiry <= d.expiry /\ out[r] \notin Ids /\ req[r].op # "back"
      /\ req[r].browser \in Browsers /\ index[owner[i]] = e
  BY <1>0 DEF RequestInv, SavesInOrder, CopyOfCookie
<1>3. OwnKeys(d, i) /\ owner[i] \in Users \X Browsers
  BY <1>2 DEF RequestInv, CopyOfCookie, OfBrowser
<1>4. /\ k \in Keys /\ k # NoKey /\ owner[i] # k /\ owner[i] \in Keys
      /\ d.sub = IF BackChannel THEN k ELSE NoKey
  BY <1>2, <1>3, SidIsNoSub DEF OwnKeys, SubKeyOf
<1>5. index' = IF BackChannel THEN [index EXCEPT ![k] = e] ELSE index
  BY <1>4, CacheWorks DEF SaveSub, SaveIndex
<1>6. /\ BackChannel => index'[k] = e
      /\ \A j \in Keys : j # k \/ ~BackChannel => index'[j] = index[j]
  BY <1>0, <1>4, <1>5
<1>7. \A j : Live(j)' <=> Live(j)
  BY <1>1 DEF Live
<1>8. KeysKnown'
  <2>1. ASSUME NEW j \in Keys, index'[j].id # NoId
        PROVE  j = owner[index'[j].id] \/ (BackChannel /\ j = SubOf(UserOf(owner[index'[j].id])))
    <3>1. CASE j = k /\ BackChannel
      BY <3>1, <1>6
    <3>2. CASE j # k \/ ~BackChannel
      BY <3>2, <2>1, <1>6 DEF StoreInv, KeysKnown
    <3> QED
      BY <3>1, <3>2
  <2> QED
    BY <2>1, <1>1 DEF StoreInv, KeysKnown, OwnKeys, SubKeyOf
<1>9. EntriesLast'
  <2>1. ASSUME NEW j \in Keys, index'[j].id # NoId
        PROVE  sess[index'[j].id].expiry <= index'[j].expires
    <3>1. CASE j = k /\ BackChannel
      BY <3>1, <1>2, <1>6
    <3>2. CASE j # k \/ ~BackChannel
      BY <3>2, <2>1, <1>6 DEF StoreInv, EntriesLast
    <3> QED
      BY <3>1, <3>2
  <2> QED
    BY <2>1, <1>1 DEF EntriesLast
<1>10. SubFollows(r)'
  <2> SUFFICES ASSUME NEW j \in Keys, index'[SubOf(UserOf(j))].id # NoId,
                      owner[index'[SubOf(UserOf(j))].id] = j
               PROVE  index'[j].id \in {index'[SubOf(UserOf(j))].id, NoId}
    BY <1>1 DEF SubFollows
  <2> DEFINE s == SubOf(UserOf(j))
  <2>0. s \in Keys
    BY KeyFacts
  <2>1. CASE BackChannel /\ s = k
    <3>1. j = owner[i] /\ index'[s].id = i
      BY <2>1, <1>6
    <3>2. index'[j] = e
      BY <3>1, <1>2, <1>4, <1>6
    <3> QED
      BY <3>1, <3>2
  <2>2. CASE s # k
    <3>1. index'[s] = index[s] /\ j # owner[i]
      BY <2>0, <2>2, <1>6
    <3>2. CASE j = k /\ BackChannel
      <4>1. index[s].id \in Ids /\ index[s].id <= last
        BY <2>0, <3>1, <1>0, IdFacts DEF SessionInv, IndexOwned
      <4>2. owner[index[s].id] \in Users \X Browsers
        BY <4>1 DEF StoreInv, KeysKnown
      <4> QED
        BY <3>1, <3>2, <4>1, <4>2, SidIsNoSub
    <3>3. CASE j # k \/ ~BackChannel
      <4>1. index'[j] = index[j]
        BY <3>3, <1>6
      <4> QED
        BY <3>1, <4>1 DEF StoreInv, SubFollows
    <3> QED
      BY <3>2, <3>3
  <2>3. CASE ~BackChannel
    <3>1. index'[s] = index[s] /\ index[s].id \in Ids /\ index[s].id <= last
      BY <2>0, <2>3, <1>0, <1>6, IdFacts DEF SessionInv, IndexOwned
    <3>2. owner[index[s].id] \in Users \X Browsers /\ s = owner[index[s].id]
      BY <2>0, <2>3, <3>1 DEF StoreInv, KeysKnown
    <3> QED
      BY <3>1, <3>2, SidIsNoSub
  <2> QED
    BY <2>1, <2>2, <2>3
<1>11. CookiesIndexed(r)'
  <2> SUFFICES ASSUME NEW b \in Browsers, cookie[b] # NoId
               PROVE  /\ OfBrowser(cookie[b], b)
                      /\ Live(cookie[b]) => index'[owner[cookie[b]]].id = cookie[b]
    BY <1>1, <1>7 DEF CookiesIndexed, OfBrowser
  <2>1. OfBrowser(cookie[b], b) /\ (Live(cookie[b]) => index[owner[cookie[b]]].id = cookie[b])
    BY <1>0 DEF StoreInv, CookiesIndexed, Leaving
  <2>2. cookie[b] \in Ids /\ owner[cookie[b]] \in Users \X Browsers
    BY <2>1, <1>0, IdFacts DEF OfBrowser
  <2>3. owner[cookie[b]] \in Keys /\ owner[cookie[b]] # k
    BY <2>2, SidIsNoSub
  <2> QED
    BY <2>1, <2>3, <1>6
<1>12. SavesInOrder(r)'
  <2>1. OfBrowser(z[r].id, req[r].browser)'
    BY <1>1, <1>2 DEF OfBrowser
  <2>2. index'[owner[i]] = e
    BY <1>2, <1>4, <1>6
  <2> QED
    BY <2>1, <2>2, <1>1, <1>2, <1>6, <1>7 DEF SavesInOrder, Saving
<1>13. SubCompared(r)' /\ CleansAll(r)'
  <2>1. ~Cleaning(pc[r], then[r])'
    BY <1>1 DEF Cleaning
  <2> QED
    BY <2>1, <1>1, <1>2 DEF SubCompared, CleansAll
<1>14. CopyOfCookie(r)'
  <2>1. OwnKeys(z[r].data, z[r].id)'
    BY <1>1, <1>3 DEF OwnKeys, SubKeyOf
  <2> QED
    BY <2>1, <1>0, <1>1, <1>2 DEF RequestInv, CopyOfCookie, Handling, Saving
<1> QED
  BY <1>1, <1>8, <1>9, <1>10, <1>11, <1>12, <1>13, <1>14, LogoutParts DEF RequestInv, StoreInv

\* The session is stored when its entries are.
LEMMA SaveSessionLogout ==
    ASSUME SessionInv, NEW r \in Requests, Alone(r), StoreInv(r), RequestInv(r), SaveSession(r)
    PROVE  LogoutInv'
<1> USE Types, SameSetting
<1> DEFINE i == z[r].id
           d == z[r].data
           e == [id |-> i, expires |-> d.expiry]
<1>0. /\ pc[r] = "save_session" /\ cookie \in [Browsers -> AnyId] /\ sess \in [Ids -> Sessions]
      /\ index \in [Keys -> [id : AnyId, expires : Nat]] /\ Saving(r) /\ d.expiry \in Nat
  BY DEF SessionInv, TypeOK, SaveSession, Saving, Sessions
<1>1. /\ setting' = setting /\ cookie' = cookie /\ owner' = owner /\ last' = last /\ index' = index
      /\ now' = now /\ req' = req /\ then' = then /\ z' = z /\ ref' = ref
      /\ pc'[r] = "reply" /\ out'[r] = i /\ sess' = [sess EXCEPT ![i] = d]
  BY DEF SaveSession, history, Goto, Alone
<1>2. /\ i \in Ids /\ d # NoSession /\ OfBrowser(i, req[r].browser) /\ req[r].op # "back"
      /\ index[owner[i]] = e /\ (BackChannel => index[SubOf(UserOf(owner[i]))] = e)
  BY <1>0 DEF RequestInv, SavesInOrder, CopyOfCookie
<1>3. OwnKeys(d, i)
  BY <1>2 DEF RequestInv, CopyOfCookie
<1>4. \A j \in Ids : sess'[j] = IF j = i THEN d ELSE sess[j]
  BY <1>0, <1>1
<1>5. KeysKnown'
  <2>1. ASSUME NEW j \in Ids, sess'[j] # NoSession PROVE OwnKeys(sess[j], j)'
    BY <2>1, <1>1, <1>3, <1>4 DEF StoreInv, KeysKnown, OwnKeys, SubKeyOf
  <2> QED
    BY <2>1, <1>1 DEF StoreInv, KeysKnown
<1>6. EntriesLast'
  <2>1. ASSUME NEW j \in Keys, index[j].id # NoId PROVE sess'[index[j].id].expiry <= index[j].expires
    <3>1. index[j].id \in Ids
      BY <2>1, <1>0, IdFacts
    <3>2. CASE index[j].id = i
      <4>1. index[j] = e
        BY <2>1, <3>2, <1>2 DEF StoreInv, KeysKnown
      <4> QED
        BY <3>1, <3>2, <4>1, <1>0, <1>4
    <3>3. CASE index[j].id # i
      BY <2>1, <3>1, <3>3, <1>4 DEF StoreInv, EntriesLast
    <3> QED
      BY <3>2, <3>3
  <2> QED
    BY <2>1, <1>1 DEF EntriesLast
<1>7. SubFollows(r)'
  BY <1>0, <1>1 DEF StoreInv, SubFollows
<1>8. CookiesIndexed(r)'
  <2> SUFFICES ASSUME NEW b \in Browsers, cookie[b] # NoId
               PROVE  /\ OfBrowser(cookie[b], b)
                      /\ Live(cookie[b])' => index[owner[cookie[b]]].id = cookie[b]
    BY <1>1 DEF CookiesIndexed, OfBrowser
  <2>1. OfBrowser(cookie[b], b) /\ (Live(cookie[b]) => index[owner[cookie[b]]].id = cookie[b])
    BY <1>0 DEF StoreInv, CookiesIndexed, Leaving
  <2>2. CASE cookie[b] = i
    BY <2>1, <2>2, <1>2
  <2>3. CASE cookie[b] # i
    <3>1. Live(cookie[b])' => Live(cookie[b])
      BY <2>3, <1>1, <1>4 DEF Live
    <3> QED
      BY <2>1, <3>1
  <2> QED
    BY <2>2, <2>3
<1>9. SavesInOrder(r)'
  <2>1. OfBrowser(out[r], req[r].browser)'
    BY <1>1, <1>2 DEF OfBrowser
  <2> QED
    BY <2>1, <1>1, <1>2 DEF SavesInOrder, Saving
<1>10. SubCompared(r)' /\ CleansAll(r)'
  <2>1. ~Cleaning(pc[r], then[r])'
    BY <1>1 DEF Cleaning
  <2> QED
    BY <2>1, <1>1, <1>2 DEF SubCompared, CleansAll
<1>11. CopyOfCookie(r)'
  <2>1. OwnKeys(z[r].data, z[r].id)'
    BY <1>1, <1>3 DEF OwnKeys, SubKeyOf
  <2> QED
    BY <2>1, <1>0, <1>1, <1>2 DEF RequestInv, CopyOfCookie, Handling, Saving
<1> QED
  BY <1>1, <1>5, <1>6, <1>7, <1>8, <1>9, <1>10, <1>11, LogoutParts DEF RequestInv, StoreInv

\* A login takes a new id, and the session of the cookie is deleted.
LEMMA ResetLogout ==
    ASSUME SessionInv, NEW r \in Requests, Alone(r), StoreInv(r), RequestInv(r), Reset(r)
    PROVE  LogoutInv'
<1> USE Types, SameSetting
<1> DEFINE n == last + 1
           k == req[r].target
<1>0. /\ pc[r] = "route" /\ then[r] # "clean_key" /\ cookie \in [Browsers -> AnyId] /\ sess \in [Ids -> Sessions]
      /\ index \in [Keys -> [id : AnyId, expires : Nat]] /\ k \in Keys /\ req[r].op = "login"
      /\ last \in AnyId /\ NoSession.expiry = 0 /\ owner \in [Ids -> Keys \cup {NoKey}] /\ now \in Nat
      /\ setting \in Settings
  BY Here DEF SessionInv, TypeOK, Reset, RequestOk, Stands, NoSession
<1>1. n \in Ids /\ last \in Nat /\ n # NoId
  BY <1>0, IdFacts DEF Reset
<1>2. /\ setting' = setting /\ cookie' = cookie /\ index' = index
      /\ now' = now /\ req' = req /\ then' = then /\ ref' = ref /\ out' = out /\ last' = n
      /\ pc'[r] = "save_sid" /\ z'[r] = ResetZ(r)
      /\ owner' = [owner EXCEPT ![n] = <<UserOf(k), req[r].browser>>]
      /\ \A j \in Ids : sess'[j] = IF j = z[r].id THEN NoSession ELSE sess[j]
  BY <1>0, CacheWorks, IdFacts DEF Reset, Goto
<1>3. /\ req[r].browser \in Browsers /\ req[r].sent = cookie[req[r].browser] /\ k[2] = req[r].browser
      /\ out[r] \notin Ids /\ (Live(req[r].sent) => z[r].id = req[r].sent)
  BY <1>0 DEF RequestInv, CopyOfCookie, SavesInOrder, Handling
<1>4. PICK u \in Users : k = <<u, req[r].browser>>
  BY <1>0, <1>3 DEF Keys
<1>5. UserOf(k) = u /\ owner'[n] = k /\ k \in Users \X Browsers
  BY <1>0, <1>1, <1>2, <1>3, <1>4 DEF UserOf
<1>6. \A j \in Ids : j <= last => owner'[j] = owner[j] /\ j # n
  BY <1>0, <1>1, <1>2, IdFacts
<1>7. /\ z'[r].id = n /\ z'[r].data.sid = k
      /\ z'[r].data.sub = IF BackChannel THEN SubOf(u) ELSE NoKey
      /\ z'[r].data # NoSession /\ z'[r].data.expiry \in Nat
  <2>1. k # SubOf(u)
    <3>1. NoBrowser \notin Browsers
      BY <1>0, SettingFacts
    <3> QED
      BY <3>1, <1>3, <1>4 DEF SubOf
  <2>2. z'[r].data = NewSession(k) /\ z'[r].id = n
    BY <1>2 DEF ResetZ
  <2>3. /\ NewSession(k).user = u /\ NewSession(k).sid = k /\ NewSession(k).expiry = now + Interval
        /\ NewSession(k).sub = IF BackChannel THEN SubOf(u) ELSE NoKey
    BY <2>1, <1>5 DEF NewSession
  <2>4. now + Interval \in Nat
    BY <1>0, SettingFacts
  <2>5. u # NoUser
    BY NamesAssumption
  <2> QED
    BY <2>2, <2>3, <2>4, <2>5, EmptyFacts
<1>8. \A j : Live(j)' => Live(j) /\ j # z[r].id
  BY <1>0, <1>2 DEF Live
<1>9. \A j \in Keys : index[j].id # NoId => index[j].id \in Ids /\ index[j].id <= last
  BY <1>0, IdFacts DEF SessionInv, IndexOwned
<1>10. KeysKnown'
  <2>1. ASSUME NEW j \in Ids, j <= n PROVE owner'[j] \in Users \X Browsers
    <3>1. CASE j = n
      BY <3>1, <1>5
    <3>2. CASE j <= last
      BY <3>2, <1>6 DEF StoreInv, KeysKnown
    <3> QED
      BY <2>1, <3>1, <3>2, <1>1, IdFacts
  <2>2. ASSUME NEW j \in Ids, sess'[j] # NoSession PROVE OwnKeys(sess[j], j)'
    <3>1. sess'[j] = sess[j] /\ j <= last
      BY <2>2, <1>2 DEF SessionInv, StoredOwned
    <3>2. owner'[j] = owner[j]
      BY <3>1, <1>6
    <3> QED
      BY <2>2, <3>1, <3>2 DEF StoreInv, KeysKnown, OwnKeys, SubKeyOf
  <2>3. ASSUME NEW j \in Keys, index[j].id # NoId
        PROVE  j = owner'[index[j].id] \/ (BackChannel /\ j = SubOf(UserOf(owner'[index[j].id])))
    BY <2>3, <1>6, <1>9 DEF StoreInv, KeysKnown
  <2> QED
    BY <2>1, <2>2, <2>3, <1>2 DEF KeysKnown
<1>11. EntriesLast'
  <2>1. ASSUME NEW j \in Keys, index[j].id # NoId PROVE sess'[index[j].id].expiry <= index[j].expires
    <3>1. index[j].id \in Ids /\ index[j].expires \in Nat /\ sess[index[j].id].expiry <= index[j].expires
      BY <2>1, <1>0, <1>9 DEF StoreInv, EntriesLast
    <3>2. CASE index[j].id = z[r].id
      BY <3>1, <3>2, <1>0, <1>2
    <3>3. CASE index[j].id # z[r].id
      BY <3>1, <3>3, <1>2
    <3> QED
      BY <3>2, <3>3
  <2> QED
    BY <2>1, <1>2 DEF EntriesLast
<1>12. SubFollows(r)'
  <2> SUFFICES ASSUME NEW j \in Keys, index[SubOf(UserOf(j))].id # NoId,
                      owner'[index[SubOf(UserOf(j))].id] = j
               PROVE  index[j].id \in {index[SubOf(UserOf(j))].id, NoId}
    BY <1>2 DEF SubFollows
  <2>1. owner[index[SubOf(UserOf(j))].id] = j
    BY <1>6, <1>9, KeyFacts
  <2> QED
    BY <2>1, <1>0 DEF StoreInv, SubFollows
<1>13. CookiesIndexed(r)'
  <2> SUFFICES ASSUME NEW b \in Browsers, cookie[b] # NoId
               PROVE  /\ OfBrowser(cookie[b], b)'
                      /\ Live(cookie[b])' => index[owner'[cookie[b]]].id = cookie[b]
    BY <1>2 DEF CookiesIndexed
  <2>1. OfBrowser(cookie[b], b) /\ (Live(cookie[b]) => index[owner[cookie[b]]].id = cookie[b])
    BY <1>0 DEF StoreInv, CookiesIndexed, Leaving
  <2>2. cookie[b] \in Ids /\ cookie[b] <= last /\ owner'[cookie[b]] = owner[cookie[b]]
    BY <2>1, <1>0, <1>6, IdFacts DEF OfBrowser
  <2>3. cookie[b] <= n
    BY <2>2, <1>1, IdFacts
  <2>4. Live(cookie[b])' => Live(cookie[b])
    BY <1>2, <1>8
  <2> QED
    BY <2>1, <2>2, <2>3, <2>4, <1>2 DEF OfBrowser
<1>14. SavesInOrder(r)'
  <2>1. OfBrowser(z[r].id, req[r].browser)'
    BY <1>1, <1>2, <1>4, <1>5, <1>7 DEF OfBrowser
  <2>2. ~Live(cookie[req[r].browser])'
    BY <1>2, <1>3, <1>8
  <2>3. sess'[n].expiry <= z'[r].data.expiry
    <3>1. sess[n] = NoSession
      BY <1>1, IdFacts DEF SessionInv, StoredOwned
    <3>2. sess'[n] = NoSession
      BY <3>1, <1>1, <1>2
    <3> QED
      BY <3>2, <1>0, <1>7
  <2> QED
    BY <2>1, <2>2, <2>3, <1>1, <1>2, <1>3, <1>7 DEF SavesInOrder, Saving
<1>15. SubCompared(r)' /\ CleansAll(r)'
  <2>1. ~Cleaning(pc[r], then[r])'
    BY <1>2 DEF Cleaning
  <2> QED
    BY <2>1, <1>0, <1>2 DEF SubCompared, CleansAll
<1>16. CopyOfCookie(r)'
  <2>1. OwnKeys(z[r].data, z[r].id)'
    BY <1>5, <1>7 DEF OwnKeys, SubKeyOf
  <2> QED
    BY <2>1, <1>0, <1>2, <1>3 DEF CopyOfCookie, Handling, Saving
<1> QED
  BY <1>2, <1>10, <1>11, <1>12, <1>13, <1>14, <1>15, <1>16, LogoutParts DEF RequestInv, StoreInv

\* The browser takes the cookie of the session that was saved for it.
LEMMA ReplyLogout ==
    ASSUME SessionInv, NEW r \in Requests, Alone(r), StoreInv(r), RequestInv(r), Reply(r)
    PROVE  LogoutInv'
<1> USE Types, SameSetting
<1>0. /\ pc[r] = "reply" /\ cookie \in [Browsers -> AnyId]
  BY DEF SessionInv, TypeOK, Reply
<1>1. /\ setting' = setting /\ owner' = owner /\ last' = last /\ index' = index /\ sess' = sess
      /\ now' = now /\ req'[r] = NoRequest /\ then'[r] = "reply" /\ z'[r] = EmptyZ /\ ref'[r] = NoId
      /\ out'[r] = Keep /\ pc'[r] = "idle"
      /\ \A b \in Browsers : cookie'[b] = CookieAfter(r, b)
  BY DEF Reply, history, Goto
<1>2. \A j : Live(j)' <=> Live(j)
  BY <1>1 DEF Live
<1>3. KeysKnown' /\ EntriesLast'
  BY <1>1 DEF StoreInv, KeysKnown, EntriesLast, OwnKeys, SubKeyOf
<1>4. SubFollows(r)'
  BY <1>0, <1>1 DEF StoreInv, SubFollows
<1>5. CookiesIndexed(r)'
  <2> SUFFICES ASSUME NEW b \in Browsers, cookie'[b] # NoId
               PROVE  /\ OfBrowser(cookie'[b], b)
                      /\ Live(cookie'[b]) => index[owner[cookie'[b]]].id = cookie'[b]
    BY <1>1, <1>2 DEF CookiesIndexed, OfBrowser
  <2>1. CASE cookie'[b] = cookie[b]
    BY <2>1, <1>0 DEF StoreInv, CookiesIndexed, Leaving
  <2>2. CASE cookie'[b] # cookie[b]
    <3>1. b = req[r].browser /\ cookie'[b] = out[r] /\ out[r] # Keep
      BY <2>2, <1>1 DEF CookieAfter
    <3>2. out[r] \in Ids
      BY <3>1, IdFacts
    <3> QED
      BY <3>1, <3>2 DEF RequestInv, SavesInOrder
  <2> QED
    BY <2>1, <2>2
<1>6. RequestInv(r)'
  <2>1. Keep \notin Ids
    BY IdFacts DEF Keep
  <2>2. SavesInOrder(r)' /\ SubCompared(r)'
    BY <2>1, <1>1 DEF SavesInOrder, SubCompared, Saving
  <2>3. CopyOfCookie(r)'
    BY <1>1, EmptyFacts DEF CopyOfCookie, Handling, Saving, NoRequest
  <2>4. CleansAll(r)'
    BY <1>1 DEF CleansAll, Cleaning, NoRequest
  <2> QED
    BY <2>2, <2>3, <2>4 DEF RequestInv
<1> QED
  BY <1>1, <1>3, <1>4, <1>5, <1>6, LogoutParts DEF StoreInv

LEMMA LogoutInit == Init => LogoutInv
<1> SUFFICES ASSUME Init, NEW r \in Requests PROVE StoreInv(r) /\ RequestInv(r)
  BY DEF LogoutInv
<1> USE IdFacts, EmptyFacts, KeyFacts
<1>1. StoreInv(r)
  BY DEF Init, StoreInv, KeysKnown, EntriesLast, SubFollows, CookiesIndexed
<1>2. RequestInv(r)
  BY DEF Init, RequestInv, CopyOfCookie, SavesInOrder, CleansAll, SubCompared, Handling, Saving, Cleaning,
     NoRequest, Keep
<1> QED
  BY <1>1, <1>2

\* The OP sends a sid: without it the sub is the sid of the session, whose entry
\* is deleted without comparing it.
SidSent == \A s \in Settings : FALSE \notin s.sids

\* The inductive invariant of the logout index.
THEOREM LogoutInvariance ==
    ASSUME SidSent
    PROVE  Spec => [](SessionInv /\ (InTurn => LogoutInv))
<1> DEFINE Inv == SessionInv /\ (OneByOne => WindowInv)
<1>1. Init => LogoutInv
  BY LogoutInit
<1>2. Inv /\ (InTurn => LogoutInv) /\ [Next]_vars => (InTurn => LogoutInv)'
  <2> SUFFICES ASSUME Inv, InTurn => LogoutInv, [Next]_vars, InTurn' PROVE LogoutInv'
    OBVIOUS
  <2>0. setting' = setting /\ setting \in Settings
    BY SettingStays DEF SessionInv, TypeOK
  <2>1. InTurn /\ LogoutInv
    BY <2>0, SameSetting DEF InTurn, Faults
  <2>2. PICK r : Alone(r)
    BY <2>0, <2>1, InTurnAlone DEF SidSent, SidClaim
  <2>3. r \in Requests /\ StoreInv(r) /\ RequestInv(r) /\ WindowInv /\ Requests = {r} /\ ~Evict
    BY <2>1, <2>2, OneByOneAlone DEF Alone, LogoutInv, Evict
  <2>4. CASE Tick \/ UNCHANGED vars
    BY <2>2, <2>3, <2>4, TickLogout
  <2>5. CASE \/ BrowserRequest(r) \/ BackChannelRequest(r) \/ Revoke(r)
             \/ LoadFound(r) \/ LoadMissing(r) \/ Extract(r)
             \/ SaveSid(r) \/ SaveSub(r) \/ SaveSession(r)
    BY <2>2, <2>3, <2>5, ArrivesLogout, LoadLogout, ExtractLogout, SaveSidLogout, SaveSubLogout, SaveSessionLogout
  <2>6. CASE \/ KillSid(r) \/ KillSubRead(r) \/ KillSub(r) \/ KillSession(r)
             \/ Unauthenticated(r) \/ ServeEnds(r) \/ Serve(r) \/ Reset(r) \/ Logout(r)
    BY <2>2, <2>3, <2>6, KillSidLogout, KillSubReadLogout, KillSubLogout, DropLogout, RouteLogout, ServeLogout,
       ResetLogout
  <2>7. CASE \/ Lookup(r) \/ Fetch(r) \/ CleanKey(r) \/ CleanSid(r) \/ CleanSub(r) \/ CleanSession(r)
             \/ Reply(r)
    BY <2>2, <2>3, <2>7, LookupLogout, FetchLogout, CleanLogout, DropLogout, ReplyLogout
  <2> QED
    BY <2>3, <2>4, <2>5, <2>6, <2>7 DEF Next
<1> QED
  BY <1>1, <1>2, WindowInvariance, PTL DEF Spec

\* Where requests come one after the other, the cache works and the OP sends a
\* sid, a back-channel logout that names the sid of a session ends it, however
\* often it was used, extended and superseded before (oidc_logout_cleanup_by_sid).
THEOREM LogoutsEnd ==
    ASSUME SidSent
    PROVE  Spec => LogoutEnds
<1> DEFINE Ends ==
      InTurn => \A r \in Requests : req[r].op = "back" /\ pc[r] = "reply" /\ pc'[r] = "idle" =>
         \A b \in Browsers : GetSession(cookie[b]).sid # req[r].target
<1>1. SessionInv /\ (InTurn => LogoutInv) => Ends
  <2> SUFFICES ASSUME SessionInv, LogoutInv, NEW r \in Requests, req[r].op = "back", pc[r] = "reply",
                      NEW b \in Browsers
               PROVE  GetSession(cookie[b]).sid # req[r].target
    OBVIOUS
  <2>1. req[r].target \in Keys /\ KeysKnown /\ CleansAll(r)
    BY Here DEF RequestOk, Stands, LogoutInv, StoreInv, RequestInv
  <2>2. CASE Live(cookie[b])
    <3>1. owner[cookie[b]] # req[r].target
      BY <2>1, <2>2 DEF CleansAll
    <3>2. /\ cookie[b] \in Ids /\ GetSession(cookie[b]) = sess[cookie[b]]
          /\ sess[cookie[b]].expiry > now /\ now \in Nat
      BY <2>2 DEF Live, GetSession, SessionInv, TypeOK
    <3>3. sess[cookie[b]] # NoSession
      BY <3>2 DEF NoSession
    <3> QED
      BY <2>1, <3>1, <3>2, <3>3 DEF KeysKnown, OwnKeys
  <2>3. CASE ~Live(cookie[b])
    <3>1. GetSession(cookie[b]) = NoSession
      BY <2>3 DEF Live, GetSession
    <3> QED
      BY <2>1, <3>1, EmptyFacts, KeyFacts
  <2> QED
    BY <2>2, <2>3
<1>2. SessionInv /\ (InTurn => LogoutInv) => [Ends]_vars
  BY <1>1
<1> HIDE DEF Ends
<1>3. Spec => [][Ends]_vars
  BY <1>2, LogoutInvariance, PTL
<1> QED
  BY <1>3 DEF LogoutEnds, Ends

\* Under the same conditions the kill of a session does not delete the entry of
\* the sub while it leads to another session of the user that goes on
\* (oidc_session_save_cache).
THEOREM SubsKept ==
    ASSUME SidSent
    PROVE  Spec => SubIndexKept
<1> DEFINE Kept ==
      InTurn => \A r \in Requests, u \in Users :
         RemovesSub(r, u) /\ pc[r] \in {"kill_sid", "kill_sub"} =>
             index[SubOf(u)].id = z[r].id \/ ~Survives(index[SubOf(u)].id)
<1>1. SessionInv /\ (InTurn => LogoutInv) /\ [Next]_vars => [Kept]_vars
  <2> SUFFICES ASSUME SessionInv, InTurn, LogoutInv, Next, NEW q \in Requests, NEW u \in Users,
                      RemovesSub(q, u), pc[q] \in {"kill_sid", "kill_sub"}
               PROVE  index[SubOf(u)].id = z[q].id \/ ~Survives(index[SubOf(u)].id)
    OBVIOUS
  <2>1. PICK r : Alone(r)
    BY InTurnAlone DEF SidSent, SidClaim, SessionInv, TypeOK
  <2>2. /\ q = r /\ r \in Requests /\ StoreInv(r) /\ RequestInv(r) /\ Requests = {r}
        /\ pc'[r] # pc[r] /\ index'[SubOf(u)] # index[SubOf(u)]
    BY <2>1 DEF Alone, LogoutInv, RemovesSub
  <2>3. KillSid(r) \/ KillSub(r)
    <3>1. ~Evict /\ ~Tick
      BY <2>2 DEF Evict, Tick
    <3>2. ~(\/ BrowserRequest(r) \/ BackChannelRequest(r) \/ Revoke(r)
            \/ LoadFound(r) \/ LoadMissing(r) \/ Extract(r)
            \/ SaveSid(r) \/ SaveSub(r) \/ SaveSession(r)
            \/ KillSubRead(r) \/ KillSession(r))
      BY <2>2 DEF BrowserRequest, BackChannelRequest, Revoke, LoadFound, LoadMissing, Extract, SaveSid, SaveSub,
         SaveSession, KillSubRead, KillSession
    <3>3. ~(\/ Unauthenticated(r) \/ ServeEnds(r) \/ Serve(r) \/ Reset(r) \/ Logout(r)
            \/ Lookup(r) \/ Fetch(r) \/ CleanKey(r) \/ CleanSid(r) \/ CleanSub(r) \/ CleanSession(r)
            \/ Reply(r))
      BY <2>2 DEF Unauthenticated, ServeEnds, Serve, Reset, Logout, Lookup, Fetch, CleanKey, CleanSid, CleanSub,
         CleanSession, Reply
    <3> QED
      BY <2>2, <3>1, <3>2, <3>3 DEF Next
  <2> DEFINE i == z[r].id
             d == z[r].data
  <2>4. SubOf(u) \in Keys /\ index \in [Keys -> [id : AnyId, expires : Nat]]
    BY KeyFacts DEF SessionInv, TypeOK
  <2>5. CASE KillSid(r)
    <3>1. CASE ~z[r].open
      BY <2>1, <2>2, <2>5, <3>1, CacheWorks DEF KillSid, SidKey
    <3>2. CASE z[r].open
      <4>1. d # NoSession /\ i \in Ids /\ i <= last
        BY <2>2, <3>2, Here, Types, IdFacts DEF RequestOk, Stands, CopyOwned
      <4>2. d.sid = owner[i] /\ owner[i] \in Users \X Browsers
        BY <2>2, <4>1 DEF RequestInv, CopyOfCookie, OwnKeys, StoreInv, KeysKnown
      <4>3. owner[i] \in Keys /\ owner[i] # SubOf(u)
        BY <4>1, <4>2, SidIsNoSub
      <4>4. index' = [index EXCEPT ![owner[i]] = NoIndex]
        BY <2>1, <2>5, <3>2, <4>2, <4>3, CacheWorks DEF KillSid, SidKey
      <4> QED
        BY <2>2, <2>4, <4>3, <4>4
    <3> QED
      BY <3>1, <3>2
  <2>6. CASE KillSub(r)
    <3>1. pc[r] = "kill_sub" /\ z[r].open /\ d.sub # NoKey
      BY <2>2, <2>6 DEF KillSub, RequestInv, SubCompared
    <3>2. MayDropSub(r)
      BY <2>2, <2>6 DEF KillSub
    <3>3. d.sub \in Keys
      BY <2>2, <3>1, Types DEF Sessions
    <3>4. index' = [index EXCEPT ![d.sub] = NoIndex]
      BY <2>1, <2>6, <3>1, <3>2, <3>3, CacheWorks DEF KillSub, SubKey
    <3>5. d.sub = SubOf(u)
      BY <2>2, <2>4, <3>3, <3>4
    <3>6. index[d.sub].id = i \/ ~Live(index[d.sub].id)
      BY <2>2, <3>1, <3>2 DEF RequestInv, SubCompared
    <3>7. \A j : ~Live(j) => ~Survives(j)
      BY DEF Live, Survives, GetSession
    <3> QED
      BY <2>2, <3>5, <3>6, <3>7
  <2> QED
    BY <2>3, <2>5, <2>6
<1> HIDE DEF Kept
<1>2. Spec => [][Kept]_vars
  BY <1>1, LogoutInvariance, PTL DEF Spec
<1> QED
  BY <1>2 DEF SubIndexKept, Kept
=============================================================================
