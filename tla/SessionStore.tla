---------------------------- MODULE SessionStore ----------------------------
(***************************************************************************)
(* Server-cache sessions and their logout index (session.c, and the        *)
(* handlers that load, save and kill a session: mod_auth_openidc.c,        *)
(* handle/response.c, handle/logout.c, handle/revoke.c).                   *)
(*                                                                         *)
(* A session is stored in the cache under a random id, which is the value  *)
(* of the browser's cookie.  A second section of the cache maps the sid    *)
(* and, for back-channel logout, the sub of the OP to the id of a session. *)
(* A request loads a session, works on its copy and may save or kill it.   *)
(* Every read or write of the cache is a step of its own, so that requests *)
(* of several browsers and the logout calls of the OP interleave between   *)
(* any two of them.                                                        *)
(***************************************************************************)
EXTENDS Naturals, FiniteSets

CONSTANTS
    NoBrowser,
    Users,          \* the subjects ("sub") that the OP authenticates
    NoUser,
    MaxId,          \* bound: the session ids 1 .. MaxId
    BackChannel,    \* BOOLEAN: OIDCProviderBackChannelLogoutSupported
    SlackCap,       \* the cap of 60 seconds on the slack
    Settings        \* what is configured and what happens: see below

VARIABLES
    setting,    \* one of the Settings, never changed
    sess,       \* per id: the stored session, or NoSession
    index,      \* per key: [id, expires], or NoIndex
    cookie,     \* per browser: the id in its session cookie, or NoId
    now,        \* apr_time_now()
    last,       \* the last id that was generated
    pc,         \* per request: the next step
    then,       \* per request: the step after a session was loaded or killed
    req,        \* per request: what was asked
    z,          \* per request: the session that it works on
    ref,        \* per request: an id read from the index
    out,        \* per request: the session cookie of the response, or Keep
    owner,      \* per id: the browser and user that logged in (history)
    used        \* per id: when a request was last served with it (history)

Requests == setting.requests    \* the requests that are handled concurrently
Browsers == setting.browsers    \* each with one session cookie
SidClaim == setting.sids        \* subset of BOOLEAN: does an id_token have a "sid" claim?
Operations == setting.operations    \* the kinds of request made
Faults == setting.faults        \* subset of {"get", "set", "index", "evict", "refresh"}
Interval == setting.interval    \* OIDCSessionInactivityTimeout
MaxDuration == setting.duration \* OIDCSessionMaxDuration
MaxTime == setting.end          \* bound: the clock stays in 0..MaxTime
Logins == setting.logins        \* bound: a login is asked for while there were fewer

Ids == 1..MaxId
NoId == 0
Keep == MaxId + 1       \* the response does not set the session cookie

(* The keys "<sid>@<issuer>" and "<sub>@<issuer>" of the index, which      *)
(* share one name space.  An OP session is one of a user in a browser.     *)
Keys == Users \X (Browsers \cup {NoBrowser})
NoKey == <<NoUser, NoBrowser>>
UserOf(k) == k[1]
SubOf(u) == <<u, NoBrowser>>
SidsOf(b, u) == {IF hasSid THEN <<u, b>> ELSE SubOf(u) : hasSid \in SidClaim}

ASSUME NamesAssumption == NoUser \notin Users /\ BackChannel \in BOOLEAN
ASSUME BoundsAssumption == MaxId \in Nat /\ SlackCap \in Nat
ASSUME SettingsAssumption ==
    \A s \in Settings :
        /\ NoBrowser \notin s.browsers /\ s.sids \subseteq BOOLEAN /\ IsFiniteSet(s.requests)
        /\ {s.interval, s.duration, s.end} \subseteq Nat

store == <<sess, index, cookie, now, last, setting>>
history == <<owner, used>>
vars == <<setting, sess, index, cookie, now, last, pc, then, req, z, ref, out, owner, used>>

NoSession == [user |-> NoUser, sid |-> NoKey, sub |-> NoKey, expiry |-> 0, max |-> 0, new |-> FALSE]
NoIndex == [id |-> NoId, expires |-> 0]
NoRequest == [op |-> "none", browser |-> NoBrowser, sent |-> NoId, target |-> NoKey]

(* oidc_session_t: the id, the state, and whether oidc_session_extract has *)
(* filled in the members (remote_user, sid, sub) from the state.           *)
EmptyZ == [id |-> NoId, data |-> NoSession, open |-> FALSE]

Init ==
    /\ setting \in Settings
    /\ sess = [i \in Ids |-> NoSession]
    /\ index = [k \in Keys |-> NoIndex]
    /\ cookie = [b \in Browsers |-> NoId]
    /\ now = 0
    /\ last = 0
    /\ pc = [r \in Requests |-> "idle"]
    /\ then = [r \in Requests |-> "reply"]
    /\ req = [r \in Requests |-> NoRequest]
    /\ z = [r \in Requests |-> EmptyZ]
    /\ ref = [r \in Requests |-> NoId]
    /\ out = [r \in Requests |-> Keep]
    /\ owner = [i \in Ids |-> NoKey]
    /\ used = [i \in Ids |-> 0]

(***************************************************************************)
(* The cache.  A get finds what is stored and has not expired; it may      *)
(* fail, which looks like a miss.  A set or a delete may fail: of a        *)
(* session ("set") or of an index entry ("index").                         *)
(***************************************************************************)
GetSession(i) == IF i \in Ids /\ sess[i].expiry > now THEN sess[i] ELSE NoSession
GetIndex(k) == IF index[k].expires > now THEN index[k].id ELSE NoId
IndexReads(k) == {GetIndex(k)} \cup (IF "get" \in Faults THEN {NoId} ELSE {})

SetIndex(k, entry) ==
    \/ index' = [index EXCEPT ![k] = entry]
    \/ "index" \in Faults /\ index' = index

(* A NULL key is not deleted. *)
DropIndex(k) == IF k = NoKey THEN index' = index ELSE SetIndex(k, NoIndex)

DropSession(i) ==
    \/ sess' = [sess EXCEPT ![i] = NoSession]
    \/ "set" \in Faults /\ sess' = sess

Goto(r, l) == pc' = [pc EXCEPT ![r] = l]

(***************************************************************************)
(* A request arrives.                                                      *)
(***************************************************************************)

(* What a browser b may ask: a protected page, the login response of the   *)
(* OP with an id_token, a logout, or a front-channel logout, which comes   *)
(* from a page of the OP and may lack the cookie.                          *)
BrowserRequests(b) ==
    [op : Operations \cap {"access", "logout"}, browser : {b}, sent : {cookie[b]}, target : {NoKey}]
    \cup [op : Operations \cap (IF last < Logins THEN {"login"} ELSE {}), browser : {b},
          sent : {cookie[b]}, target : UNION {SidsOf(b, u) : u \in Users}]
    \cup [op : Operations \cap {"front"}, browser : {b}, sent : {cookie[b], NoId}, target : Keys]

BrowserRequest(r) ==
    /\ pc[r] = "idle"
    /\ \E b \in Browsers : \E q \in BrowserRequests(b) : req' = [req EXCEPT ![r] = q]
    /\ Goto(r, "load")
    /\ UNCHANGED <<store, then, z, ref, out, history>>

(* A valid back-channel logout token of the OP, with a sid or only a sub. *)
BackChannelRequest(r) ==
    /\ pc[r] = "idle" /\ "back" \in Operations
    /\ \E k \in Keys : req' = [req EXCEPT ![r] = [NoRequest EXCEPT !.op = "back", !.target = k]]
    /\ Goto(r, "lookup")
    /\ UNCHANGED <<store, then, z, ref, out, history>>

(* oidc_revoke_session deletes a session by its id, and nothing else. *)
Revoke(r) ==
    /\ pc[r] = "idle" /\ "revoke" \in Operations
    /\ \E i \in Ids : DropSession(i)
    /\ UNCHANGED <<setting, index, cookie, now, last, pc, then, req, z, ref, out, history>>

(***************************************************************************)
(* oidc_session_load.                                                      *)
(***************************************************************************)
Opened(i) == [id |-> i, data |-> GetSession(i), open |-> FALSE]

(* The session of the cookie is read. *)
LoadFound(r) ==
    /\ pc[r] = "load" /\ GetSession(req[r].sent) # NoSession
    /\ z' = [z EXCEPT ![r] = Opened(req[r].sent)]
    /\ then' = [then EXCEPT ![r] = "route"]
    /\ Goto(r, "extract")
    /\ UNCHANGED <<store, req, ref, out, history>>

(* A cookie without a session is deleted, unless the cache failed. *)
LoadMissing(r) ==
    /\ pc[r] = "load"
    /\ \/ /\ GetSession(req[r].sent) = NoSession
          /\ out' = [out EXCEPT ![r] = IF req[r].sent = NoId THEN Keep ELSE NoId]
       \/ "get" \in Faults /\ UNCHANGED out
    /\ Goto(r, "route")
    /\ UNCHANGED <<store, then, req, z, ref, history>>

(* oidc_session_extract: the members are taken from the state, unless the  *)
(* session has expired; then it is killed, without its sid and sub.        *)
Extract(r) ==
    /\ pc[r] = "extract"
    /\ IF now > z[r].data.expiry
       THEN Goto(r, "kill_sid") /\ UNCHANGED z
       ELSE Goto(r, then[r]) /\ z' = [z EXCEPT ![r].open = TRUE]
    /\ UNCHANGED <<store, then, req, ref, out, history>>

(***************************************************************************)
(* oidc_session_save of a session with state.                              *)
(***************************************************************************)
SaveIndexKeepsExpiry(r, k) ==
    /\ IF k = NoKey \/ index[k].id = z[r].id THEN index' = index
       ELSE SetIndex(k, [id |-> z[r].id, expires |-> z[r].data.expiry])
    /\ UNCHANGED <<setting, sess, cookie, now, last, then, req, z, ref, out, history>>

SaveIndex(r, k) ==
    /\ IF k = NoKey THEN index' = index
       ELSE SetIndex(k, [id |-> z[r].id, expires |-> z[r].data.expiry])
    /\ UNCHANGED <<setting, sess, cookie, now, last, then, req, z, ref, out, history>>

SaveSid(r) == pc[r] = "save_sid" /\ SaveIndex(r, z[r].data.sid) /\ Goto(r, "save_sub")
SaveSub(r) == pc[r] = "save_sub" /\ SaveIndex(r, z[r].data.sub) /\ Goto(r, "save_session")

(* The cookie is set only if the session was stored. *)
SaveSessionAsSent(r) ==
    LET i == IF req[r].sent = NoId THEN z[r].id ELSE req[r].sent
    IN  /\ pc[r] = "save_session"
        /\ \/ /\ sess' = [sess EXCEPT ![i] = z[r].data]
              /\ out' = [out EXCEPT ![r] = i]
           \/ "set" \in Faults /\ UNCHANGED <<sess, out>>
        /\ Goto(r, "reply")
        /\ UNCHANGED <<setting, index, cookie, now, last, then, req, z, ref, history>>

SaveSession(r) ==
    LET i == z[r].id
    IN  /\ pc[r] = "save_session"
        /\ \/ /\ sess' = [sess EXCEPT ![i] = z[r].data]
              /\ out' = [out EXCEPT ![r] = i]
           \/ "set" \in Faults /\ UNCHANGED <<sess, out>>
        /\ Goto(r, "reply")
        /\ UNCHANGED <<setting, index, cookie, now, last, then, req, z, ref, history>>

(***************************************************************************)
(* oidc_session_kill, that is oidc_session_save without state: both index  *)
(* entries are deleted, the shared sub only if it points to this session.  *)
(***************************************************************************)
SidKey(r) == IF z[r].open THEN z[r].data.sid ELSE NoKey
SubKey(r) == IF z[r].open THEN z[r].data.sub ELSE NoKey

KillSid(r) ==
    /\ pc[r] = "kill_sid"
    /\ DropIndex(SidKey(r))
    /\ Goto(r, IF SubKey(r) = NoKey THEN "kill_session" ELSE "kill_sub_read")
    /\ UNCHANGED <<setting, sess, cookie, now, last, then, req, z, ref, out, history>>

KillSubRead(r) ==
    /\ pc[r] = "kill_sub_read"
    /\ \E i \in IndexReads(SubKey(r)) : ref' = [ref EXCEPT ![r] = i]
    /\ Goto(r, "kill_sub")
    /\ UNCHANGED <<store, then, req, z, out, history>>

MayDropSubAlways(r) == TRUE
MayDropSub(r) == ref[r] \in {NoId, z[r].id}

KillSub(r) ==
    /\ pc[r] = "kill_sub"
    /\ IF MayDropSub(r) THEN DropIndex(SubKey(r)) ELSE UNCHANGED index
    /\ ref' = [ref EXCEPT ![r] = NoId]
    /\ Goto(r, "kill_session")
    /\ UNCHANGED <<setting, sess, cookie, now, last, then, req, z, out, history>>

(* The cookie is cleared and the session deleted; only the id stays. *)
KillSession(r) ==
    /\ pc[r] = "kill_session"
    /\ IF z[r].id = NoId THEN UNCHANGED sess ELSE DropSession(z[r].id)
    /\ out' = [out EXCEPT ![r] = NoId]
    /\ z' = [z EXCEPT ![r] = [EmptyZ EXCEPT !.id = z[r].id]]
    /\ Goto(r, then[r])
    /\ UNCHANGED <<setting, index, cookie, now, last, then, req, ref, history>>

Kill(r, l) == Goto(r, "kill_sid") /\ then' = [then EXCEPT ![r] = l]

(***************************************************************************)
(* oidc_check_userid_openidc: what is done with the loaded session.        *)
(***************************************************************************)

(* Requests that leave the session alone: no session, a response of the OP *)
(* that is not accepted, or a failed check or refresh answered with 502.   *)
Unauthenticated(r) ==
    /\ pc[r] = "route"
    /\ \/ req[r].op = "access" /\ ~z[r].open
       \/ req[r].op = "login"
       \/ req[r].op = "access" /\ z[r].open /\ "refresh" \in Faults
    /\ Goto(r, "reply")
    /\ UNCHANGED <<store, then, req, z, ref, out, history>>

(* The maximum duration is exceeded, or a refresh failed and the action    *)
(* configured for that is to log out or to authenticate again.             *)
ServeEnds(r) ==
    /\ pc[r] = "route" /\ req[r].op = "access" /\ z[r].open
    /\ now > z[r].data.max \/ "refresh" \in Faults
    /\ Kill(r, "reply")
    /\ UNCHANGED <<store, req, z, ref, out, history>>

(* oidc_session_pass_tokens: the inactivity timeout starts again, but only *)
(* if a tenth of it (at most SlackCap) has been used up.                   *)
Slack == LET tenth == Interval \div 10 IN IF tenth > SlackCap THEN SlackCap ELSE tenth
ExtendsAtSlack(e) == e < now + Slack
Extends(e) == e + Slack < now + Interval

Serve(r) ==
    LET d == z[r].data
        served == [d EXCEPT !.expiry = IF Extends(@) THEN now + Interval ELSE @, !.new = FALSE]
    IN  /\ pc[r] = "route" /\ req[r].op = "access" /\ z[r].open
        /\ now <= d.max
        /\ z' = [z EXCEPT ![r].data = served]
        /\ used' = [used EXCEPT ![z[r].id] = now]
        /\ \E refreshed \in IF "refresh" \in Faults THEN BOOLEAN ELSE {FALSE} :
             Goto(r, IF Extends(d.expiry) \/ d.new \/ refreshed THEN "save_sid" ELSE "reply")
        /\ UNCHANGED <<store, then, req, ref, out, owner>>

(* The session that a login stores. *)
NewSession(k) ==
    [user |-> UserOf(k), sid |-> k,
     sub |-> IF BackChannel /\ k # SubOf(UserOf(k)) THEN SubOf(UserOf(k)) ELSE NoKey,
     expiry |-> now + Interval, max |-> now + MaxDuration, new |-> TRUE]

(* oidc_session_reset, then oidc_response_save_in_session: the session     *)
(* that was presented is deleted, a new id is generated.                   *)
ResetZKeepsSub(r) ==
    LET new == NewSession(req[r].target)
    IN  [id |-> last + 1, open |-> TRUE,
         data |-> [new EXCEPT !.sub = IF @ = NoKey THEN SubKey(r) ELSE @]]
ResetZ(r) == [id |-> last + 1, data |-> NewSession(req[r].target), open |-> TRUE]

Reset(r) ==
    /\ pc[r] = "route" /\ req[r].op = "login" /\ last < MaxId
    /\ IF z[r].id = NoId THEN UNCHANGED sess ELSE DropSession(z[r].id)
    /\ last' = last + 1
    /\ z' = [z EXCEPT ![r] = ResetZ(r)]
    /\ used' = [used EXCEPT ![last + 1] = now]
    /\ owner' = [owner EXCEPT ![last + 1] = <<UserOf(req[r].target), req[r].browser>>]
    /\ Goto(r, "save_sid")
    /\ UNCHANGED <<setting, index, cookie, now, then, req, ref, out>>

(* oidc_logout_request: the session is killed, if there is one; without    *)
(* one a front-channel logout goes on to the session of its sid.           *)
Logout(r) ==
    /\ pc[r] = "route" /\ req[r].op \in {"logout", "front"}
    /\ Kill(r, IF req[r].op = "front" /\ ~z[r].open THEN "lookup" ELSE "reply")
    /\ UNCHANGED <<store, req, z, ref, out, history>>

(***************************************************************************)
(* oidc_logout_cleanup_by_sid.                                             *)
(***************************************************************************)
Lookup(r) ==
    /\ pc[r] = "lookup"
    /\ \E i \in IndexReads(req[r].target) :
         /\ ref' = [ref EXCEPT ![r] = i]
         /\ Goto(r, IF i = NoId THEN "reply" ELSE "fetch")
    /\ UNCHANGED <<store, then, req, z, out, history>>

(* The session of the id is read, to find both of its index entries; the   *)
(* id may have outlived it.                                                *)
Fetch(r) ==
    /\ pc[r] = "fetch"
    /\ \/ /\ GetSession(ref[r]) # NoSession
          /\ z' = [z EXCEPT ![r] = Opened(ref[r])]
          /\ Goto(r, "extract")
       \/ /\ GetSession(ref[r]) = NoSession \/ "get" \in Faults
          /\ z' = [z EXCEPT ![r] = EmptyZ]
          /\ Goto(r, "clean_key")
    /\ then' = [then EXCEPT ![r] = "clean_key"]
    /\ UNCHANGED <<store, req, ref, out, history>>

Clean(r, k) == DropIndex(k) /\ UNCHANGED <<setting, sess, cookie, now, last, then, req, z, ref, out, history>>

CleanKey(r) == pc[r] = "clean_key" /\ Clean(r, req[r].target) /\ Goto(r, "clean_sid")
CleanSid(r) == pc[r] = "clean_sid" /\ Clean(r, SidKey(r)) /\ Goto(r, "clean_sub")
CleanSub(r) == pc[r] = "clean_sub" /\ Clean(r, SubKey(r)) /\ Goto(r, "clean_session")

CleanSession(r) ==
    /\ pc[r] = "clean_session"
    /\ DropSession(ref[r])
    /\ Goto(r, "reply")
    /\ UNCHANGED <<setting, index, cookie, now, last, then, req, z, ref, out, history>>

(***************************************************************************)
(* The response reaches the browser, in any order with others.             *)
(***************************************************************************)
CookieAfter(r, b) == IF b = req[r].browser /\ out[r] # Keep THEN out[r] ELSE cookie[b]

Reply(r) ==
    /\ pc[r] = "reply"
    /\ cookie' = [b \in Browsers |-> CookieAfter(r, b)]
    /\ Goto(r, "idle")
    /\ then' = [then EXCEPT ![r] = "reply"]
    /\ req' = [req EXCEPT ![r] = NoRequest]
    /\ z' = [z EXCEPT ![r] = EmptyZ]
    /\ ref' = [ref EXCEPT ![r] = NoId]
    /\ out' = [out EXCEPT ![r] = Keep]
    /\ UNCHANGED <<setting, sess, index, now, last, history>>

(* The cache is full and drops an entry. *)
Evict ==
    /\ "evict" \in Faults
    /\ \/ \E i \in Ids : sess' = [sess EXCEPT ![i] = NoSession] /\ UNCHANGED index
       \/ \E k \in Keys : index' = [index EXCEPT ![k] = NoIndex] /\ UNCHANGED sess
    /\ UNCHANGED <<setting, cookie, now, last, pc, then, req, z, ref, out, history>>

Tick ==
    /\ now < MaxTime
    /\ now' = now + 1
    /\ UNCHANGED <<setting, sess, index, cookie, last, pc, then, req, z, ref, out, history>>

Next ==
    \/ Evict \/ Tick
    \/ \E r \in Requests :
         \/ BrowserRequest(r) \/ BackChannelRequest(r) \/ Revoke(r)
         \/ LoadFound(r) \/ LoadMissing(r) \/ Extract(r)
         \/ SaveSid(r) \/ SaveSub(r) \/ SaveSession(r)
         \/ KillSid(r) \/ KillSubRead(r) \/ KillSub(r) \/ KillSession(r)
         \/ Unauthenticated(r) \/ ServeEnds(r) \/ Serve(r) \/ Reset(r) \/ Logout(r)
         \/ Lookup(r) \/ Fetch(r) \/ CleanKey(r) \/ CleanSid(r) \/ CleanSub(r) \/ CleanSession(r)
         \/ Reply(r)

Spec == Init /\ [][Next]_vars

(***************************************************************************)
(* Properties.                                                             *)
(***************************************************************************)
Labels == {"idle", "load", "extract", "route", "save_sid", "save_sub", "save_session",
           "kill_sid", "kill_sub_read", "kill_sub", "kill_session",
           "lookup", "fetch", "clean_key", "clean_sid", "clean_sub", "clean_session", "reply"}
Sessions == [user : Users \cup {NoUser}, sid : Keys \cup {NoKey}, sub : Keys \cup {NoKey},
             expiry : Nat, max : Nat, new : BOOLEAN]
AnyId == Ids \cup {NoId}

TypeOK ==
    /\ setting \in Settings
    /\ sess \in [Ids -> Sessions]
    /\ index \in [Keys -> [id : AnyId, expires : Nat]]
    /\ cookie \in [Browsers -> AnyId]
    /\ now \in Nat /\ last \in AnyId
    /\ pc \in [Requests -> Labels]
    /\ then \in [Requests -> {"route", "lookup", "clean_key", "reply"}]
    /\ req \in [Requests -> [op : {"none", "access", "login", "logout", "front", "back"},
                             browser : Browsers \cup {NoBrowser}, sent : AnyId,
                             target : Keys \cup {NoKey}]]
    /\ z \in [Requests -> [id : AnyId, data : Sessions, open : BOOLEAN]]
    /\ ref \in [Requests -> AnyId]
    /\ out \in [Requests -> AnyId \cup {Keep}]
    /\ owner \in [Ids -> Keys \cup {NoKey}]
    /\ used \in [Ids -> Nat]

(* A session id belongs to one login for ever: whatever requests of any    *)
(* browser save late, fail half-way or log in on top of a session that     *)
(* they present (oidc_session_reset), nobody's session is ever stored      *)
(* under the id of another user's session.                                 *)
OneUserPerId ==
    \A i \in Ids : sess[i] # NoSession => sess[i].user = UserOf(owner[i])

(* A logout call of the OP ends only sessions of the user it names: no     *)
(* index entry, and no id that oidc_logout_cleanup_by_sid has read from    *)
(* one, leads to another user's session, even after the session it pointed *)
(* to was superseded, evicted or saved again.                              *)
LogoutHitsItsUser ==
    /\ \A k \in Keys : LET i == index[k].id
                       IN  i # NoId /\ sess[i] # NoSession => sess[i].user = UserOf(k)
    /\ \A r \in Requests :
         pc[r] \in {"fetch", "clean_session"} /\ sess[ref[r]] # NoSession =>
             sess[ref[r]].user = UserOf(req[r].target)

(* While nothing is under way, a session's remaining life is the           *)
(* inactivity timeout counted from its last use, less at most the slack    *)
(* that oidc_session_pass_tokens allows itself to save writes.             *)
InactivityWindow ==
    (\A r \in Requests : pc[r] = "idle") =>
        \A i \in Ids : sess[i] # NoSession =>
            /\ sess[i].expiry <= used[i] + Interval
            /\ sess[i].expiry + Slack >= used[i] + Interval

(* Requests are handled one after the other, and the cache works. *)
InTurn == Cardinality(Requests) = 1 /\ Faults \subseteq {"refresh"}

(* A back-channel logout that names the sid of a session finds it and ends *)
(* it, however often the session was used and extended before: its index   *)
(* entry lives as long as the session (oidc_session_save_cache).           *)
LogoutEnds ==
    [][InTurn => \A r \in Requests : req[r].op = "back" /\ pc[r] = "reply" /\ pc'[r] = "idle" =>
         \A b \in Browsers : GetSession(cookie[b]).sid # req[r].target]_vars

(* Does request r remove the sub index entry of user u? *)
RemovesSub(r, u) == pc'[r] # pc[r] /\ index[SubOf(u)] # NoIndex /\ index'[SubOf(u)] = NoIndex
Survives(i) == GetSession(i) # NoSession

(* "killing a session no longer deletes the per-user "sub" logout index    *)
(* when it points at a surviving session of the same user" (ChangeLog, and *)
(* the comment in oidc_session_save_cache).                                *)
SubIndexKept ==
    [][InTurn => \A r \in Requests, u \in Users :
         RemovesSub(r, u) /\ pc[r] \in {"kill_sid", "kill_sub"} =>
             index[SubOf(u)].id = z[r].id \/ ~Survives(index[SubOf(u)].id)]_vars
=============================================================================
