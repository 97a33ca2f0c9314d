------------------------------ MODULE AuthnFlow ------------------------------
(***************************************************************************)
(* Authentication requests and responses, matched through state cookies    *)
(* (handle/request.c, state.c, handle/response.c, proto/response.c and     *)
(* proto/id_token.c).                                                      *)
(*                                                                         *)
(* An unauthenticated request is redirected to the OP, and a state cookie  *)
(* named after the state parameter remembers it in the browser.  The OP's  *)
(* response comes back through the browser; the module accepts it if its   *)
(* cookie is there, still decodes and has not timed out, exchanges the     *)
(* code, checks the id_token and its nonce, and starts a session.  Several *)
(* tabs of a browser do this at the same time: a request carries the       *)
(* cookies as they were when it was sent, and its reply adds and deletes   *)
(* cookies when it arrives, in any order with others, or never.            *)
(*                                                                         *)
(* An authentication request is a number, in the order of their creation;  *)
(* it stands for its nonce, its state parameter and its cookie.            *)
(***************************************************************************)
EXTENDS Naturals, FiniteSets

CONSTANTS
    Requests,       \* the requests that are handled concurrently
    NoBrowser,
    NonceMargin,    \* the 10 seconds added to the lifetime of a used nonce
    Settings        \* what is configured, and the bounds that go with it: see below

VARIABLES
    config,     \* one of the Settings, never changed
    now,        \* apr_time_now(), in seconds
    last,       \* the last authentication request
    flow,       \* per authentication request: what became of it
    readable,   \* the state cookies that the current passphrase decodes
    jar,        \* per browser: its state cookies
    session,    \* per browser: the request state of its session, or NoFlow
    nonce,      \* per nonce: until when it is in the replay cache
    pc,         \* per request: the next step
    req,        \* per request: what the browser sent
    del,        \* per request: the state cookies that the reply deletes
    add,        \* per request: the state cookie that the reply sets, or NoFlow
    out,        \* per request: the session that the reply sets, or Keep
    consumed,   \* the state cookies that a response has used (history)
    stored,     \* the nonces that were ever stored (history)
    fresh,      \* per request: its lookup could not find its nonce (history)
    count       \* per authentication request: its sessions, up to 2 (history)

world == <<config, now, last, flow, readable, jar, session, nonce>>
reply == <<del, add, out>>
history == <<consumed, stored, fresh, count>>
vars == <<config, now, last, flow, readable, jar, session, nonce, pc, req, del, add, out,
          consumed, stored, fresh, count>>

Browsers == config.browsers
MaxFlow == config.flows         \* bound: the number of authentication requests
ResponseTypes == config.types   \* subset of {"code", "id_token", "code id_token"}
StateTimeout == config.timeout  \* OIDCStateTimeout
IatSlack == config.slack        \* OIDCIDTokenIatSlack
Events == config.events         \* subset of {"agent", "rekey", "op", "cache", "lose", "logout"}
MaxTime == config.end           \* bound: the clock stays in IatSlack..MaxTime

Flows == 1..MaxFlow
NoFlow == 0
Keep == MaxFlow + 1     \* the reply does not set the session cookie

(* limit and delete are the parameters of OIDCStateMaxNumberOfCookies. *)
ASSUME SettingsAssumption ==
    /\ NonceMargin \in Nat \ {0} /\ IsFiniteSet(Requests)
    /\ \A c \in Settings :
         /\ NoBrowser \notin c.browsers
         /\ c.types \subseteq {"code", "id_token", "code id_token"}
         /\ {c.flows, c.limit, c.timeout, c.slack, c.end} \subseteq Nat
         /\ c.delete \in BOOLEAN

(* The timestamp and response type in the state cookie, whether the        *)
(* browser was sent to the OP, the OP's answer, the iat of its id_token    *)
(* and whether its code can still be exchanged.                            *)
NewFlow(b, t) ==
    [browser |-> b, ts |-> now, type |-> t, sent |-> FALSE, answer |-> "none", iat |-> 0, code |-> TRUE]
NoFlowYet == [NewFlow(NoBrowser, "code") EXCEPT !.ts = 0]
NoRequest == [browser |-> NoBrowser, state |-> NoFlow, cookies |-> {}, session |-> NoFlow, same |-> TRUE]

Init ==
    /\ config \in Settings
    /\ now = IatSlack
    /\ last = 0
    /\ flow = [f \in Flows |-> NoFlowYet]
    /\ readable = Flows
    /\ jar = [b \in Browsers |-> {}]
    /\ session = [b \in Browsers |-> NoFlow]
    /\ nonce = [f \in Flows |-> 0]
    /\ pc = [r \in Requests |-> "idle"]
    /\ req = [r \in Requests |-> NoRequest]
    /\ del = [r \in Requests |-> {}]
    /\ add = [r \in Requests |-> NoFlow]
    /\ out = [r \in Requests |-> Keep]
    /\ consumed = {} /\ stored = {}
    /\ fresh = [r \in Requests |-> TRUE]
    /\ count = [f \in Flows |-> 0]

Goto(r, l) == pc' = [pc EXCEPT ![r] = l]

(***************************************************************************)
(* oidc_state_cookies_clean_expired, over the cookies that a request       *)
(* carries: those that time out or do not decode are deleted.              *)
(***************************************************************************)
TimedOutAtTimeout(f) == now >= flow[f].ts + StateTimeout
TimedOut(f) == now > flow[f].ts + StateTimeout

Valid(C) == {f \in C \cap readable : ~TimedOut(f)}

(* oidc_state_cookies_delete_oldest: the loop goes on until fewer than the *)
(* limit remain, also when the limit is 0.                                 *)
Excess(n) == IF n >= config.limit THEN n + 1 - config.limit ELSE 0

(* Which sets of n of the cookies V are the oldest ones: all of them, if   *)
(* there are not more; cookies of the same second are in any order.        *)
Oldest(V, n) ==
    {D \in SUBSET V : /\ Cardinality(D) = IF n < Cardinality(V) THEN n ELSE Cardinality(V)
                      /\ \A f \in D, g \in V \ D : flow[f].ts <= flow[g].ts}

Superfluous(V) == IF config.delete THEN Oldest(V, Excess(Cardinality(V))) ELSE {{}}

(***************************************************************************)
(* oidc_request_authenticate_user.                                         *)
(***************************************************************************)

(* A page is asked for without a session. *)
Visit(r) ==
    /\ pc[r] = "idle"
    /\ last + Cardinality({q \in Requests : pc[q] = "authenticate"}) < MaxFlow
    /\ \E b \in Browsers :
         /\ session[b] = NoFlow
         /\ req' = [req EXCEPT ![r] = [NoRequest EXCEPT !.browser = b, !.cookies = jar[b]]]
    /\ Goto(r, "authenticate")
    /\ UNCHANGED <<world, reply, history>>

(* "the number of existing, valid state cookies has exceeded the limit" *)
TooManyAboveLimit(n) == config.limit > 0 /\ n > config.limit
TooMany(n) == config.limit > 0 /\ n >= config.limit

(* oidc_request_authorization_set_cookie: expired and superfluous cookies  *)
(* are deleted, then the new one is set, unless there are too many (503).  *)
(* After that the redirect to the OP can still fail (500).                 *)
Authenticate(r) ==
    LET C == req[r].cookies
        f == last + 1
    IN  /\ pc[r] = "authenticate"
        /\ \E D \in Superfluous(Valid(C)) :
             /\ del' = [del EXCEPT ![r] = D \cup (C \ Valid(C))]
             /\ IF TooMany(Cardinality(Valid(C) \ D))
                THEN UNCHANGED <<add, flow, last>>
                ELSE /\ add' = [add EXCEPT ![r] = f]
                     /\ last' = f
                     /\ \E t \in ResponseTypes : flow' = [flow EXCEPT ![f] = NewFlow(req[r].browser, t)]
        /\ Goto(r, "reply")
        /\ UNCHANGED <<config, now, readable, jar, session, nonce, req, out, history>>

(***************************************************************************)
(* The OP (external): it answers a request that reached it, with an error  *)
(* or with what the response type asks for.  Its clock may differ.         *)
(***************************************************************************)
Iats == (now - IatSlack)..(now + IatSlack)

OpAnswers(f) ==
    /\ flow[f].sent /\ flow[f].answer = "none"
    /\ \/ \E t \in Iats : flow' = [flow EXCEPT ![f].answer = "ok", ![f].iat = t]
       \/ "op" \in Events /\ flow' = [flow EXCEPT ![f].answer = "error"]
    /\ UNCHANGED <<config, now, last, readable, jar, session, nonce, pc, req, reply, history>>

(* The response is sent by the browser that was redirected or, because its *)
(* URL was passed on, by another one; it may be sent again (reload, back). *)
(* The headers in the fingerprint may have changed since the request.      *)
Respond(r) ==
    /\ pc[r] = "idle"
    /\ \E b \in Browsers, f \in Flows, s \in IF "agent" \in Events THEN BOOLEAN ELSE {TRUE} :
         /\ flow[f].answer # "none"
         /\ req' = [req EXCEPT ![r] = [browser |-> b, state |-> f, cookies |-> jar[b],
                                       session |-> session[b], same |-> s]]
    /\ Goto(r, "match")
    /\ UNCHANGED <<world, reply, history>>

(***************************************************************************)
(* oidc_response_process.                                                  *)
(***************************************************************************)

(* oidc_response_browser_back: the response that created the session. *)
BrowserBack(r) ==
    /\ pc[r] = "match" /\ req[r].session = req[r].state
    /\ Goto(r, "reply")
    /\ UNCHANGED <<world, req, reply, history>>

(* oidc_response_proto_state_restore: the other cookies are cleaned, this  *)
(* one is deleted if it is there.                                          *)
Cleaned(r) == {f \in req[r].cookies : f = req[r].state \/ f \notin Valid(req[r].cookies)}

RestoresAnyState(r) == TRUE
Restores(r) ==
    LET f == req[r].state
    IN  f \in Valid(req[r].cookies) /\ req[r].same

FirstStep(f) == IF flow[f].type = "code" THEN "exchange" ELSE "nonce_get"

Match(r) ==
    LET f == req[r].state
    IN  /\ pc[r] = "match" /\ req[r].session # f
        /\ del' = [del EXCEPT ![r] = Cleaned(r)]
        /\ consumed' = consumed \cup (req[r].cookies \cap {f})
        /\ Goto(r, IF Restores(r) /\ flow[f].answer = "ok" THEN FirstStep(f) ELSE "reply")
        /\ UNCHANGED <<world, req, add, out, stored, fresh, count>>

(* oidc_proto_resolve_code_and_validate_response: the OP accepts a code    *)
(* once; its answer may be an error or get lost.  In the "code" flow it    *)
(* issues the id_token now.                                                *)
Exchange(r) ==
    LET f == req[r].state
    IN  /\ pc[r] = "exchange"
        /\ \E ok \in IF "op" \in Events THEN BOOLEAN ELSE {TRUE} :
             Goto(r, IF ~ok \/ ~flow[f].code THEN "reply"
                     ELSE IF flow[f].type = "code" THEN "nonce_get" ELSE "session")
        /\ \E t \in IF flow[f].type = "code" /\ flow[f].code THEN Iats ELSE {flow[f].iat} :
             flow' = [flow EXCEPT ![f].code = FALSE, ![f].iat = t]
        /\ UNCHANGED <<config, now, last, readable, jar, session, nonce, req, reply, history>>

(* oidc_proto_idtoken_validate_nonce: the lookup of the nonce.  A failing  *)
(* cache looks like a nonce that was not used.                             *)
NonceGet(r) ==
    LET f == req[r].state
    IN  /\ pc[r] = "nonce_get"
        /\ \E works \in IF "cache" \in Events THEN BOOLEAN ELSE {TRUE} :
             /\ Goto(r, IF works /\ nonce[f] > now THEN "reply" ELSE "nonce_set")
             /\ fresh' = [fresh EXCEPT ![r] = ~works \/ f \notin stored]
        /\ UNCHANGED <<world, req, reply, consumed, stored, count>>

NonceLifetimeOneSided == IatSlack + NonceMargin
NonceLifetime == 2 * IatSlack + NonceMargin

(* oidc_proto_validate_iat *)
IatValid(f) == now <= flow[f].iat + IatSlack /\ flow[f].iat <= now + IatSlack

AfterNonceNoExchange(f) == "session"
AfterNonce(f) == IF flow[f].type = "code id_token" THEN "exchange" ELSE "session"

(* The nonce is stored, then the id_token is validated. *)
NonceSet(r) ==
    LET f == req[r].state
    IN  /\ pc[r] = "nonce_set"
        /\ \E works \in IF "cache" \in Events THEN BOOLEAN ELSE {TRUE} :
             /\ nonce' = [nonce EXCEPT ![f] = IF works THEN now + NonceLifetime ELSE @]
             /\ stored' = IF works THEN stored \cup {f} ELSE stored
        /\ Goto(r, IF IatValid(f) THEN AfterNonce(f) ELSE "reply")
        /\ UNCHANGED <<config, now, last, flow, readable, jar, session, req, reply, consumed, fresh, count>>

(* oidc_session_reset and oidc_response_save_in_session (SessionStore),    *)
(* unless the user cannot be determined.                                   *)
StartSession(r) ==
    /\ pc[r] = "session"
    /\ \/ /\ out' = [out EXCEPT ![r] = req[r].state]
          /\ count' = [count EXCEPT ![req[r].state] = IF @ < 2 THEN @ + 1 ELSE 2]
       \/ "op" \in Events /\ UNCHANGED <<out, count>>
    /\ Goto(r, "reply")
    /\ UNCHANGED <<world, req, del, add, consumed, stored, fresh>>

(***************************************************************************)
(* The reply reaches the browser, or not.  A redirect takes it to the OP,  *)
(* unless the reply is the error of a failed pushed request.               *)
(***************************************************************************)
JarAfter(r, b) == (jar[b] \ del[r]) \cup ({add[r]} \ {NoFlow})

Arrives(r) ==
    LET b == req[r].browser
    IN  /\ jar' = [jar EXCEPT ![b] = JarAfter(r, b)]
        /\ session' = [session EXCEPT ![b] = IF out[r] = Keep THEN @ ELSE out[r]]
        /\ \E s \in IF "op" \in Events THEN BOOLEAN ELSE {TRUE} :
             flow' = IF add[r] = NoFlow THEN flow ELSE [flow EXCEPT ![add[r]].sent = s]

Reply(r) ==
    /\ pc[r] = "reply"
    /\ \/ Arrives(r)
       \/ "lose" \in Events /\ UNCHANGED <<jar, session, flow>>
    /\ Goto(r, "idle")
    /\ req' = [req EXCEPT ![r] = NoRequest]
    /\ del' = [del EXCEPT ![r] = {}]
    /\ add' = [add EXCEPT ![r] = NoFlow]
    /\ out' = [out EXCEPT ![r] = Keep]
    /\ fresh' = [fresh EXCEPT ![r] = TRUE]
    /\ UNCHANGED <<config, now, last, readable, nonce, consumed, stored, count>>

(* A session ends (SessionStore), if there is one. *)
SessionEnds ==
    /\ "logout" \in Events
    /\ \E b \in Browsers : session' = [session EXCEPT ![b] = NoFlow]
    /\ UNCHANGED <<config, now, last, flow, readable, jar, nonce, pc, req, reply, history>>

(* The servers get another OIDCCryptoPassphrase. *)
Rekey ==
    /\ "rekey" \in Events
    /\ readable' = readable \ 1..last
    /\ UNCHANGED <<config, now, last, flow, jar, session, nonce, pc, req, reply, history>>

Tick ==
    /\ now < MaxTime
    /\ now' = now + 1
    /\ UNCHANGED <<config, last, flow, readable, jar, session, nonce, pc, req, reply, history>>

Next ==
    \/ SessionEnds \/ Rekey \/ Tick
    \/ \E f \in Flows : OpAnswers(f)
    \/ \E r \in Requests :
         \/ Visit(r) \/ Authenticate(r) \/ Respond(r) \/ BrowserBack(r) \/ Match(r)
         \/ Exchange(r) \/ NonceGet(r) \/ NonceSet(r) \/ StartSession(r) \/ Reply(r)

Spec == Init /\ [][Next]_vars

(***************************************************************************)
(* Properties.                                                             *)
(***************************************************************************)
FlowRecords ==
    [browser : Browsers \cup {NoBrowser}, ts : Nat, type : ResponseTypes \cup {"code"},
     sent : BOOLEAN, answer : {"none", "ok", "error"}, iat : Nat, code : BOOLEAN]

TypeOK ==
    /\ config \in Settings
    /\ now \in Nat /\ last \in Flows \cup {NoFlow}
    /\ flow \in [Flows -> FlowRecords]
    /\ readable \subseteq Flows /\ consumed \subseteq Flows /\ stored \subseteq Flows
    /\ jar \in [Browsers -> SUBSET Flows]
    /\ session \in [Browsers -> Flows \cup {NoFlow}]
    /\ nonce \in [Flows -> Nat]
    /\ pc \in [Requests -> {"idle", "authenticate", "match", "exchange", "nonce_get", "nonce_set",
                            "session", "reply"}]
    /\ req \in [Requests -> [browser : Browsers \cup {NoBrowser}, state : Flows \cup {NoFlow},
                             cookies : SUBSET Flows, session : Flows \cup {NoFlow}, same : BOOLEAN]]
    /\ del \in [Requests -> SUBSET Flows]
    /\ add \in [Requests -> Flows \cup {NoFlow}]
    /\ out \in [Requests -> Flows \cup {Keep}]
    /\ fresh \in [Requests -> BOOLEAN]
    /\ count \in [Flows -> 0..2]

(* A response leads to a session only in the browser that was sent to the  *)
(* OP with its state: the state cookie binds the two, also when the URL of *)
(* the response is opened elsewhere (oidc_response_proto_state_restore).   *)
BoundToBrowser ==
    \A b \in Browsers : session[b] # NoFlow => flow[session[b]].browser = b

(* The limit on the number of valid state cookies of a browser             *)
(* (oidc_request_authorization_set_cookie) is exceeded by no more than the *)
(* requests that were under way with older cookies.                        *)
WithinLimit ==
    config.limit > 0 =>
        \A b \in Browsers : Cardinality(Valid(jar[b])) < config.limit + Cardinality(Requests)

(* A response that arrives within OIDCStateTimeout finds its state cookie: *)
(* whatever other tabs have started, finished or cleaned up since, the     *)
(* first response to an authentication request is not refused for lack of  *)
(* state.  Deleting the oldest cookies to keep to a limit is the exception *)
(* that the administrator asks for; with the limit 0 there is none:        *)
(* "Setting this to 0 means unlimited, until the browser or server gives   *)
(* up" (auth_openidc.conf).                                                *)
InTimeMatched ==
    [][\A r \in Requests :
         LET f == req[r].state
         IN  /\ pc[r] = "match" /\ pc'[r] = "reply"
             /\ flow[f].answer = "ok" /\ flow[f].browser = req[r].browser /\ req[r].same
             /\ ~(config.delete /\ config.limit > 0)
             => f \in consumed \/ f \notin readable \/ now > flow[f].ts + StateTimeout]_vars

(* An id_token that was used before is not accepted again: as long as it   *)
(* passes the check of its iat, its nonce is in the replay cache           *)
(* (oidc_proto_idtoken_validate_nonce).  Lookups that the cache fails, and *)
(* uses that overlap, are not detected.                                    *)
ReplayRefused ==
    [][\A r \in Requests :
         pc[r] = "nonce_set" /\ pc'[r] \in {"session", "exchange"} => fresh[r]]_vars

(* With a response type that has a code, one response leads to one session *)
(* at most, even if it is sent twice at the same time.                     *)
OneSessionPerCode == \A f \in Flows : flow[f].type # "id_token" => count[f] <= 1
=============================================================================
