-------------------------- MODULE AuthnFlowProofs ---------------------------
(***************************************************************************)
(* A response of the OP starts a session only in the browser that asked    *)
(* for it and, with a code, only once; an id_token is not accepted again;  *)
(* a response in time finds its state; the number of state cookies keeps   *)
(* to the limit: for any number of browsers, concurrent requests and       *)
(* authentication requests, with replies that arrive in any order or never *)
(* and with a failing OP and a failing cache.                              *)
(***************************************************************************)
EXTENDS AuthnFlow, FiniteSetTheorems, TLAPS

\* The requests that may still create an authentication request.
Starting == {q \in Requests : pc[q] = "authenticate"}

\* The numbers of authentication requests suffice for those under way, and the
\* OP's clock does not go below zero.
Bounds == IatSlack <= now /\ last + Cardinality(Starting) <= MaxFlow

\* An authentication request of this browser.
Owns(b, f) == b \in Browsers /\ f \in Flows /\ flow[f].browser = b

\* The steps of a response whose state was found in the request's cookies.
Accepted == {"exchange", "nonce_get", "nonce_set", "session"}

\* State cookies stay with the browser that was sent to the OP: in its jar, in
\* the requests it sends and in the replies to them.
RequestOwns(r) ==
    /\ \A f \in req[r].cookies : Owns(req[r].browser, f)
    /\ pc[r] # "idle" => req[r].browser \in Browsers
    /\ pc[r] \in Accepted => req[r].state \in req[r].cookies
    /\ add[r] # NoFlow => Owns(req[r].browser, add[r])
    /\ out[r] # Keep => Owns(req[r].browser, out[r])
    /\ pc[r] = "idle" => add[r] = NoFlow /\ out[r] = Keep

NotYet == \A f \in Flows : f > last => flow[f].browser = NoBrowser /\ count[f] = 0

Owned ==
    /\ NotYet
    /\ \A b \in Browsers : \A f \in jar[b] : Owns(b, f)
    /\ \A b \in Browsers : session[b] # NoFlow => Owns(b, session[b])
    /\ \A r \in Requests : RequestOwns(r)

\* The request has exchanged the code of f and has not yet started a session.
Past(r, f) ==
    /\ req[r].state = f
    /\ pc[r] = "session" \/ (flow[f].type = "code" /\ pc[r] \in {"nonce_get", "nonce_set"})

\* A code is unused, or in the hands of one request, or has led to a session.
CodeUsedOnce(f) ==
    /\ count[f] <= 1
    /\ flow[f].code => count[f] = 0 /\ \A r \in Requests : ~Past(r, f)
    /\ count[f] = 1 => \A r \in Requests : ~Past(r, f)
    /\ \A r, q \in Requests : Past(r, f) /\ Past(q, f) => r = q

CodesUsedOnce == \A f \in Flows : flow[f].type # "id_token" => CodeUsedOnce(f)

AuthnInv == TypeOK /\ Bounds /\ Owned /\ CodesUsedOnce

(***************************************************************************)
(* Facts about settings, cookies and the numbering.                        *)
(***************************************************************************)
LEMMA ConfigFacts ==
    ASSUME config \in Settings
    PROVE  /\ MaxFlow \in Nat /\ IatSlack \in Nat /\ MaxTime \in Nat /\ StateTimeout \in Nat
           /\ NoBrowser \notin Browsers /\ NonceMargin \in Nat /\ NonceMargin > 0
           /\ ResponseTypes \subseteq {"code", "id_token", "code id_token"}
<1>1. NonceMargin \in Nat /\ NonceMargin > 0
  <2>1. NonceMargin \in Nat \ {0}
    BY SettingsAssumption
  <2> QED
    BY <2>1
<1>2. /\ MaxFlow \in Nat /\ IatSlack \in Nat /\ MaxTime \in Nat /\ StateTimeout \in Nat
      /\ NoBrowser \notin Browsers /\ ResponseTypes \subseteq {"code", "id_token", "code id_token"}
  BY SettingsAssumption DEF MaxFlow, IatSlack, MaxTime, StateTimeout, Browsers, ResponseTypes
<1> QED
  BY <1>1, <1>2

LEMMA SameConfig ==
    ASSUME config' = config
    PROVE  /\ Flows' = Flows /\ Browsers' = Browsers /\ Keep' = Keep /\ MaxFlow' = MaxFlow
           /\ ResponseTypes' = ResponseTypes /\ IatSlack' = IatSlack /\ FlowRecords' = FlowRecords
  BY DEF Flows, Browsers, Keep, MaxFlow, ResponseTypes, IatSlack, FlowRecords

LEMMA FlowFacts ==
    ASSUME TypeOK
    PROVE  /\ MaxFlow \in Nat /\ last \in Nat /\ now \in Nat
           /\ \A f \in Flows : f \in Nat /\ 1 <= f /\ f <= MaxFlow
           /\ NoFlow \notin Flows /\ Keep \notin Flows /\ Keep # NoFlow
<1>1. MaxFlow \in Nat
  BY ConfigFacts DEF TypeOK
<1>2. last \in Flows \cup {NoFlow} /\ now \in Nat
  BY DEF TypeOK
<1> QED
  BY <1>1, <1>2 DEF Flows, NoFlow, Keep

\* Changing a field of an authentication request keeps its type.
LEMMA FieldTypes ==
    ASSUME NEW F \in [Flows -> FlowRecords], NEW f \in Flows, NEW b \in BOOLEAN, NEW t \in Nat,
           NEW a \in {"none", "ok", "error"}
    PROVE  /\ [F EXCEPT ![f].answer = a] \in [Flows -> FlowRecords]
           /\ [F EXCEPT ![f].iat = t] \in [Flows -> FlowRecords]
           /\ [F EXCEPT ![f].code = b] \in [Flows -> FlowRecords]
           /\ [F EXCEPT ![f].sent = b] \in [Flows -> FlowRecords]
<1>1. F[f] \in FlowRecords
  OBVIOUS
<1>2. /\ [F[f] EXCEPT !.answer = a] \in FlowRecords
      /\ [F[f] EXCEPT !.iat = t] \in FlowRecords
      /\ [F[f] EXCEPT !.code = b] \in FlowRecords
      /\ [F[f] EXCEPT !.sent = b] \in FlowRecords
  BY <1>1 DEF FlowRecords
<1> QED
  BY <1>2

LEMMA SuperfluousFacts == \A V : \A D \in Superfluous(V) : D \subseteq V
  BY DEF Superfluous, Oldest

LEMMA ConfigKept == Next => config' = config
  BY DEF Next, SessionEnds, Rekey, Tick, OpAnswers, Visit, Authenticate, Respond, BrowserBack, Match,
     Exchange, NonceGet, NonceSet, StartSession, Reply, world

LEMMA StartingFinite == IsFiniteSet(Starting) /\ Cardinality(Starting) \in Nat
<1>1. Starting \in SUBSET Requests
  BY DEF Starting
<1>2. IsFiniteSet(Requests)
  BY SettingsAssumption
<1>3. IsFiniteSet(Starting)
  BY <1>1, <1>2, FS_Subset
<1> QED
  BY <1>3, FS_CardinalityType

\* A step of a request that is not about to create an authentication request
\* leaves the number of those that are.
LEMMA StartingSame ==
    ASSUME TypeOK, NEW r \in Requests, NEW l, Goto(r, l), pc[r] # "authenticate", l # "authenticate"
    PROVE  Starting' = Starting
  BY DEF Starting, Goto, TypeOK

LEMMA StartingMore ==
    ASSUME TypeOK, NEW r \in Requests, Goto(r, "authenticate"), pc[r] = "idle"
    PROVE  Cardinality(Starting)' = Cardinality(Starting) + 1
<1>1. Starting' = Starting \cup {r} /\ r \notin Starting
  BY DEF Starting, Goto, TypeOK
<1> QED
  BY <1>1, StartingFinite, FS_AddElement

LEMMA StartingLess ==
    ASSUME TypeOK, NEW r \in Requests, Goto(r, "reply"), pc[r] = "authenticate"
    PROVE  Cardinality(Starting)' = Cardinality(Starting) - 1 /\ Cardinality(Starting) >= 1
<1>1. Starting' = Starting \ {r} /\ r \in Starting
  BY DEF Starting, Goto, TypeOK
<1>2. Cardinality(Starting)' = Cardinality(Starting) - 1
  BY <1>1, StartingFinite, FS_RemoveElement
<1>3. Cardinality(Starting) # 0
  BY <1>1, StartingFinite, FS_EmptySet
<1> QED
  BY <1>2, <1>3, StartingFinite

\* The number of a new authentication request.
LEMMA NextFits ==
    ASSUME TypeOK, Bounds, NEW r \in Requests, Authenticate(r)
    PROVE  last + 1 \in Flows
<1>1. Cardinality(Starting) >= 1
  BY StartingLess DEF Authenticate
<1>2. last \in Nat /\ MaxFlow \in Nat /\ last + Cardinality(Starting) <= MaxFlow
  BY FlowFacts DEF Bounds
<1> QED
  BY <1>1, <1>2, StartingFinite DEF Flows

\* The steps that change an authentication request, other than the one that
\* creates it, change neither its browser nor its response type.
LEMMA FlowChanges ==
    ASSUME TypeOK, NEW f \in Flows,
           (\E g \in Flows : OpAnswers(g)) \/ (\E r \in Requests : Exchange(r) \/ Reply(r))
    PROVE  /\ flow'[f].browser = flow[f].browser /\ flow'[f].type = flow[f].type
           /\ flow'[f].code => flow[f].code
<1>1. flow \in [Flows -> FlowRecords]
  BY DEF TypeOK
<1>2. ASSUME NEW g \in Flows, OpAnswers(g)
      PROVE  /\ flow'[f].browser = flow[f].browser /\ flow'[f].type = flow[f].type
             /\ flow'[f].code => flow[f].code
  <2>1. PICK a, t : \/ flow' = [flow EXCEPT ![g].answer = a, ![g].iat = t]
                    \/ flow' = [flow EXCEPT ![g].answer = a]
    BY <1>2 DEF OpAnswers
  <2> QED
    BY <1>1, <2>1 DEF FlowRecords
<1>3. ASSUME NEW r \in Requests, Exchange(r)
      PROVE  /\ flow'[f].browser = flow[f].browser /\ flow'[f].type = flow[f].type
             /\ flow'[f].code => flow[f].code
  <2>1. PICK g, t : flow' = [flow EXCEPT ![g].code = FALSE, ![g].iat = t]
    BY <1>3 DEF Exchange
  <2> QED
    BY <1>1, <2>1 DEF FlowRecords
<1>4. ASSUME NEW r \in Requests, Reply(r)
      PROVE  /\ flow'[f].browser = flow[f].browser /\ flow'[f].type = flow[f].type
             /\ flow'[f].code => flow[f].code
  <2>1. flow' = flow \/ \E t : flow' = [flow EXCEPT ![add[r]].sent = t]
    BY <1>4 DEF Reply, Arrives
  <2>2. CASE flow' # flow
    <3>1. PICK t : flow' = [flow EXCEPT ![add[r]].sent = t]
      BY <2>1, <2>2
    <3> QED
      BY <1>1, <3>1 DEF FlowRecords
  <2> QED
    BY <2>2
<1> QED
  BY <1>2, <1>3, <1>4

\* A response that was accepted names an authentication request of its browser.
LEMMA AcceptedState ==
    ASSUME Owned, NEW r \in Requests, pc[r] \in Accepted
    PROVE  req[r].state \in Flows /\ Owns(req[r].browser, req[r].state)
  BY DEF Owned, RequestOwns, Owns

(***************************************************************************)
(* Types and bounds.                                                       *)
(***************************************************************************)
LEMMA AuthnInit == Init => AuthnInv
<1> SUFFICES ASSUME Init PROVE AuthnInv
  OBVIOUS
<1>1. config \in Settings
  BY DEF Init
<1>2. MaxFlow \in Nat /\ IatSlack \in Nat
  BY <1>1, ConfigFacts
<1>3. now \in Nat /\ NoFlowYet \in FlowRecords /\ NoFlowYet.browser = NoBrowser
  BY <1>2 DEF Init, NoFlowYet, NewFlow, FlowRecords
<1>4. TypeOK
  <2>1. flow \in [Flows -> FlowRecords]
    BY <1>3 DEF Init
  <2>2. last \in Flows \cup {NoFlow} /\ nonce \in [Flows -> Nat] /\ count \in [Flows -> 0..2]
    BY DEF Init, NoFlow
  <2>3. req \in [Requests -> [browser : Browsers \cup {NoBrowser}, state : Flows \cup {NoFlow},
                             cookies : SUBSET Flows, session : Flows \cup {NoFlow}, same : BOOLEAN]]
    BY DEF Init, NoRequest
  <2> QED
    BY <1>1, <1>3, <2>1, <2>2, <2>3 DEF Init, TypeOK
<1>5. Bounds
  <2>1. Starting = {}
    BY DEF Init, Starting
  <2>2. Cardinality(Starting) = 0
    BY <2>1, FS_EmptySet
  <2> QED
    BY <1>2, <2>2 DEF Init, Bounds
<1>6. Owned
  BY <1>3 DEF Init, Owned, NotYet, RequestOwns, NoRequest, Accepted
<1>7. \A r \in Requests, f \in Flows : ~Past(r, f)
  BY DEF Init, Past
<1>8. CodesUsedOnce
  BY <1>7 DEF Init, CodesUsedOnce, CodeUsedOnce
<1> QED
  BY <1>4, <1>5, <1>6, <1>8 DEF AuthnInv

LEMMA TypeStep ==
    ASSUME TypeOK, Bounds, Owned, Next
    PROVE  TypeOK'
<1>1. /\ config' = config /\ Flows' = Flows /\ Browsers' = Browsers /\ Keep' = Keep
      /\ FlowRecords' = FlowRecords
  BY ConfigKept, SameConfig
<1> USE <1>1
<1>2. Iats \subseteq Nat
  <2>1. now \in Nat /\ IatSlack \in Nat /\ IatSlack <= now
    BY ConfigFacts DEF Bounds, TypeOK
  <2> QED
    BY <2>1 DEF Iats
<1>3. \A f \in Flows : flow[f] \in FlowRecords
  BY DEF TypeOK
<1>4. CASE SessionEnds
  BY <1>4 DEF SessionEnds, TypeOK, reply, history
<1>5. CASE Rekey
  BY <1>5 DEF Rekey, TypeOK, reply, history
<1>6. CASE Tick
  <2>1. now' \in Nat
    BY <1>6 DEF Tick, TypeOK
  <2> QED
    BY <1>6, <2>1 DEF Tick, TypeOK, reply, history
<1>7. ASSUME NEW f \in Flows, OpAnswers(f)
      PROVE  TypeOK'
  <2>1. flow' \in [Flows -> FlowRecords]
    <3>1. PICK u \in {"ok", "error"}, t \in Nat :
             \/ flow' = [flow EXCEPT ![f].answer = u, ![f].iat = t]
             \/ flow' = [flow EXCEPT ![f].answer = u]
      BY <1>2, <1>7 DEF OpAnswers
    <3>2. flow \in [Flows -> FlowRecords]
      BY DEF TypeOK
    <3> DEFINE F == [flow EXCEPT ![f].answer = u]
    <3>3. F \in [Flows -> FlowRecords]
      BY <3>1, <3>2, FieldTypes
    <3> HIDE DEF F
    <3>4. [F EXCEPT ![f].iat = t] \in [Flows -> FlowRecords]
      BY <3>1, <3>3, FieldTypes
    <3>5. flow' = [F EXCEPT ![f].iat = t] \/ flow' = F
      BY <3>1 DEF F
    <3> QED
      BY <3>3, <3>4, <3>5
  <2> QED
    BY <1>7, <2>1 DEF OpAnswers, TypeOK, reply, history
<1>8. ASSUME NEW r \in Requests, Visit(r)
      PROVE  TypeOK'
  <2>1. PICK b \in Browsers :
           req' = [req EXCEPT ![r] = [browser |-> b, state |-> NoFlow, cookies |-> jar[b],
                                      session |-> NoFlow, same |-> TRUE]]
    BY <1>8 DEF Visit, NoRequest
  <2>2. jar[b] \subseteq Flows
    BY <2>1 DEF TypeOK
  <2> QED
    BY <1>8, <2>1, <2>2 DEF Visit, Goto, TypeOK, world, reply, history
<1>9. ASSUME NEW r \in Requests, Authenticate(r)
      PROVE  TypeOK'
  <2> DEFINE C == req[r].cookies
             V == Valid(C)
             g == last + 1
  <2>1. g \in Flows
    BY <1>9, NextFits
  <2>2. V \subseteq C /\ C \subseteq Flows
    BY DEF Valid, TypeOK
  <2>3. del' \in [Requests -> SUBSET Flows]
    <3>1. PICK D \in Superfluous(V) : del' = [del EXCEPT ![r] = D \cup (C \ V)]
      BY <1>9 DEF Authenticate
    <3>2. D \cup (C \ V) \subseteq Flows
      BY <2>2, <3>1, SuperfluousFacts
    <3> QED
      BY <3>1, <3>2 DEF TypeOK
  <2>4. ASSUME NEW t \in ResponseTypes
        PROVE  NewFlow(req[r].browser, t) \in FlowRecords
    BY <2>4 DEF NewFlow, FlowRecords, TypeOK
  <2>5. /\ flow' \in [Flows -> FlowRecords]
        /\ last' \in Flows \cup {NoFlow}
        /\ add' \in [Requests -> Flows \cup {NoFlow}]
    <3>1. CASE UNCHANGED <<add, flow, last>>
      BY <3>1 DEF TypeOK
    <3>2. CASE ~UNCHANGED <<add, flow, last>>
      <4>1. PICK t \in ResponseTypes :
               /\ add' = [add EXCEPT ![r] = g] /\ last' = g
               /\ flow' = [flow EXCEPT ![g] = NewFlow(req[r].browser, t)]
        BY <1>9, <3>2 DEF Authenticate
      <4> QED
        BY <2>1, <2>4, <4>1 DEF TypeOK
    <3> QED
      BY <3>1, <3>2
  <2> QED
    BY <1>9, <2>3, <2>5 DEF Authenticate, Goto, TypeOK, history
<1>10. ASSUME NEW r \in Requests, Respond(r)
       PROVE  TypeOK'
  <2>1. PICK b \in Browsers, f \in Flows, s \in BOOLEAN :
           req' = [req EXCEPT ![r] = [browser |-> b, state |-> f, cookies |-> jar[b],
                                      session |-> session[b], same |-> s]]
    BY <1>10 DEF Respond
  <2>2. jar[b] \subseteq Flows /\ session[b] \in Flows \cup {NoFlow}
    BY <2>1 DEF TypeOK
  <2> QED
    BY <1>10, <2>1, <2>2 DEF Respond, Goto, TypeOK, world, reply, history
<1>11. ASSUME NEW r \in Requests, BrowserBack(r)
       PROVE  TypeOK'
  BY <1>11 DEF BrowserBack, Goto, TypeOK, world, reply, history
<1>12. ASSUME NEW r \in Requests, Match(r)
       PROVE  TypeOK'
  <2>1. Cleaned(r) \subseteq Flows /\ req[r].cookies \subseteq Flows
    BY DEF Cleaned, TypeOK
  <2> QED
    BY <1>12, <2>1 DEF Match, FirstStep, Goto, TypeOK, world
<1>13. ASSUME NEW r \in Requests, Exchange(r)
       PROVE  TypeOK'
  <2>1. flow' \in [Flows -> FlowRecords]
    <3>1. req[r].state \in Flows
      BY <1>13, AcceptedState DEF Exchange, Accepted
    <3>2. flow[req[r].state].iat \in Nat
      BY <1>3, <3>1 DEF FlowRecords
    <3>3. PICK t \in Nat : flow' = [flow EXCEPT ![req[r].state].code = FALSE, ![req[r].state].iat = t]
      BY <1>2, <1>13, <3>2 DEF Exchange
    <3> QED
      BY <3>1, <3>3, FieldTypes DEF TypeOK
  <2> QED
    BY <1>13, <2>1 DEF Exchange, Goto, TypeOK, reply, history
<1>14. ASSUME NEW r \in Requests, NonceGet(r)
       PROVE  TypeOK'
  BY <1>14 DEF NonceGet, Goto, TypeOK, world, reply
<1>15. ASSUME NEW r \in Requests, NonceSet(r)
       PROVE  TypeOK'
  <2>0. req[r].state \in Flows
    BY <1>15, AcceptedState DEF NonceSet, Accepted
  <2>1. now + NonceLifetime \in Nat
    <3>1. now \in Nat /\ IatSlack \in Nat /\ NonceMargin \in Nat
      BY ConfigFacts DEF TypeOK
    <3> QED
      BY <3>1 DEF NonceLifetime
  <2>2. nonce' \in [Flows -> Nat] /\ stored' \subseteq Flows
    BY <1>15, <2>0, <2>1 DEF NonceSet, TypeOK
  <2> QED
    BY <1>15, <2>2 DEF NonceSet, AfterNonce, Goto, TypeOK, reply
<1>16. ASSUME NEW r \in Requests, StartSession(r)
       PROVE  TypeOK'
  <2>1. req[r].state \in Flows
    BY <1>16, AcceptedState DEF StartSession, Accepted
  <2> QED
    <3>1. out' \in [Requests -> Flows \cup {Keep}] /\ count' \in [Flows -> 0..2]
      <4>1. count[req[r].state] \in {0, 1, 2} /\ count \in [Flows -> 0..2]
        BY <2>1 DEF TypeOK
      <4>2. (IF count[req[r].state] < 2 THEN count[req[r].state] + 1 ELSE 2) \in 0..2
        BY <4>1
      <4>3. count' \in [Flows -> 0..2]
        BY <1>16, <4>1, <4>2 DEF StartSession
      <4>4. out' \in [Requests -> Flows \cup {Keep}]
        BY <1>16, <2>1 DEF StartSession, TypeOK
      <4> QED
        BY <4>3, <4>4
    <3> QED
      BY <1>16, <3>1 DEF StartSession, Goto, TypeOK, world
<1>17. ASSUME NEW r \in Requests, Reply(r)
       PROVE  TypeOK'
  <2>1. /\ flow' \in [Flows -> FlowRecords]
        /\ jar' \in [Browsers -> SUBSET Flows]
        /\ session' \in [Browsers -> Flows \cup {NoFlow}]
    <3>1. CASE UNCHANGED <<jar, session, flow>>
      BY <3>1 DEF TypeOK
    <3>2. CASE Arrives(r)
      <4>1. add[r] \in Flows \cup {NoFlow} /\ out[r] \in Flows \cup {Keep}
        BY DEF TypeOK
      <4>2. jar' \in [Browsers -> SUBSET Flows] /\ session' \in [Browsers -> Flows \cup {NoFlow}]
        BY <3>2, <4>1 DEF Arrives, JarAfter, TypeOK
      <4>3. PICK s \in BOOLEAN : flow' = IF add[r] = NoFlow THEN flow ELSE [flow EXCEPT ![add[r]].sent = s]
        BY <3>2 DEF Arrives
      <4>4. flow' \in [Flows -> FlowRecords]
        BY <4>1, <4>3, FieldTypes DEF TypeOK
      <4> QED
        BY <4>2, <4>4
    <3> QED
      BY <1>17, <3>1, <3>2 DEF Reply
  <2> QED
    BY <1>17, <2>1 DEF Reply, Goto, NoRequest, TypeOK
<1> QED
  BY <1>4, <1>5, <1>6, <1>7, <1>8, <1>9, <1>10, <1>11, <1>12, <1>13, <1>14, <1>15, <1>16, <1>17 DEF Next

LEMMA BoundsStep ==
    ASSUME TypeOK, Bounds, Next
    PROVE  Bounds'
<1>1. MaxFlow' = MaxFlow /\ IatSlack' = IatSlack /\ MaxFlow \in Nat /\ IatSlack \in Nat
  BY ConfigKept, SameConfig, ConfigFacts DEF TypeOK
<1>2. last \in Nat /\ now \in Nat /\ Cardinality(Starting) \in Nat
  BY FlowFacts, StartingFinite
<1> USE <1>1, <1>2
<1>3. CASE SessionEnds \/ Rekey \/ Tick \/ \E f \in Flows : OpAnswers(f)
  <2>1. pc' = pc /\ last' = last /\ now' \in {now, now + 1}
    BY <1>3 DEF SessionEnds, Rekey, Tick, OpAnswers
  <2>2. Starting' = Starting
    BY <2>1 DEF Starting
  <2> QED
    BY <2>1, <2>2 DEF Bounds
<1>4. ASSUME NEW r \in Requests, Visit(r)
      PROVE  Bounds'
  <2>1. Cardinality(Starting)' = Cardinality(Starting) + 1
    BY <1>4, StartingMore DEF Visit
  <2>2. last' = last /\ now' = now /\ last + Cardinality(Starting) < MaxFlow
    BY <1>4 DEF Visit, world, Starting
  <2> QED
    BY <2>1, <2>2 DEF Bounds
<1>5. ASSUME NEW r \in Requests, Authenticate(r)
      PROVE  Bounds'
  <2>1. Cardinality(Starting)' = Cardinality(Starting) - 1
    BY <1>5, StartingLess DEF Authenticate
  <2>2. last' \in {last, last + 1} /\ now' = now
    BY <1>5 DEF Authenticate
  <2> QED
    BY <2>1, <2>2 DEF Bounds
<1>6. ASSUME NEW r \in Requests,
             \/ Respond(r) \/ BrowserBack(r) \/ Match(r) \/ Exchange(r) \/ NonceGet(r)
             \/ NonceSet(r) \/ StartSession(r) \/ Reply(r)
      PROVE  Bounds'
  <2>1. last' = last /\ now' = now
    BY <1>6 DEF Respond, BrowserBack, Match, Exchange, NonceGet, NonceSet, StartSession, Reply, world
  <2>2. \E l : Goto(r, l) /\ l # "authenticate" /\ pc[r] # "authenticate"
    BY <1>6 DEF Respond, BrowserBack, Match, Exchange, NonceGet, NonceSet, StartSession, Reply, FirstStep, AfterNonce
  <2>3. Starting' = Starting
    BY <2>2, StartingSame
  <2> QED
    BY <2>1, <2>3 DEF Bounds
<1> QED
  BY <1>3, <1>4, <1>5, <1>6 DEF Next

(***************************************************************************)
(* State cookies and sessions stay with their browser.                     *)
(***************************************************************************)

\* An authentication request that has an owner keeps it.
LEMMA OwnerKept ==
    ASSUME TypeOK, Bounds, Owned, Next
    PROVE  \A b, f : Owns(b, f) => Owns(b, f)'
<1>1. /\ config' = config /\ Flows' = Flows /\ Browsers' = Browsers /\ Keep' = Keep
      /\ FlowRecords' = FlowRecords
  BY ConfigKept, SameConfig
<1> SUFFICES ASSUME NEW b, NEW f, Owns(b, f)
             PROVE  flow'[f].browser = flow[f].browser
  BY <1>1 DEF Owns
<1>2. f \in Flows /\ f # last + 1
  <2>1. f \in Flows /\ ~(f > last) /\ f \in Nat /\ last \in Nat
    BY ConfigFacts, FlowFacts DEF Owns, Owned, NotYet, TypeOK
  <2> QED
    BY <2>1
<1>3. ASSUME NEW r \in Requests, Authenticate(r)
      PROVE  flow'[f].browser = flow[f].browser
  BY <1>2, <1>3 DEF Authenticate, TypeOK
<1>4. CASE (\E g \in Flows : OpAnswers(g)) \/ (\E r \in Requests : Exchange(r) \/ Reply(r))
  BY <1>2, <1>4, FlowChanges
<1>5. CASE flow' = flow
  BY <1>5
<1> QED
  BY <1>3, <1>4, <1>5 DEF Next, SessionEnds, Rekey, Tick, Visit, Respond, BrowserBack, Match,
     NonceGet, NonceSet, StartSession, world

LEMMA NotYetStep ==
    ASSUME TypeOK, Bounds, Owned, Next
    PROVE  NotYet'
<1>1. Flows' = Flows /\ NotYet
  BY ConfigKept, SameConfig DEF Owned
<1>2. last \in Nat /\ \A f \in Flows : f \in Nat
  BY FlowFacts
<1>3. ASSUME NEW r \in Requests, Authenticate(r)
      PROVE  NotYet'
  <2>1. last' \in {last, last + 1} /\ count' = count
    BY <1>3 DEF Authenticate, history
  <2>2. ASSUME NEW f \in Flows, f > last'
        PROVE  f > last /\ flow'[f] = flow[f]
    <3>1. f \in Nat /\ f > last
      BY <1>2, <2>1, <2>2
    <3>2. CASE last' = last
      BY <1>2, <1>3, <3>1, <3>2 DEF Authenticate
    <3>3. CASE last' # last
      <4>1. f # last + 1
        BY <1>2, <2>1, <2>2, <3>1, <3>3
      <4> QED
        BY <1>3, <3>1, <4>1 DEF Authenticate, TypeOK
    <3> QED
      BY <3>2, <3>3, <3>1
  <2> QED
    BY <1>1, <2>1, <2>2 DEF NotYet
<1>4. CASE (\E g \in Flows : OpAnswers(g)) \/ (\E r \in Requests : Exchange(r) \/ Reply(r))
  <2>1. last' = last /\ count' = count
    BY <1>4 DEF OpAnswers, Exchange, Reply, history
  <2>2. \A f \in Flows : flow'[f].browser = flow[f].browser
    BY <1>4, FlowChanges
  <2> QED
    BY <1>1, <2>1, <2>2 DEF NotYet
<1>5. ASSUME NEW r \in Requests, StartSession(r)
      PROVE  NotYet'
  <2>1. req[r].state \in Flows /\ flow[req[r].state].browser # NoBrowser
    <3>1. Owns(req[r].browser, req[r].state) /\ NoBrowser \notin Browsers
      BY <1>5, AcceptedState, ConfigFacts DEF StartSession, Accepted, TypeOK
    <3> QED
      BY <3>1 DEF Owns
  <2>2. ~(req[r].state > last)
    BY <1>1, <2>1 DEF NotYet
  <2>3. flow' = flow /\ last' = last /\ \A f \in Flows : f # req[r].state => count'[f] = count[f]
    BY <1>5 DEF StartSession, TypeOK, world
  <2> QED
    BY <1>1, <2>2, <2>3 DEF NotYet
<1>6. CASE UNCHANGED <<flow, last, count>>
  BY <1>1, <1>6 DEF NotYet
<1> QED
  BY <1>3, <1>4, <1>5, <1>6 DEF Next, SessionEnds, Rekey, Tick, Visit, Respond, BrowserBack,
     Match, NonceGet, NonceSet, world, history

\* What the browsers have.
JarsOwned == \A b \in Browsers : \A f \in jar[b] : Owns(b, f)
SessionsOwned == \A b \in Browsers : session[b] # NoFlow => Owns(b, session[b])

LEMMA BrowserStep ==
    ASSUME TypeOK, Bounds, Owned, Next
    PROVE  JarsOwned' /\ SessionsOwned'
<1>1. /\ config' = config /\ Flows' = Flows /\ Browsers' = Browsers /\ Keep' = Keep
      /\ FlowRecords' = FlowRecords
  BY ConfigKept, SameConfig
<1> USE <1>1
<1>2. JarsOwned /\ SessionsOwned
  BY DEF Owned, JarsOwned, SessionsOwned
<1>3. \A b, f : Owns(b, f) => Owns(b, f)'
  BY OwnerKept
<1>4. ASSUME NEW r \in Requests, Reply(r), Arrives(r)
      PROVE  JarsOwned' /\ SessionsOwned'
  <2> DEFINE b == req[r].browser
  <2>1. RequestOwns(r) /\ b \in Browsers
    BY <1>4 DEF Owned, RequestOwns, Reply
  <2>2. /\ jar' = [jar EXCEPT ![b] = JarAfter(r, b)]
        /\ session' = [session EXCEPT ![b] = IF out[r] = Keep THEN @ ELSE out[r]]
    BY <1>4 DEF Arrives
  <2>3. \A f \in JarAfter(r, b) : Owns(b, f)
    BY <1>2, <2>1 DEF JarAfter, JarsOwned, RequestOwns
  <2>4. out[r] # Keep => Owns(b, out[r])
    BY <2>1 DEF RequestOwns
  <2>5. /\ \A c \in Browsers : \A f \in jar'[c] : Owns(c, f)
        /\ \A c \in Browsers : session'[c] # NoFlow => Owns(c, session'[c])
    BY <1>2, <2>1, <2>2, <2>3, <2>4 DEF JarsOwned, SessionsOwned, TypeOK
  <2> QED
    BY <1>3, <2>5 DEF JarsOwned, SessionsOwned, Owns
<1>5. CASE SessionEnds
  BY <1>2, <1>3, <1>5 DEF SessionEnds, JarsOwned, SessionsOwned, TypeOK, Owns
<1>6. CASE UNCHANGED <<jar, session>>
  BY <1>2, <1>3, <1>6 DEF JarsOwned, SessionsOwned, Owns
<1> QED
  BY <1>4, <1>5, <1>6 DEF Next, Rekey, Tick, OpAnswers, Visit, Authenticate, Respond, BrowserBack, Match,
     Exchange, NonceGet, NonceSet, StartSession, Reply, world

\* What another request than the one that takes the step has.
LEMMA OtherRequest ==
    ASSUME TypeOK, Bounds, Owned, Next, NEW q \in Requests,
           pc'[q] = pc[q], req'[q] = req[q], add'[q] = add[q], out'[q] = out[q]
    PROVE  RequestOwns(q)'
<1>1. Browsers' = Browsers /\ Keep' = Keep
  BY ConfigKept, SameConfig
<1>2. RequestOwns(q)
  BY DEF Owned
<1>3. \A b, f : Owns(b, f) => Owns(b, f)'
  BY OwnerKept
<1> QED
  BY <1>1, <1>2, <1>3 DEF RequestOwns, NoFlow, Accepted, Owns

LEMMA RequestStep ==
    ASSUME TypeOK, Bounds, Owned, Next, NEW q \in Requests
    PROVE  RequestOwns(q)'
<1>1. /\ config' = config /\ Flows' = Flows /\ Browsers' = Browsers /\ Keep' = Keep
      /\ FlowRecords' = FlowRecords
  BY ConfigKept, SameConfig
<1> USE <1>1
<1>2. \A b, f : Owns(b, f) => Owns(b, f)'
  BY OwnerKept
<1>3. RequestOwns(q) /\ JarsOwned
  BY DEF Owned, JarsOwned
<1>4. CASE SessionEnds \/ Rekey \/ Tick \/ \E f \in Flows : OpAnswers(f)
  BY <1>4, OtherRequest DEF SessionEnds, Rekey, Tick, OpAnswers, reply
<1>5. ASSUME NEW r \in Requests, Visit(r)
      PROVE  RequestOwns(q)'
  <2>1. CASE q # r
    BY <1>5, <2>1, OtherRequest DEF Visit, Goto, TypeOK, reply
  <2>2. CASE q = r
    BY <1>2, <1>3, <1>5, <2>2 DEF Visit, Goto, NoRequest, RequestOwns, JarsOwned, Accepted, TypeOK, reply, Owns
  <2> QED
    BY <2>1, <2>2
<1>6. ASSUME NEW r \in Requests, Authenticate(r)
      PROVE  RequestOwns(q)'
  <2>1. CASE q # r
    BY <1>6, <2>1, OtherRequest DEF Authenticate, Goto, TypeOK
  <2>2. CASE q = r
    <3>1. last + 1 \in Flows
      BY <1>6, NextFits
    <3>2. req[r].browser \in Browsers /\ req' = req /\ out' = out /\ pc'[r] = "reply"
      BY <1>3, <1>6, <2>2 DEF Authenticate, Goto, RequestOwns, TypeOK
    <3>3. CASE add' = add
      BY <1>2, <1>3, <2>2, <3>2, <3>3 DEF RequestOwns, Accepted, Owns
    <3>4. CASE add' # add
      <4>1. PICK t \in ResponseTypes : flow' = [flow EXCEPT ![last + 1] = NewFlow(req[r].browser, t)]
        BY <1>6, <3>4 DEF Authenticate
      <4>2. flow'[last + 1].browser = req[r].browser /\ add'[r] = last + 1
        BY <1>6, <3>1, <3>4, <4>1 DEF Authenticate, NewFlow, TypeOK
      <4>3. /\ req'[r].browser \in Browsers /\ add'[r] \in Flows
            /\ flow'[add'[r]].browser = req'[r].browser
        BY <3>1, <3>2, <4>2
      <4> QED
        BY <1>2, <1>3, <2>2, <3>2, <4>2, <4>3 DEF RequestOwns, Accepted, Owns
    <3> QED
      BY <3>3, <3>4
  <2> QED
    BY <2>1, <2>2
<1>7. ASSUME NEW r \in Requests, Respond(r)
      PROVE  RequestOwns(q)'
  <2>1. CASE q # r
    BY <1>7, <2>1, OtherRequest DEF Respond, Goto, TypeOK, reply
  <2>2. CASE q = r
    BY <1>2, <1>3, <1>7, <2>2 DEF Respond, Goto, RequestOwns, JarsOwned, Accepted, TypeOK, reply, Owns
  <2> QED
    BY <2>1, <2>2
<1>8. ASSUME NEW r \in Requests, Match(r)
      PROVE  RequestOwns(q)'
  <2>1. CASE q # r
    BY <1>8, <2>1, OtherRequest DEF Match, Goto, TypeOK
  <2>2. CASE q = r
    <3>1. Restores(r) => req[r].state \in req[r].cookies
      BY DEF Restores, Valid
    <3> QED
      BY <1>2, <1>3, <1>8, <2>2, <3>1 DEF Match, Goto, FirstStep, RequestOwns, Accepted, TypeOK, Owns
  <2> QED
    BY <2>1, <2>2
<1>9. ASSUME NEW r \in Requests,
             BrowserBack(r) \/ Exchange(r) \/ NonceGet(r) \/ NonceSet(r)
      PROVE  RequestOwns(q)'
  <2>1. UNCHANGED <<req, add, out>> /\ \A u \in Requests \ {r} : pc'[u] = pc[u]
    BY <1>9 DEF BrowserBack, Exchange, NonceGet, NonceSet, Goto, TypeOK, reply
  <2>2. pc'[r] # "idle" /\ pc[r] # "idle" /\ (pc'[r] \in Accepted => pc[r] \in Accepted)
    BY <1>9 DEF BrowserBack, Exchange, NonceGet, NonceSet, AfterNonce, Accepted, Goto, TypeOK
  <2>3. CASE q # r
    BY <2>1, <2>3, OtherRequest
  <2>4. CASE q = r
    BY <1>2, <1>3, <2>1, <2>2, <2>4 DEF RequestOwns, Accepted, Owns
  <2> QED
    BY <2>3, <2>4
<1>10. ASSUME NEW r \in Requests, StartSession(r)
       PROVE  RequestOwns(q)'
  <2>1. CASE q # r
    BY <1>10, <2>1, OtherRequest DEF StartSession, Goto, TypeOK
  <2>2. CASE q = r
    <3>1. Owns(req[r].browser, req[r].state)
      BY <1>10, AcceptedState DEF StartSession, Accepted
    <3>2. pc'[r] = "reply" /\ out'[r] \in {out[r], req[r].state} /\ UNCHANGED <<req, add>> /\ pc[r] # "idle"
      BY <1>10 DEF StartSession, Goto, TypeOK
    <3> QED
      BY <1>2, <1>3, <2>2, <3>1, <3>2 DEF RequestOwns, Accepted, Owns
  <2> QED
    BY <2>1, <2>2
<1>11. ASSUME NEW r \in Requests, Reply(r)
       PROVE  RequestOwns(q)'
  <2>1. CASE q # r
    BY <1>11, <2>1, OtherRequest DEF Reply, Goto, TypeOK
  <2>2. CASE q = r
    BY <1>11, <2>2 DEF Reply, Goto, NoRequest, RequestOwns, Accepted, TypeOK
  <2> QED
    BY <2>1, <2>2
<1> QED
  BY <1>4, <1>5, <1>6, <1>7, <1>8, <1>9, <1>10, <1>11 DEF Next

LEMMA OwnedStep ==
    ASSUME TypeOK, Bounds, Owned, Next
    PROVE  Owned'
  BY NotYetStep, BrowserStep, RequestStep DEF Owned, JarsOwned, SessionsOwned

(***************************************************************************)
(* A code leads to one session.                                            *)
(***************************************************************************)

\* A step that takes nobody past the exchange of f, creates no session and
\* does not renew its code.
LEMMA CodeKept ==
    ASSUME NEW f, CodeUsedOnce(f), flow'[f].code => flow[f].code, count'[f] = count[f],
           \A q \in Requests : Past(q, f)' => Past(q, f)
    PROVE  CodeUsedOnce(f)'
  BY DEF CodeUsedOnce

\* A new authentication request is nobody's yet.
LEMMA CodeNew ==
    ASSUME TypeOK, Bounds, Owned, NEW r \in Requests, Authenticate(r), NEW f \in Flows, f > last
    PROVE  CodeUsedOnce(f)'
<1>1. count'[f] = 0
  BY DEF Authenticate, Owned, NotYet, history
<1>2. ASSUME NEW q \in Requests
      PROVE  ~Past(q, f)'
  <2>1. CASE pc[q] \in Accepted
    <3>1. Owns(req[q].browser, req[q].state) /\ NoBrowser \notin Browsers
      BY <2>1, AcceptedState, ConfigFacts DEF TypeOK
    <3>2. req[q].state # f
      BY <3>1 DEF Owns, Owned, NotYet
    <3> QED
      BY <3>2 DEF Past, Authenticate
  <2>2. CASE pc[q] \notin Accepted
    <3>1. pc'[q] \notin Accepted
      BY <2>2 DEF Authenticate, Goto, Accepted, TypeOK
    <3> QED
      BY <3>1 DEF Past, Accepted
  <2> QED
    BY <2>1, <2>2
<1> QED
  BY <1>1, <1>2 DEF CodeUsedOnce

LEMMA CodesStep ==
    ASSUME TypeOK, Bounds, Owned, CodesUsedOnce, Next
    PROVE  CodesUsedOnce'
<1>1. /\ config' = config /\ Flows' = Flows /\ Browsers' = Browsers /\ Keep' = Keep
      /\ FlowRecords' = FlowRecords
  BY ConfigKept, SameConfig
<1> USE <1>1
<1> SUFFICES ASSUME NEW f \in Flows, flow'[f].type # "id_token"
             PROVE  CodeUsedOnce(f)'
  BY DEF CodesUsedOnce
<1>2. flow[f] \in FlowRecords /\ flow[f].type \in {"code", "id_token", "code id_token"}
  BY ConfigFacts DEF TypeOK, FlowRecords
<1>3. flow[f].type # "id_token" => CodeUsedOnce(f)
  BY DEF CodesUsedOnce
<1>4. CASE SessionEnds \/ Rekey \/ Tick
  BY <1>3, <1>4, CodeKept DEF SessionEnds, Rekey, Tick, Past, history
<1>5. ASSUME NEW g \in Flows, OpAnswers(g)
      PROVE  CodeUsedOnce(f)'
  <2>1. flow'[f].type = flow[f].type /\ (flow'[f].code => flow[f].code)
    BY <1>5, FlowChanges
  <2> QED
    BY <1>3, <1>5, <2>1, CodeKept DEF OpAnswers, Past, history
<1>6. ASSUME NEW r \in Requests, Visit(r) \/ Respond(r)
      PROVE  CodeUsedOnce(f)'
  <2>1. flow' = flow /\ count' = count
    BY <1>6 DEF Visit, Respond, world, history
  <2>2. \A q \in Requests : Past(q, f)' => Past(q, f)
    BY <1>6, <2>1 DEF Visit, Respond, Goto, Past, TypeOK
  <2> QED
    BY <1>3, <2>1, <2>2, CodeKept
<1>7. ASSUME NEW r \in Requests, Authenticate(r)
      PROVE  CodeUsedOnce(f)'
  <2>1. CASE f > last
    BY <1>7, <2>1, CodeNew
  <2>2. CASE ~(f > last)
    <3>1. f # last + 1
      BY <2>2, FlowFacts
    <3>2. flow'[f] = flow[f] /\ count' = count
      BY <1>7, <3>1 DEF Authenticate, TypeOK, history
    <3>3. \A q \in Requests : Past(q, f)' => Past(q, f)
      BY <1>7, <3>2 DEF Authenticate, Goto, Past, TypeOK
    <3> QED
      BY <1>3, <3>2, <3>3, CodeKept
  <2> QED
    BY <2>1, <2>2
<1>8. ASSUME NEW r \in Requests, BrowserBack(r) \/ Match(r) \/ NonceGet(r) \/ NonceSet(r)
      PROVE  CodeUsedOnce(f)'
  <2>1. flow' = flow /\ count' = count /\ req' = req
    BY <1>8 DEF BrowserBack, Match, NonceGet, NonceSet, world, history
  <2>2. \A q \in Requests : Past(q, f)' => Past(q, f)
    BY <1>2, <1>8, <2>1 DEF BrowserBack, Match, FirstStep, NonceGet, NonceSet, AfterNonce, Goto, Past, TypeOK
  <2> QED
    BY <1>3, <2>1, <2>2, CodeKept
<1>9. ASSUME NEW r \in Requests, Exchange(r)
      PROVE  CodeUsedOnce(f)'
  <2>1. req[r].state \in Flows
    BY <1>9, AcceptedState DEF Exchange, Accepted
  <2>2. /\ flow'[f].type = flow[f].type /\ (flow'[f].code => flow[f].code)
        /\ count' = count /\ req' = req
        /\ req[r].state = f => flow'[f].code = FALSE
    <3>1. flow'[f].type = flow[f].type /\ (flow'[f].code => flow[f].code)
      BY <1>9, FlowChanges
    <3>2. PICK u : flow' = [flow EXCEPT ![req[r].state].code = FALSE, ![req[r].state].iat = u]
      BY <1>9 DEF Exchange
    <3>3. req[r].state = f => flow'[f].code = FALSE
      BY <1>2, <3>2 DEF TypeOK, FlowRecords
    <3> QED
      BY <1>9, <3>1, <3>3 DEF Exchange, history
  <2>3. \A q \in Requests \ {r} : Past(q, f)' <=> Past(q, f)
    BY <1>9, <2>2 DEF Exchange, Goto, Past, TypeOK
  <2>4. CASE Past(r, f)'
    <3>1. req[r].state = f /\ flow[f].code
      BY <1>9, <2>2, <2>4 DEF Exchange, Goto, Past, TypeOK
    <3> QED
      BY <1>3, <2>2, <2>3, <2>4, <3>1 DEF CodeUsedOnce
  <2>5. CASE ~Past(r, f)'
    BY <1>3, <2>2, <2>3, <2>5, CodeKept
  <2> QED
    BY <2>4, <2>5
<1>10. ASSUME NEW r \in Requests, StartSession(r)
       PROVE  CodeUsedOnce(f)'
  <2>1. flow' = flow /\ req' = req /\ pc'[r] = "reply" /\ \A q \in Requests \ {r} : pc'[q] = pc[q]
    BY <1>10 DEF StartSession, Goto, TypeOK, world
  <2>2. ~Past(r, f)' /\ \A q \in Requests : Past(q, f)' => Past(q, f)
    BY <2>1 DEF Past
  <2>3. CASE count'[f] = count[f]
    BY <1>3, <2>1, <2>2, <2>3, CodeKept
  <2>4. CASE count'[f] # count[f]
    <3>1. req[r].state = f /\ Past(r, f)
      BY <1>10, <2>4 DEF StartSession, Past, TypeOK
    <3>2. count[f] = 0 /\ ~flow[f].code
      BY <1>3, <2>1, <3>1 DEF CodeUsedOnce, TypeOK
    <3>3. count'[f] = 1
      BY <1>10, <2>4, <3>1, <3>2 DEF StartSession, TypeOK
    <3>4. \A q \in Requests : ~Past(q, f)'
      BY <1>3, <2>1, <2>2, <3>1 DEF CodeUsedOnce
    <3> QED
      BY <2>1, <3>2, <3>3, <3>4 DEF CodeUsedOnce
  <2> QED
    BY <2>3, <2>4
<1>11. ASSUME NEW r \in Requests, Reply(r)
       PROVE  CodeUsedOnce(f)'
  <2>1. flow'[f].type = flow[f].type /\ (flow'[f].code => flow[f].code) /\ count' = count
    BY <1>11, FlowChanges DEF Reply
  <2>2. \A q \in Requests : Past(q, f)' => Past(q, f)
    BY <1>11, <2>1 DEF Reply, Goto, Past, TypeOK
  <2> QED
    BY <1>3, <2>1, <2>2, CodeKept
<1> QED
  BY <1>4, <1>5, <1>6, <1>7, <1>8, <1>9, <1>10, <1>11 DEF Next

(***************************************************************************)
(* The theorems.                                                           *)
(***************************************************************************)

\* The invariant is inductive: whatever step is taken next, state cookies,
\* requests under way, sessions and codes stay where they belong.
THEOREM AuthnInvariance == Spec => []AuthnInv
<1>1. Init => AuthnInv
  BY AuthnInit
<1>2. AuthnInv /\ [Next]_vars => AuthnInv'
  <2>1. CASE Next
    BY <2>1, TypeStep, BoundsStep, OwnedStep, CodesStep DEF AuthnInv
  <2>2. CASE UNCHANGED vars
    BY <2>2 DEF AuthnInv, vars, TypeOK, Bounds, Starting, Owned, NotYet, RequestOwns, Owns, Accepted,
       CodesUsedOnce, CodeUsedOnce, Past, Flows, Browsers, Keep, MaxFlow, ResponseTypes, IatSlack, FlowRecords
  <2> QED
    BY <2>1, <2>2
<1> QED
  BY <1>1, <1>2, PTL DEF Spec

\* A response leads to a session only in the browser that was sent to the OP
\* with its state (oidc_response_proto_state_restore), for any number of
\* browsers and requests, whoever else opens the URL of the response.
THEOREM SessionsBound == Spec => []BoundToBrowser
<1>1. AuthnInv => BoundToBrowser
  BY DEF AuthnInv, Owned, Owns, BoundToBrowser
<1> QED
  BY <1>1, AuthnInvariance, PTL

\* A response with a code leads to one session at most, however often and by
\* how many requests at once it is sent (oidc_proto_resolve_code_and_validate_response).
THEOREM CodeOnce == Spec => []OneSessionPerCode
<1>1. AuthnInv => OneSessionPerCode
  BY DEF AuthnInv, CodesUsedOnce, CodeUsedOnce, OneSessionPerCode
<1> QED
  BY <1>1, AuthnInvariance, PTL

(***************************************************************************)
(* The replay of an id_token.                                              *)
(***************************************************************************)

\* The OP has issued the id_token of f: it will not issue another one.
Settled(f) ==
    /\ flow[f].browser \in Browsers /\ flow[f].answer # "none"
    /\ flow[f].type = "code" => ~flow[f].code

\* The id_token of f fails the check of its iat from now on.
Outdated(f) == flow[f].iat + IatSlack < now

\* A request that looks at a nonce does so for an id_token that was issued, and
\* one that found a used nonce to have left the cache has an outdated one.
NonceSound(r) ==
    LET f == req[r].state
    IN  /\ pc[r] \in Accepted => flow[f].answer # "none"
        /\ pc[r] \in {"nonce_get", "nonce_set"} => Settled(f)
        /\ pc[r] = "nonce_set" /\ ~fresh[r] => Outdated(f)

\* A used nonce stays in the cache until the id_token is outdated.
ReplayInv ==
    /\ \A f \in Flows : flow[f].iat <= now + IatSlack
    /\ \A f \in stored : Settled(f) /\ flow[f].iat + IatSlack < nonce[f]
    /\ \A r \in Requests : NonceSound(r)

LEMMA NonceFacts ==
    ASSUME TypeOK
    PROVE  /\ now \in Nat /\ IatSlack \in Nat /\ NonceMargin \in Nat /\ NonceMargin > 0
           /\ \A f \in Flows : flow[f].iat \in Nat /\ nonce[f] \in Nat /\ flow[f] \in FlowRecords
<1>1. flow \in [Flows -> FlowRecords] /\ nonce \in [Flows -> Nat] /\ now \in Nat /\ config \in Settings
  BY DEF TypeOK
<1> QED
  BY <1>1, ConfigFacts DEF FlowRecords

LEMMA ReplayInit == Init => ReplayInv
<1> SUFFICES ASSUME Init PROVE ReplayInv
  OBVIOUS
<1>1. TypeOK
  BY AuthnInit DEF AuthnInv
<1>2. \A f \in Flows : flow[f].iat = 0
  BY DEF Init, NoFlowYet, NewFlow
<1>3. now + IatSlack >= 0
  BY <1>1, NonceFacts
<1> QED
  BY <1>2, <1>3 DEF Init, ReplayInv, NonceSound, Accepted

\* What a step does to the id_token of f, unless it creates f.
LEMMA TokenChanges ==
    ASSUME TypeOK, Bounds, Owned, Next, NEW f \in Flows,
           ~\E r \in Requests : Authenticate(r) /\ f = last + 1
    PROVE  /\ flow'[f].iat = flow[f].iat \/ flow'[f].iat \in Iats
           /\ flow[f].answer # "none" => flow'[f].answer # "none"
           /\ Settled(f) => Settled(f)' /\ flow'[f].iat = flow[f].iat
<1>1. flow \in [Flows -> FlowRecords] /\ flow[f] \in FlowRecords /\ Browsers' = Browsers
  BY ConfigKept, SameConfig DEF TypeOK
<1>2. ASSUME NEW r \in Requests, Authenticate(r)
      PROVE  flow'[f] = flow[f]
  BY <1>1, <1>2 DEF Authenticate
<1>3. ASSUME NEW g \in Flows, OpAnswers(g)
      PROVE  /\ flow'[f] = flow[f] \/ (flow[f].answer = "none" /\ flow'[f].answer # "none")
             /\ flow'[f].iat = flow[f].iat \/ flow'[f].iat \in Iats
  <2>1. CASE \E t \in Iats : flow' = [flow EXCEPT ![g].answer = "ok", ![g].iat = t]
    <3>1. PICK t \in Iats : flow' = [flow EXCEPT ![g].answer = "ok", ![g].iat = t]
      BY <2>1
    <3>2. flow[g].answer = "none"
      BY <1>3 DEF OpAnswers
    <3> QED
      BY <1>1, <3>1, <3>2 DEF FlowRecords
  <2>2. CASE flow' = [flow EXCEPT ![g].answer = "error"]
    <3>1. flow[g].answer = "none"
      BY <1>3 DEF OpAnswers
    <3> QED
      BY <1>1, <2>2, <3>1 DEF FlowRecords
  <2> QED
    BY <1>3, <2>1, <2>2 DEF OpAnswers
<1>4. ASSUME NEW r \in Requests, Exchange(r)
      PROVE  /\ flow'[f].answer = flow[f].answer
             /\ flow'[f].iat = flow[f].iat \/ flow'[f].iat \in Iats
             /\ (flow[f].type = "code" => ~flow[f].code) => flow'[f].iat = flow[f].iat
  <2> DEFINE g == req[r].state
  <2>1. PICK t \in IF flow[g].type = "code" /\ flow[g].code THEN Iats ELSE {flow[g].iat} :
             flow' = [flow EXCEPT ![g].code = FALSE, ![g].iat = t]
    BY <1>4 DEF Exchange
  <2>2. g \in Flows
    BY <1>4, AcceptedState DEF Exchange, Accepted
  <2>3. CASE f # g
    BY <1>1, <2>1, <2>2, <2>3
  <2>4. CASE f = g
    <3>1. flow'[f].iat = t /\ flow'[f].answer = flow[f].answer
      BY <1>1, <2>1, <2>4 DEF FlowRecords
    <3>2. CASE flow[g].type = "code" /\ flow[g].code
      BY <2>1, <2>4, <3>1, <3>2
    <3>3. CASE ~(flow[g].type = "code" /\ flow[g].code)
      BY <2>1, <2>4, <3>1, <3>3
    <3> QED
      BY <3>2, <3>3
  <2> QED
    BY <2>3, <2>4
<1>5. ASSUME NEW r \in Requests, Reply(r)
      PROVE  flow'[f].answer = flow[f].answer /\ flow'[f].iat = flow[f].iat
  <2>1. flow' = flow \/ \E t : flow' = [flow EXCEPT ![add[r]].sent = t]
    BY <1>5 DEF Reply, Arrives
  <2>2. CASE flow' # flow
    <3>1. PICK t : flow' = [flow EXCEPT ![add[r]].sent = t]
      BY <2>1, <2>2
    <3> QED
      BY <1>1, <3>1 DEF FlowRecords
  <2> QED
    BY <2>2
<1>6. CASE (\E g \in Flows : OpAnswers(g)) \/ (\E r \in Requests : Exchange(r) \/ Reply(r))
  <2>1. /\ flow'[f].browser = flow[f].browser /\ flow'[f].type = flow[f].type
        /\ flow'[f].code => flow[f].code
    BY <1>6, FlowChanges
  <2> QED
    BY <1>1, <1>3, <1>4, <1>5, <1>6, <2>1 DEF Settled
<1>7. CASE flow'[f] = flow[f]
  BY <1>1, <1>7 DEF Settled
<1> QED
  BY <1>2, <1>6, <1>7 DEF Next, SessionEnds, Rekey, Tick, Visit, Respond, BrowserBack, Match,
     NonceGet, NonceSet, StartSession, world

LEMMA SettledKept ==
    ASSUME TypeOK, Bounds, Owned, Next, NEW f \in Flows, Settled(f)
    PROVE  Settled(f)' /\ flow'[f].iat = flow[f].iat
<1>1. NoBrowser \notin Browsers /\ NotYet
  BY ConfigFacts DEF TypeOK, Owned
<1>2. ~(f > last) /\ last \in Nat /\ f \in Nat
  BY <1>1, FlowFacts DEF NotYet, Settled
<1>3. f # last + 1
  BY <1>2
<1> QED
  BY <1>3, TokenChanges

\* The clock of the OP is not ahead by more than the slack.
LEMMA IatStep ==
    ASSUME TypeOK, Bounds, Owned, ReplayInv, Next, NEW f \in Flows
    PROVE  flow'[f].iat <= now' + IatSlack'
<1>1. IatSlack' = IatSlack /\ IatSlack \in Nat /\ now \in Nat /\ now' \in {now, now + 1} /\ flow[f].iat \in Nat
  <2>1. now' \in {now, now + 1}
    BY DEF Next, SessionEnds, Rekey, Tick, OpAnswers, Visit, Authenticate, Respond, BrowserBack, Match,
       Exchange, NonceGet, NonceSet, StartSession, Reply, world
  <2> QED
    BY <2>1, ConfigKept, SameConfig, NonceFacts
<1>2. flow[f].iat <= now + IatSlack
  BY DEF ReplayInv
<1>3. CASE \E r \in Requests : Authenticate(r) /\ f = last + 1
  <2>1. PICK r \in Requests : Authenticate(r) /\ f = last + 1
    BY <1>3
  <2>2. flow' = flow \/ \E t : flow' = [flow EXCEPT ![f] = NewFlow(req[r].browser, t)]
    BY <2>1 DEF Authenticate
  <2>3. flow'[f].iat \in {0, flow[f].iat}
    BY <2>2 DEF NewFlow, TypeOK
  <2> QED
    BY <1>1, <1>2, <2>3
<1>4. CASE ~\E r \in Requests : Authenticate(r) /\ f = last + 1
  <2>1. flow'[f].iat = flow[f].iat \/ flow'[f].iat \in Iats
    BY <1>4, TokenChanges
  <2>2. CASE flow'[f].iat = flow[f].iat
    BY <1>1, <1>2, <2>2
  <2>3. CASE flow'[f].iat \in Iats
    BY <1>1, <2>3 DEF Iats
  <2> QED
    BY <2>1, <2>2, <2>3
<1> QED
  BY <1>3, <1>4

LEMMA StoredStep ==
    ASSUME TypeOK, Bounds, Owned, ReplayInv, Next, NEW f \in stored'
    PROVE  Settled(f)' /\ flow'[f].iat + IatSlack' < nonce'[f]
<1>1. IatSlack' = IatSlack /\ stored \subseteq Flows /\ Flows' = Flows
  BY ConfigKept, SameConfig DEF TypeOK
<1>2. ASSUME f \in stored, nonce'[f] = nonce[f]
      PROVE  Settled(f)' /\ flow'[f].iat + IatSlack' < nonce'[f]
  <2>1. f \in Flows /\ Settled(f) /\ flow[f].iat + IatSlack < nonce[f]
    BY <1>1, <1>2 DEF ReplayInv
  <2> QED
    BY <1>1, <1>2, <2>1, SettledKept
<1>3. ASSUME NEW r \in Requests, NonceSet(r)
      PROVE  Settled(f)' /\ flow'[f].iat + IatSlack' < nonce'[f]
  <2>1. req[r].state \in Flows /\ Settled(req[r].state)
    BY <1>3, AcceptedState DEF NonceSet, Accepted, ReplayInv, NonceSound
  <2>2. CASE f = req[r].state /\ nonce'[f] # nonce[f]
    <3>1. nonce'[f] = now + NonceLifetime /\ flow' = flow
      BY <1>3, <2>1, <2>2 DEF NonceSet, TypeOK
    <3>2. flow[f].iat <= now + IatSlack
      BY <2>1, <2>2 DEF ReplayInv
    <3>3. now \in Nat /\ IatSlack \in Nat /\ NonceMargin \in Nat /\ NonceMargin > 0 /\ flow[f].iat \in Nat
      BY <2>1, <2>2, NonceFacts
    <3>4. flow[f].iat + IatSlack < now + NonceLifetime
      BY <3>2, <3>3 DEF NonceLifetime
    <3> QED
      BY <1>1, <2>1, <2>2, <3>1, <3>4, SettledKept
  <2>3. CASE f = req[r].state /\ nonce'[f] = nonce[f] /\ f \notin stored
    <3>1. nonce'[f] = now + NonceLifetime /\ flow' = flow
      BY <1>3, <2>1, <2>3 DEF NonceSet, TypeOK
    <3>2. flow[f].iat <= now + IatSlack
      BY <2>1, <2>3 DEF ReplayInv
    <3>3. now \in Nat /\ IatSlack \in Nat /\ NonceMargin \in Nat /\ NonceMargin > 0 /\ flow[f].iat \in Nat
      BY <2>1, <2>3, NonceFacts
    <3>4. flow[f].iat + IatSlack < now + NonceLifetime
      BY <3>2, <3>3 DEF NonceLifetime
    <3> QED
      BY <1>1, <2>1, <2>3, <3>1, <3>4, SettledKept
  <2>4. CASE f # req[r].state
    BY <1>2, <1>3, <2>1, <2>4 DEF NonceSet, TypeOK
  <2> QED
    BY <1>2, <2>2, <2>3, <2>4
<1>4. CASE UNCHANGED <<stored, nonce>>
  BY <1>2, <1>4
<1> QED
  BY <1>3, <1>4 DEF Next, SessionEnds, Rekey, Tick, OpAnswers, Visit, Authenticate, Respond, BrowserBack,
     Match, Exchange, NonceGet, StartSession, Reply, world, history

\* The step of a request moves no other request.
LEMMA OwnStep ==
    ASSUME TypeOK, Next, NEW r \in Requests, pc'[r] # pc[r]
    PROVE  \/ Visit(r) \/ Authenticate(r) \/ Respond(r) \/ BrowserBack(r) \/ Match(r)
           \/ Exchange(r) \/ NonceGet(r) \/ NonceSet(r) \/ StartSession(r) \/ Reply(r)
<1>1. ~(SessionEnds \/ Rekey \/ Tick \/ \E f \in Flows : OpAnswers(f))
  BY DEF SessionEnds, Rekey, Tick, OpAnswers
<1>2. ASSUME NEW q \in Requests, q # r
      PROVE  ~(\E l : Goto(q, l))
  BY <1>2 DEF Goto, TypeOK
<1>3. ASSUME NEW q \in Requests, q # r
      PROVE  ~\/ Visit(q) \/ Authenticate(q) \/ Respond(q) \/ BrowserBack(q) \/ Match(q)
              \/ Exchange(q) \/ NonceGet(q) \/ NonceSet(q) \/ StartSession(q) \/ Reply(q)
  <2>1. ~(Visit(q) \/ Authenticate(q) \/ Respond(q) \/ BrowserBack(q) \/ Match(q))
    BY <1>2, <1>3 DEF Visit, Authenticate, Respond, BrowserBack, Match
  <2>2. ~(Exchange(q) \/ NonceGet(q) \/ NonceSet(q) \/ StartSession(q) \/ Reply(q))
    BY <1>2, <1>3 DEF Exchange, NonceGet, NonceSet, StartSession, Reply
  <2> QED
    BY <2>1, <2>2
<1> QED
  BY <1>1, <1>3 DEF Next

\* A request that does not move keeps what it knows about its nonce.
LEMMA NonceSoundKept ==
    ASSUME TypeOK, Bounds, Owned, ReplayInv, Next, NEW q \in Requests,
           pc'[q] = pc[q], req'[q] = req[q], fresh'[q] = fresh[q]
    PROVE  NonceSound(q)'
<1>1. CASE pc[q] \notin Accepted
  BY <1>1 DEF NonceSound, Accepted
<1>2. CASE pc[q] \in Accepted
  <2> DEFINE f == req[q].state
  <2>1. f \in Flows /\ Owns(req[q].browser, f) /\ NonceSound(q)
    BY <1>2, AcceptedState DEF ReplayInv
  <2>2. f # last + 1
    <3>1. NoBrowser \notin Browsers /\ NotYet
      BY ConfigFacts DEF TypeOK, Owned
    <3>2. ~(f > last) /\ last \in Nat /\ f \in Nat
      BY <2>1, <3>1, FlowFacts DEF NotYet, Owns
    <3> QED
      BY <3>2
  <2>3. flow'[f].answer # "none"
    BY <1>2, <2>1, <2>2, TokenChanges DEF NonceSound
  <2>4. Settled(f) => Settled(f)' /\ flow'[f].iat = flow[f].iat
    BY <2>1, SettledKept
  <2>5. IatSlack' = IatSlack /\ IatSlack \in Nat /\ now \in Nat /\ flow[f].iat \in Nat
    BY <2>1, ConfigKept, SameConfig, NonceFacts
  <2>6. now' \in {now, now + 1}
    BY DEF Next, SessionEnds, Rekey, Tick, OpAnswers, Visit, Authenticate, Respond, BrowserBack, Match,
       Exchange, NonceGet, NonceSet, StartSession, Reply, world
  <2>7. Settled(f) /\ Outdated(f) => flow'[f].iat + IatSlack' < now'
    BY <2>4, <2>5, <2>6 DEF Outdated
  <2>8. PICK g \in Flows : g = f
    BY <2>1
  <2>9. req'[q].state = g /\ (Settled(g) => Settled(g)') /\ (Settled(g) /\ Outdated(g) => Outdated(g)')
    BY <2>4, <2>7, <2>8 DEF Outdated
  <2>10. flow'[g].answer # "none" /\ NonceSound(q)
    BY <2>1, <2>3, <2>8
  <2>11. /\ pc[q] \in {"nonce_get", "nonce_set"} => Settled(g)
         /\ pc[q] = "nonce_set" /\ ~fresh[q] => Settled(g) /\ Outdated(g)
    BY <2>8, <2>10 DEF NonceSound
  <2>12. /\ pc'[q] \in {"nonce_get", "nonce_set"} => Settled(g)'
         /\ pc'[q] = "nonce_set" /\ ~fresh'[q] => Outdated(g)'
    BY <2>9, <2>11
  <2> QED
    BY <2>9, <2>10, <2>12 DEF NonceSound, Settled, Outdated
<1> QED
  BY <1>1, <1>2

LEMMA NonceSoundStep ==
    ASSUME TypeOK, Bounds, Owned, ReplayInv, Next, NEW q \in Requests
    PROVE  NonceSound(q)'
<1>1. Flows' = Flows /\ Browsers' = Browsers /\ IatSlack' = IatSlack /\ NonceSound(q)
  BY ConfigKept, SameConfig DEF ReplayInv
<1>2. CASE SessionEnds \/ Rekey \/ Tick \/ \E f \in Flows : OpAnswers(f)
  BY <1>2, NonceSoundKept DEF SessionEnds, Rekey, Tick, OpAnswers, history
<1>3. ASSUME NEW r \in Requests, q # r,
             \/ Visit(r) \/ Authenticate(r) \/ Respond(r) \/ BrowserBack(r) \/ Match(r)
             \/ Exchange(r) \/ NonceGet(r) \/ NonceSet(r) \/ StartSession(r) \/ Reply(r)
      PROVE  NonceSound(q)'
  <2>1. pc'[q] = pc[q] /\ req'[q] = req[q] /\ fresh'[q] = fresh[q]
    BY <1>3 DEF Visit, Authenticate, Respond, BrowserBack, Match, Exchange, NonceGet, NonceSet,
       StartSession, Reply, Goto, TypeOK, history
  <2> QED
    BY <2>1, NonceSoundKept
<1>4. CASE Visit(q) \/ Authenticate(q) \/ Respond(q) \/ BrowserBack(q) \/ StartSession(q) \/ Reply(q)
  <2>1. pc'[q] \notin Accepted
    BY <1>4 DEF Visit, Authenticate, Respond, BrowserBack, StartSession, Reply, Goto, Accepted, TypeOK
  <2> QED
    BY <2>1 DEF NonceSound, Accepted
<1>5. CASE Match(q)
  <2> DEFINE f == req[q].state
  <2>1. flow' = flow /\ req' = req
    BY <1>5 DEF Match, world
  <2>2. CASE Restores(q) /\ flow[f].answer = "ok"
    <3>1. pc'[q] = FirstStep(f)
      BY <1>5, <2>2 DEF Match, Goto, TypeOK
    <3>2. f \in req[q].cookies /\ RequestOwns(q)
      BY <2>2 DEF Restores, Valid, Owned
    <3>3. flow[f].browser \in Browsers
      BY <3>2 DEF RequestOwns, Owns
    <3>4. pc'[q] = "nonce_get" => Settled(f)
      BY <2>2, <3>1, <3>3 DEF FirstStep, Settled
    <3>5. pc'[q] # "nonce_set" /\ flow'[req'[q].state].answer # "none"
      BY <2>1, <2>2, <3>1 DEF FirstStep
    <3> QED
      BY <1>1, <2>1, <3>4, <3>5 DEF NonceSound, Settled
  <2>3. CASE ~(Restores(q) /\ flow[f].answer = "ok")
    <3>1. pc'[q] = "reply"
      BY <1>5, <2>3 DEF Match, Goto, TypeOK
    <3> QED
      BY <3>1 DEF NonceSound, Accepted
  <2> QED
    BY <2>2, <2>3
<1>6. CASE Exchange(q)
  <2> DEFINE f == req[q].state
  <2>1. f \in Flows /\ Owns(req[q].browser, f) /\ flow[f].answer # "none" /\ req' = req
    BY <1>1, <1>6, AcceptedState DEF Exchange, Accepted, NonceSound
  <2>2. PICK u : flow' = [flow EXCEPT ![f].code = FALSE, ![f].iat = u]
    BY <1>6 DEF Exchange
  <2>3. ~flow'[f].code /\ flow'[f].answer = flow[f].answer /\ flow'[f].browser = flow[f].browser
    <3>1. flow[f] \in FlowRecords
      BY <2>1, NonceFacts
    <3> QED
      BY <2>1, <2>2, <3>1 DEF TypeOK, FlowRecords
  <2>4. pc'[q] # "nonce_set"
    BY <1>6 DEF Exchange, Goto, TypeOK
  <2> QED
    BY <1>1, <2>1, <2>3, <2>4 DEF NonceSound, Settled, Owns
<1>7. CASE NonceGet(q)
  <2> DEFINE f == req[q].state
  <2>1. f \in Flows /\ Settled(f) /\ req' = req /\ flow' = flow /\ now' = now
    BY <1>1, <1>7, AcceptedState DEF NonceGet, Accepted, NonceSound, world
  <2>2. pc'[q] = "nonce_set" /\ ~fresh'[q] => f \in stored /\ ~(nonce[f] > now)
    BY <1>7 DEF NonceGet, Goto, TypeOK
  <2>3. now \in Nat /\ IatSlack \in Nat /\ nonce[f] \in Nat /\ flow[f].iat \in Nat
    BY <2>1, NonceFacts
  <2>4. f \in stored => flow[f].iat + IatSlack < nonce[f]
    BY DEF ReplayInv
  <2>5. pc'[q] = "nonce_set" /\ ~fresh'[q] => Outdated(f)
    BY <2>2, <2>3, <2>4 DEF Outdated
  <2> QED
    BY <1>1, <2>1, <2>5 DEF NonceSound, Settled, Outdated
<1>8. CASE NonceSet(q)
  <2>1. pc'[q] \in {"session", "exchange", "reply"} /\ req' = req /\ flow' = flow
    BY <1>8 DEF NonceSet, AfterNonce, Goto, TypeOK
  <2>2. flow[req[q].state].answer # "none"
    BY <1>1, <1>8 DEF NonceSet, NonceSound, Accepted
  <2> QED
    BY <2>1, <2>2 DEF NonceSound
<1> QED
  BY <1>2, <1>3, <1>4, <1>5, <1>6, <1>7, <1>8 DEF Next

LEMMA ReplayStep ==
    ASSUME AuthnInv, ReplayInv, [Next]_vars
    PROVE  ReplayInv'
<1>1. CASE Next
  <2>1. Flows' = Flows /\ TypeOK /\ Bounds /\ Owned
    BY <1>1, ConfigKept, SameConfig DEF AuthnInv
  <2> QED
    BY <1>1, <2>1, IatStep, StoredStep, NonceSoundStep DEF ReplayInv
<1>2. CASE UNCHANGED vars
  BY <1>2 DEF ReplayInv, NonceSound, Settled, Outdated, vars, Accepted, Flows, Browsers, MaxFlow, IatSlack
<1> QED
  BY <1>1, <1>2

\* The invariant behind the replay protection: for as long as an id_token passes
\* the check of its iat, its nonce is in the cache once it was stored there.
THEOREM ReplayInvariance == Spec => [](AuthnInv /\ ReplayInv)
<1>1. Init => AuthnInv /\ ReplayInv
  BY AuthnInit, ReplayInit
<1> QED
  BY <1>1, ReplayStep, AuthnInvariance, PTL DEF Spec

\* An id_token that was used before is refused, whatever the clocks of the OP
\* and of the module show within the slack (oidc_proto_idtoken_validate_nonce).
THEOREM ReplaysRefused == Spec => ReplayRefused
<1> DEFINE Refused == \A r \in Requests : pc[r] = "nonce_set" /\ pc'[r] \in {"session", "exchange"} => fresh[r]
<1>1. AuthnInv /\ ReplayInv /\ [Next]_vars => [Refused]_vars
  <2> SUFFICES ASSUME AuthnInv, ReplayInv, Next, NEW r \in Requests,
                      pc[r] = "nonce_set", pc'[r] \in {"session", "exchange"}
               PROVE  fresh[r]
    OBVIOUS
  <2>1. TypeOK /\ Owned /\ NonceSound(r)
    BY DEF AuthnInv, ReplayInv
  <2>2. NonceSet(r)
    <3>1. \/ Visit(r) \/ Authenticate(r) \/ Respond(r) \/ BrowserBack(r) \/ Match(r)
          \/ Exchange(r) \/ NonceGet(r) \/ NonceSet(r) \/ StartSession(r) \/ Reply(r)
      BY <2>1, OwnStep
    <3> QED
      BY <3>1 DEF Visit, Authenticate, Respond, BrowserBack, Match, Exchange, NonceGet, StartSession, Reply
  <2>3. IatValid(req[r].state)
    BY <2>1, <2>2 DEF NonceSet, Goto, TypeOK
  <2>4. req[r].state \in Flows /\ (~fresh[r] => Outdated(req[r].state))
    BY <2>1, AcceptedState DEF NonceSound, Accepted
  <2>5. now \in Nat /\ IatSlack \in Nat /\ flow[req[r].state].iat \in Nat
    BY <2>1, <2>4, NonceFacts
  <2> QED
    BY <2>3, <2>4, <2>5 DEF IatValid, Outdated
<1> QED
  BY <1>1, ReplayInvariance, PTL DEF Spec, ReplayRefused

(***************************************************************************)
(* A response in time finds its state.                                     *)
(***************************************************************************)

\* The state cookie of f is used, does not decode any more or has timed out.
Gone(f) == f \in consumed \/ f \notin readable \/ TimedOut(f)

\* A redirect that went to the OP left its cookie in the browser, and only
\* cookies that are of no use any more are deleted.
CookieKept(f) ==
    flow[f].sent \/ flow[f].answer # "none" =>
        flow[f].browser \in Browsers /\ (f \in jar[flow[f].browser] \/ Gone(f))

RequestKeeps(r) ==
    LET f == req[r].state
    IN  /\ \A g \in del[r] : flow[g].browser \in Browsers /\ Gone(g)
        /\ pc[r] = "match" => /\ f \in Flows /\ flow[f].browser \in Browsers
                              /\ flow[f].browser = req[r].browser => f \in req[r].cookies \/ Gone(f)

\* A session was made from a cookie that is used now.
RequestUses(r) ==
    /\ pc[r] \in Accepted => req[r].state \in consumed
    /\ req[r].session # NoFlow => req[r].session \in consumed
    /\ out[r] # Keep => out[r] \in consumed

SessionsUsed == \A b \in Browsers : session[b] # NoFlow => session[b] \in consumed

MatchInv ==
    /\ SessionsUsed
    /\ \A r \in Requests : RequestUses(r)
    /\ ~config.delete => /\ \A f \in Flows : CookieKept(f)
                         /\ \A r \in Requests : RequestKeeps(r)

LEMMA MatchInit == Init => MatchInv
  BY DEF Init, MatchInv, SessionsUsed, RequestUses, RequestKeeps, CookieKept, Accepted, NoRequest, NoFlowYet,
     NewFlow

LEMMA ConsumedGrows == Next => consumed \subseteq consumed'
  BY DEF Next, SessionEnds, Rekey, Tick, OpAnswers, Visit, Authenticate, Respond, BrowserBack, Match,
     Exchange, NonceGet, NonceSet, StartSession, Reply, world, history

\* An authentication request that has a browser keeps its timestamp.
LEMMA StampKept ==
    ASSUME TypeOK, Bounds, Owned, Next, NEW f \in Flows, flow[f].browser \in Browsers
    PROVE  flow'[f].browser = flow[f].browser /\ flow'[f].ts = flow[f].ts
<1>1. Owns(flow[f].browser, f) /\ Browsers' = Browsers
  BY ConfigKept, SameConfig DEF Owns
<1>2. flow'[f].browser = flow[f].browser
  BY <1>1, OwnerKept DEF Owns
<1>3. flow \in [Flows -> FlowRecords] /\ flow[f] \in FlowRecords
  BY DEF TypeOK
<1>4. f # last + 1
  <2>1. NoBrowser \notin Browsers /\ NotYet
    BY ConfigFacts DEF TypeOK, Owned
  <2>2. ~(f > last) /\ last \in Nat /\ f \in Nat
    BY <2>1, FlowFacts DEF NotYet
  <2> QED
    BY <2>2
<1>5. ASSUME NEW r \in Requests, Authenticate(r)
      PROVE  flow'[f].ts = flow[f].ts
  BY <1>3, <1>4, <1>5 DEF Authenticate
<1>6. ASSUME NEW g \in Flows, OpAnswers(g)
      PROVE  flow'[f].ts = flow[f].ts
  <2>1. PICK a, t : \/ flow' = [flow EXCEPT ![g].answer = a, ![g].iat = t]
                    \/ flow' = [flow EXCEPT ![g].answer = a]
    BY <1>6 DEF OpAnswers
  <2> QED
    BY <1>3, <2>1 DEF FlowRecords
<1>7. ASSUME NEW r \in Requests, Exchange(r)
      PROVE  flow'[f].ts = flow[f].ts
  <2>1. PICK g, t : flow' = [flow EXCEPT ![g].code = FALSE, ![g].iat = t]
    BY <1>7 DEF Exchange
  <2> QED
    BY <1>3, <2>1 DEF FlowRecords
<1>8. ASSUME NEW r \in Requests, Reply(r)
      PROVE  flow'[f].ts = flow[f].ts
  <2>1. flow' = flow \/ \E t : flow' = [flow EXCEPT ![add[r]].sent = t]
    BY <1>8 DEF Reply, Arrives
  <2>2. CASE flow' # flow
    <3>1. PICK t : flow' = [flow EXCEPT ![add[r]].sent = t]
      BY <2>1, <2>2
    <3> QED
      BY <1>3, <3>1 DEF FlowRecords
  <2> QED
    BY <2>2
<1>9. CASE flow' = flow
  BY <1>9
<1>10. flow'[f].ts = flow[f].ts
  BY <1>5, <1>6, <1>7, <1>8, <1>9 DEF Next, SessionEnds, Rekey, Tick, Visit, Respond, BrowserBack, Match,
     NonceGet, NonceSet, StartSession, world
<1> QED
  BY <1>2, <1>10

\* A cookie that is of no use does not become useful.
LEMMA GoneKept ==
    ASSUME TypeOK, Bounds, Owned, Next, NEW f \in Flows, flow[f].browser \in Browsers, Gone(f)
    PROVE  Gone(f)'
<1>1. consumed \subseteq consumed' /\ flow'[f].ts = flow[f].ts
  BY ConsumedGrows, StampKept
<1>2. now' \in {now, now + 1} /\ readable' \subseteq readable
  BY DEF Next, SessionEnds, Rekey, Tick, OpAnswers, Visit, Authenticate, Respond, BrowserBack, Match,
     Exchange, NonceGet, NonceSet, StartSession, Reply, world
<1>3. StateTimeout' = StateTimeout /\ StateTimeout \in Nat /\ now \in Nat /\ flow[f].ts \in Nat
  <2>1. config' = config /\ config \in Settings /\ now \in Nat /\ flow[f] \in FlowRecords
    BY ConfigKept DEF TypeOK
  <2> QED
    BY <2>1, ConfigFacts DEF StateTimeout, FlowRecords
<1>4. TimedOut(f) => TimedOut(f)'
  BY <1>1, <1>2, <1>3 DEF TimedOut
<1> QED
  BY <1>1, <1>2, <1>4 DEF Gone

(***************************************************************************)
(* Sessions come from used cookies.                                        *)
(***************************************************************************)
LEMMA UsesKept ==
    ASSUME Next, NEW q \in Requests, RequestUses(q), Keep' = Keep,
           pc'[q] = pc[q], req'[q] = req[q], out'[q] = out[q]
    PROVE  RequestUses(q)'
<1>1. consumed \subseteq consumed'
  BY ConsumedGrows
<1> QED
  BY <1>1 DEF RequestUses, Accepted, NoFlow

LEMMA UsesStep ==
    ASSUME TypeOK, Owned, MatchInv, Next, NEW q \in Requests
    PROVE  RequestUses(q)'
<1>1. Keep' = Keep /\ RequestUses(q) /\ SessionsUsed /\ consumed \subseteq consumed'
  BY ConfigKept, SameConfig, ConsumedGrows DEF MatchInv
<1>2. CASE SessionEnds \/ Rekey \/ Tick \/ \E f \in Flows : OpAnswers(f)
  BY <1>1, <1>2, UsesKept DEF SessionEnds, Rekey, Tick, OpAnswers, reply
<1>3. ASSUME NEW r \in Requests, q # r,
             \/ Visit(r) \/ Authenticate(r) \/ Respond(r) \/ BrowserBack(r) \/ Match(r)
             \/ Exchange(r) \/ NonceGet(r) \/ NonceSet(r) \/ StartSession(r) \/ Reply(r)
      PROVE  RequestUses(q)'
  <2>1. pc'[q] = pc[q] /\ req'[q] = req[q] /\ out'[q] = out[q]
    BY <1>3 DEF Visit, Authenticate, Respond, BrowserBack, Match, Exchange, NonceGet, NonceSet,
       StartSession, Reply, Goto, TypeOK, reply
  <2> QED
    BY <1>1, <2>1, UsesKept
<1>4. CASE Visit(q)
  BY <1>1, <1>4 DEF Visit, Goto, RequestUses, Accepted, NoRequest, NoFlow, TypeOK, reply
<1>5. CASE Respond(q)
  BY <1>1, <1>5 DEF Respond, Goto, RequestUses, Accepted, NoFlow, TypeOK, reply, SessionsUsed
<1>6. CASE Match(q)
  <2>1. req' = req /\ out' = out
    BY <1>6 DEF Match
  <2>2. pc'[q] \in Accepted => req[q].state \in consumed'
    BY <1>6 DEF Match, Goto, TypeOK, Accepted, Restores, Valid
  <2> QED
    BY <1>1, <2>1, <2>2 DEF RequestUses, Accepted, NoFlow
<1>7. CASE Authenticate(q) \/ BrowserBack(q) \/ Exchange(q) \/ NonceGet(q) \/ NonceSet(q)
  <2>1. req' = req /\ out' = out
    BY <1>7 DEF Authenticate, BrowserBack, Exchange, NonceGet, NonceSet, reply
  <2>2. pc'[q] \in Accepted => pc[q] \in Accepted
    BY <1>7 DEF Authenticate, BrowserBack, Exchange, NonceGet, NonceSet, AfterNonce, Accepted, Goto, TypeOK
  <2> QED
    BY <1>1, <2>1, <2>2 DEF RequestUses, Accepted, NoFlow
<1>8. CASE StartSession(q)
  <2>1. req' = req /\ out'[q] \in {out[q], req[q].state} /\ pc'[q] = "reply" /\ req[q].state \in consumed
    BY <1>1, <1>8 DEF StartSession, Goto, TypeOK, RequestUses, Accepted
  <2> QED
    BY <1>1, <2>1 DEF RequestUses, Accepted, NoFlow
<1>9. CASE Reply(q)
  BY <1>1, <1>9 DEF Reply, Goto, RequestUses, Accepted, NoRequest, NoFlow, TypeOK
<1> QED
  BY <1>2, <1>3, <1>4, <1>5, <1>6, <1>7, <1>8, <1>9 DEF Next

LEMMA SessionsUsedStep ==
    ASSUME TypeOK, MatchInv, Next
    PROVE  SessionsUsed'
<1>1. Browsers' = Browsers /\ SessionsUsed /\ consumed \subseteq consumed'
  BY ConfigKept, SameConfig, ConsumedGrows DEF MatchInv
<1>2. ASSUME NEW r \in Requests, Reply(r), Arrives(r)
      PROVE  SessionsUsed'
  <2>1. out[r] # Keep => out[r] \in consumed
    BY DEF MatchInv, RequestUses
  <2> QED
    BY <1>1, <1>2, <2>1 DEF Arrives, SessionsUsed, NoFlow, TypeOK
<1>3. CASE SessionEnds
  BY <1>1, <1>3 DEF SessionEnds, SessionsUsed, TypeOK
<1>4. CASE session' = session
  BY <1>1, <1>4 DEF SessionsUsed, NoFlow
<1> QED
  BY <1>2, <1>3, <1>4 DEF Next, Rekey, Tick, OpAnswers, Visit, Authenticate, Respond, BrowserBack, Match,
     Exchange, NonceGet, NonceSet, StartSession, Reply, world

(***************************************************************************)
(* Cookies are kept for as long as they can be used.                       *)
(***************************************************************************)
LEMMA KeepsKept ==
    ASSUME TypeOK, Bounds, Owned, Next, NEW q \in Requests, RequestKeeps(q),
           pc'[q] = pc[q], req'[q] = req[q], del'[q] = del[q]
    PROVE  RequestKeeps(q)'
<1>1. Browsers' = Browsers /\ Flows' = Flows /\ del[q] \subseteq Flows
  BY ConfigKept, SameConfig DEF TypeOK
<1>2. \A f \in Flows : flow[f].browser \in Browsers =>
          flow'[f].browser = flow[f].browser /\ (Gone(f) => Gone(f)')
  BY StampKept, GoneKept
<1>3. \A g \in del[q] : flow'[g].browser \in Browsers /\ Gone(g)'
  BY <1>1, <1>2 DEF RequestKeeps
<1>4. CASE pc[q] # "match"
  BY <1>1, <1>3, <1>4 DEF RequestKeeps, Gone, TimedOut
<1>5. CASE pc[q] = "match"
  <2>1. PICK f \in Flows : f = req[q].state
    BY <1>5 DEF RequestKeeps
  <2>2. flow[f].browser \in Browsers /\ (flow[f].browser = req[q].browser => f \in req[q].cookies \/ Gone(f))
    BY <1>5, <2>1 DEF RequestKeeps
  <2>3. flow'[f].browser \in Browsers /\ (flow'[f].browser = req[q].browser => f \in req[q].cookies \/ Gone(f)')
    BY <1>2, <2>2
  <2> QED
    BY <1>1, <1>3, <2>1, <2>3 DEF RequestKeeps, Gone, TimedOut
<1> QED
  BY <1>4, <1>5

LEMMA KeepsStep ==
    ASSUME TypeOK, Bounds, Owned, MatchInv, ~config.delete, Next, NEW q \in Requests
    PROVE  RequestKeeps(q)'
<1>1. /\ Browsers' = Browsers /\ Flows' = Flows /\ RequestKeeps(q) /\ RequestOwns(q)
      /\ \A f \in Flows : CookieKept(f)
  BY ConfigKept, SameConfig DEF MatchInv, Owned
<1>2. CASE SessionEnds \/ Rekey \/ Tick \/ \E f \in Flows : OpAnswers(f)
  BY <1>1, <1>2, KeepsKept DEF SessionEnds, Rekey, Tick, OpAnswers, reply
<1>3. ASSUME NEW r \in Requests, q # r,
             \/ Visit(r) \/ Authenticate(r) \/ Respond(r) \/ BrowserBack(r) \/ Match(r)
             \/ Exchange(r) \/ NonceGet(r) \/ NonceSet(r) \/ StartSession(r) \/ Reply(r)
      PROVE  RequestKeeps(q)'
  <2>1. pc'[q] = pc[q] /\ req'[q] = req[q] /\ del'[q] = del[q]
    BY <1>3 DEF Visit, Authenticate, Respond, BrowserBack, Match, Exchange, NonceGet, NonceSet,
       StartSession, Reply, Goto, TypeOK, reply
  <2> QED
    BY <1>1, <2>1, KeepsKept
<1>4. \A f \in Flows : flow[f].browser \in Browsers =>
          flow'[f].browser = flow[f].browser /\ (Gone(f) => Gone(f)')
  BY StampKept, GoneKept
<1>5. ASSUME \A g \in del'[q] : g \in Flows /\ flow[g].browser \in Browsers /\ (Gone(g) \/ Gone(g)'),
             pc'[q] # "match"
      PROVE  RequestKeeps(q)'
  <2>1. \A g \in del'[q] : flow'[g].browser \in Browsers /\ Gone(g)'
    BY <1>4, <1>5
  <2> QED
    BY <1>1, <1>5, <2>1 DEF RequestKeeps, Gone, TimedOut
<1>6. \A f \in req[q].cookies : f \in Flows /\ flow[f].browser \in Browsers
  BY <1>1 DEF RequestOwns, Owns
<1>7. CASE Visit(q) \/ BrowserBack(q) \/ Exchange(q) \/ NonceGet(q) \/ NonceSet(q) \/ StartSession(q)
  <2>1. del' = del /\ pc'[q] # "match"
    BY <1>7 DEF Visit, BrowserBack, Exchange, NonceGet, NonceSet, StartSession, AfterNonce, Goto, TypeOK, reply
  <2>2. \A g \in del[q] : g \in Flows /\ flow[g].browser \in Browsers /\ Gone(g)
    BY <1>1 DEF RequestKeeps, TypeOK
  <2> QED
    BY <1>5, <2>1, <2>2
<1>8. CASE Authenticate(q)
  <2> DEFINE C == req[q].cookies
  <2>1. PICK D \in Superfluous(Valid(C)) : del' = [del EXCEPT ![q] = D \cup (C \ Valid(C))]
    BY <1>8 DEF Authenticate
  <2>2. D = {}
    BY <2>1 DEF Superfluous
  <2>3. del'[q] = C \ Valid(C) /\ pc'[q] = "reply"
    BY <1>8, <2>1, <2>2 DEF Authenticate, Goto, TypeOK
  <2>4. \A g \in C \ Valid(C) : Gone(g)
    BY DEF Valid, Gone
  <2> QED
    BY <1>5, <1>6, <2>3, <2>4
<1>9. CASE Respond(q)
  <2>1. PICK b \in Browsers, f \in Flows :
             /\ flow[f].answer # "none" /\ req'[q].state = f /\ req'[q].browser = b /\ req'[q].cookies = jar[b]
    BY <1>9 DEF Respond, TypeOK
  <2>2. pc'[q] = "match" /\ del' = del
    BY <1>9 DEF Respond, Goto, TypeOK, reply
  <2>3. flow[f].browser \in Browsers /\ (f \in jar[flow[f].browser] \/ Gone(f))
    BY <1>1, <2>1 DEF CookieKept
  <2>4. flow'[f].browser \in Browsers /\ (flow'[f].browser = b => f \in jar[b] \/ Gone(f)')
    BY <1>4, <2>3
  <2>5. \A g \in del[q] : flow'[g].browser \in Browsers /\ Gone(g)'
    BY <1>1, <1>4 DEF RequestKeeps, TypeOK
  <2> QED
    BY <1>1, <2>1, <2>2, <2>4, <2>5 DEF RequestKeeps, Gone, TimedOut
<1>10. CASE Match(q)
  <2>1. del'[q] = Cleaned(q) /\ consumed' = consumed \cup (req[q].cookies \cap {req[q].state})
    BY <1>10 DEF Match, TypeOK
  <2>2. pc'[q] # "match"
    BY <1>10 DEF Match, FirstStep, Goto, TypeOK
  <2>3. ASSUME NEW g \in Cleaned(q)
        PROVE  g \in Flows /\ flow[g].browser \in Browsers /\ (Gone(g) \/ Gone(g)')
    <3>1. g \in req[q].cookies
      BY DEF Cleaned
    <3>2. CASE g = req[q].state
      BY <1>6, <2>1, <3>1, <3>2 DEF Gone
    <3>3. CASE g \notin Valid(req[q].cookies)
      BY <1>6, <3>1, <3>3 DEF Valid, Gone
    <3> QED
      BY <3>2, <3>3 DEF Cleaned
  <2> QED
    BY <1>5, <2>1, <2>2, <2>3
<1>11. CASE Reply(q)
  <2>1. del'[q] = {} /\ pc'[q] = "idle"
    BY <1>11 DEF Reply, Goto, TypeOK
  <2> QED
    BY <1>5, <2>1
<1> QED
  BY <1>2, <1>3, <1>7, <1>8, <1>9, <1>10, <1>11 DEF Next

LEMMA CookieStep ==
    ASSUME TypeOK, Bounds, Owned, MatchInv, ~config.delete, Next, NEW f \in Flows
    PROVE  CookieKept(f)'
<1>1. /\ Browsers' = Browsers /\ CookieKept(f) /\ flow[f] \in FlowRecords /\ flow \in [Flows -> FlowRecords]
      /\ \A r \in Requests : RequestKeeps(r) /\ RequestOwns(r)
  BY ConfigKept, SameConfig DEF MatchInv, TypeOK, Owned
<1>2. flow[f].browser \in Browsers => flow'[f].browser = flow[f].browser /\ (Gone(f) => Gone(f)')
  BY StampKept, GoneKept
<1>3. ASSUME flow'[f].sent \/ flow'[f].answer # "none" => flow[f].sent \/ flow[f].answer # "none",
             \A b \in Browsers : f \in jar[b] => f \in jar'[b] \/ Gone(f)
      PROVE  CookieKept(f)'
  <2>1. CASE flow[f].sent \/ flow[f].answer # "none"
    <3>1. flow[f].browser \in Browsers /\ (f \in jar[flow[f].browser] \/ Gone(f))
      BY <1>1, <2>1 DEF CookieKept
    <3>2. flow'[f].browser \in Browsers /\ (f \in jar'[flow'[f].browser] \/ Gone(f)')
      BY <1>2, <1>3, <3>1
    <3> QED
      BY <1>1, <3>2 DEF CookieKept
  <2>2. CASE ~(flow[f].sent \/ flow[f].answer # "none")
    BY <1>3, <2>2 DEF CookieKept
  <2> QED
    BY <2>1, <2>2
<1>4. ASSUME NEW g \in Flows, OpAnswers(g)
      PROVE  CookieKept(f)'
  <2>1. CASE g = f
    BY <1>3, <1>4, <2>1 DEF OpAnswers
  <2>2. CASE g # f
    <3>1. flow'[f] = flow[f] /\ jar' = jar
      BY <1>1, <1>4, <2>2 DEF OpAnswers
    <3> QED
      BY <1>3, <3>1
  <2> QED
    BY <2>1, <2>2
<1>5. ASSUME NEW r \in Requests, Authenticate(r)
      PROVE  CookieKept(f)'
  <2>1. flow' = flow \/ \E t : flow' = [flow EXCEPT ![last + 1] = NewFlow(req[r].browser, t)]
    BY <1>5 DEF Authenticate
  <2>2. flow'[f] = flow[f] \/ (flow'[f].sent = FALSE /\ flow'[f].answer = "none")
    <3>1. CASE \E t : flow' = [flow EXCEPT ![last + 1] = NewFlow(req[r].browser, t)]
      <4>1. PICK t : flow' = [flow EXCEPT ![last + 1] = NewFlow(req[r].browser, t)]
        BY <3>1
      <4>2. NewFlow(req[r].browser, t).sent = FALSE /\ NewFlow(req[r].browser, t).answer = "none"
        BY DEF NewFlow
      <4>3. flow'[f] = flow[f] \/ flow'[f] = NewFlow(req[r].browser, t)
        BY <1>1, <4>1
      <4> QED
        BY <4>2, <4>3
    <3> QED
      BY <2>1, <3>1
  <2>3. jar' = jar
    BY <1>5 DEF Authenticate
  <2> QED
    BY <1>3, <2>2, <2>3
<1>6. ASSUME NEW r \in Requests, Exchange(r)
      PROVE  CookieKept(f)'
  <2>1. PICK g, t : flow' = [flow EXCEPT ![g].code = FALSE, ![g].iat = t]
    BY <1>6 DEF Exchange
  <2>2. flow'[f].sent = flow[f].sent /\ flow'[f].answer = flow[f].answer /\ jar' = jar
    BY <1>1, <1>6, <2>1 DEF FlowRecords, Exchange
  <2> QED
    BY <1>3, <2>2
<1>7. ASSUME NEW r \in Requests, Reply(r)
      PROVE  CookieKept(f)'
  <2> DEFINE b == req[r].browser
  <2>1. CASE UNCHANGED <<jar, flow>>
    BY <1>3, <2>1
  <2>2. CASE Arrives(r)
    <3>1. b \in Browsers /\ jar' = [jar EXCEPT ![b] = JarAfter(r, b)]
      BY <1>1, <1>7, <2>2 DEF Reply, RequestOwns, Arrives
    <3>2. f \in del[r] => Gone(f)
      BY <1>1 DEF RequestKeeps
    <3>3. \A c \in Browsers : f \in jar[c] => f \in jar'[c] \/ Gone(f)
      BY <3>1, <3>2 DEF JarAfter, TypeOK
    <3>4. CASE f # add[r]
      <4>1. flow'[f] = flow[f]
        BY <1>1, <2>2, <3>4 DEF Arrives
      <4> QED
        BY <1>3, <3>3, <4>1
    <3>5. CASE f = add[r]
      <4>1. add[r] # NoFlow
        BY <3>5, FlowFacts
      <4>2. flow[f].browser = b
        BY <1>1, <3>5, <4>1 DEF RequestOwns, Owns
      <4>3. f \in jar'[b]
        BY <3>1, <3>5, <4>1 DEF JarAfter, TypeOK
      <4> QED
        BY <1>1, <1>2, <3>1, <4>2, <4>3 DEF CookieKept
    <3> QED
      BY <3>4, <3>5
  <2> QED
    BY <1>7, <2>1, <2>2 DEF Reply
<1>8. CASE UNCHANGED <<flow, jar>>
  BY <1>3, <1>8
<1> QED
  BY <1>4, <1>5, <1>6, <1>7, <1>8 DEF Next, SessionEnds, Rekey, Tick, Visit, Respond, BrowserBack, Match,
     NonceGet, NonceSet, StartSession, world

LEMMA MatchStep ==
    ASSUME AuthnInv, MatchInv, [Next]_vars
    PROVE  MatchInv'
<1>1. CASE Next
  <2>1. Flows' = Flows /\ config' = config /\ TypeOK /\ Bounds /\ Owned
    BY <1>1, ConfigKept, SameConfig DEF AuthnInv
  <2> QED
    BY <1>1, <2>1, SessionsUsedStep, UsesStep, CookieStep, KeepsStep DEF MatchInv
<1>2. CASE UNCHANGED vars
  BY <1>2 DEF MatchInv, SessionsUsed, RequestUses, RequestKeeps, CookieKept, Gone, TimedOut, StateTimeout, vars,
     Accepted, Flows, Browsers, MaxFlow, Keep, NoFlow
<1> QED
  BY <1>1, <1>2

\* The invariant behind the matching of responses.
THEOREM MatchInvariance == Spec => [](AuthnInv /\ MatchInv)
<1>1. Init => AuthnInv /\ MatchInv
  BY AuthnInit, MatchInit
<1> QED
  BY <1>1, MatchStep, AuthnInvariance, PTL DEF Spec

\* The oldest cookies are deleted only to keep to a limit: the directive is not
\* used with the limit 0.
Limited == \A c \in Settings : c.delete => c.limit > 0

\* The first response to an authentication request that arrives within
\* OIDCStateTimeout finds its state, whatever other tabs have started, finished
\* or cleaned up since (oidc_state_cookies_clean_expired,
\* oidc_response_proto_state_restore): where the oldest cookies are deleted only
\* to keep to a limit.  The exception, the limit 0, is where it does not hold.
THEOREM AlwaysMatched ==
    ASSUME Limited
    PROVE  Spec => InTimeMatched
<1> DEFINE Matched ==
      \A r \in Requests :
         LET f == req[r].state
         IN  /\ pc[r] = "match" /\ pc'[r] = "reply"
             /\ flow[f].answer = "ok" /\ flow[f].browser = req[r].browser /\ req[r].same
             /\ ~(config.delete /\ config.limit > 0)
             => f \in consumed \/ f \notin readable \/ now > flow[f].ts + StateTimeout
<1>1. AuthnInv /\ MatchInv /\ [Next]_vars => [Matched]_vars
  <2> SUFFICES ASSUME AuthnInv, MatchInv, Next, NEW r \in Requests,
                      pc[r] = "match", pc'[r] = "reply", flow[req[r].state].answer = "ok",
                      flow[req[r].state].browser = req[r].browser, req[r].same,
                      ~(config.delete /\ config.limit > 0)
               PROVE  Gone(req[r].state)
    BY DEF Gone, TimedOut
  <2> DEFINE f == req[r].state
  <2>1. TypeOK /\ Owned /\ ~config.delete
    BY DEF AuthnInv, Limited, TypeOK
  <2>2. RequestKeeps(r) /\ RequestUses(r)
    BY <2>1 DEF MatchInv
  <2>3. f \in Flows /\ (f \in req[r].cookies \/ Gone(f))
    BY <2>2 DEF RequestKeeps
  <2>4. BrowserBack(r) \/ Match(r)
    <3>1. pc'[r] # pc[r]
      OBVIOUS
    <3>2. \/ Visit(r) \/ Authenticate(r) \/ Respond(r) \/ BrowserBack(r) \/ Match(r)
          \/ Exchange(r) \/ NonceGet(r) \/ NonceSet(r) \/ StartSession(r) \/ Reply(r)
      BY <2>1, <3>1, OwnStep
    <3> QED
      BY <3>2 DEF Visit, Authenticate, Respond, Exchange, NonceGet, NonceSet, StartSession, Reply
  <2>5. CASE BrowserBack(r)
    <3>1. req[r].session = f /\ f # NoFlow
      BY <2>1, <2>3, <2>5, FlowFacts DEF BrowserBack
    <3> QED
      BY <2>2, <3>1 DEF RequestUses, Gone
  <2>6. CASE Match(r)
    <3>1. ~Restores(r)
      BY <2>1, <2>6 DEF Match, Goto, FirstStep, TypeOK
    <3> QED
      BY <2>3, <3>1 DEF Restores, Valid, Gone
  <2> QED
    BY <2>4, <2>5, <2>6
<1> QED
  BY <1>1, MatchInvariance, PTL DEF Spec, InTimeMatched

(***************************************************************************)
(* The limit on state cookies.                                             *)
(***************************************************************************)

\* The request may still add a state cookie.
Adding(q) == pc[q] = "authenticate" \/ add[q] # NoFlow

\* With the order in which requests were sent: those up to s that may still add one.
Ahead(stamp, s) == {q \in Requests : Adding(q) /\ stamp[q] <= s}

\* The valid cookies of the browser that are not in C.
Newer(b, C) == Valid(jar[b]) \ C

Fits(b, C, stamp, s) ==
    Cardinality(Newer(b, C)) + Cardinality(Ahead(stamp, s)) <= Cardinality(Requests)

\* Of the requests that have added a cookie, the one that was sent last saw less
\* than the limit: B is what it left, s0 when it was sent.  Whatever else is in
\* the jar was added by requests that were under way then.
Base(b, B, s0, stamp, top) ==
    /\ \A f \in B : flow[f].browser \in Browsers
    /\ s0 < top /\ \A q \in Requests : stamp[q] < top
    /\ Cardinality(Valid(B)) < config.limit
    /\ Fits(b, B, stamp, s0)
    /\ \A q \in Requests : Adding(q) /\ req[q].browser = b /\ stamp[q] > s0 => Fits(b, req[q].cookies, stamp, stamp[q])

HasBase(b) == \E B \in SUBSET Flows, s0 \in Nat, top \in Nat, stamp \in [Requests -> Nat] : Base(b, B, s0, stamp, top)

\* A request that adds a cookie leaves less than the limit of those it saw.
LeavesFew(r) ==
    add[r] # NoFlow =>
        pc[r] = "reply" /\ Cardinality(Valid(req[r].cookies) \ del[r]) < config.limit

LimitInv ==
    config.limit > 0 => /\ \A b \in Browsers : HasBase(b)
                        /\ \A r \in Requests : LeavesFew(r)

LEMMA LimitFacts ==
    ASSUME TypeOK
    PROVE  /\ config.limit \in Nat /\ IsFiniteSet(Flows) /\ IsFiniteSet(Requests) /\ Cardinality(Requests) \in Nat
           /\ \A C : C \subseteq Flows => IsFiniteSet(Valid(C)) /\ Cardinality(Valid(C)) \in Nat
           /\ \A C, D : C \subseteq Flows => IsFiniteSet(Valid(C) \ D) /\ Cardinality(Valid(C) \ D) \in Nat
<1>1. config.limit \in Nat /\ MaxFlow \in Nat /\ IsFiniteSet(Requests)
  BY ConfigFacts, SettingsAssumption DEF TypeOK
<1>2. IsFiniteSet(Flows)
  BY <1>1, FS_Interval DEF Flows
<1>3. \A S : S \subseteq Flows => IsFiniteSet(S) /\ Cardinality(S) \in Nat
  BY <1>2, FS_Subset, FS_CardinalityType
<1>4. \A C, D : C \subseteq Flows => Valid(C) \subseteq Flows /\ Valid(C) \ D \subseteq Flows
  BY DEF Valid
<1> QED
  BY <1>1, <1>2, <1>3, <1>4, FS_CardinalityType

LEMMA AheadFinite ==
    ASSUME NEW stamp, NEW s
    PROVE  /\ IsFiniteSet(Ahead(stamp, s)) /\ Cardinality(Ahead(stamp, s)) \in Nat
           /\ Cardinality(Ahead(stamp, s)) <= Cardinality(Requests)
<1>1. Ahead(stamp, s) \subseteq Requests /\ IsFiniteSet(Requests)
  BY SettingsAssumption DEF Ahead
<1> QED
  BY <1>1, FS_Subset, FS_CardinalityType

\* A set that has one element more, and a set that is covered by two.
LEMMA OneMore ==
    ASSUME NEW S, NEW T, NEW x, IsFiniteSet(T), S \subseteq T \cup {x}
    PROVE  IsFiniteSet(S) /\ Cardinality(S) \in Nat /\ Cardinality(S) <= Cardinality(T) + 1
<1>1. /\ IsFiniteSet(T \cup {x}) /\ Cardinality(T \cup {x}) \in Nat /\ Cardinality(T) \in Nat
      /\ Cardinality(T \cup {x}) <= Cardinality(T) + 1
  <2>1. Cardinality(T) \in Nat /\ IsFiniteSet(T \cup {x})
    BY FS_AddElement, FS_CardinalityType
  <2>2. Cardinality(T \cup {x}) = IF x \in T THEN Cardinality(T) ELSE Cardinality(T) + 1
    BY FS_AddElement
  <2> QED
    BY <2>1, <2>2
<1>2. IsFiniteSet(S) /\ Cardinality(S) <= Cardinality(T \cup {x}) /\ Cardinality(S) \in Nat
  BY <1>1, FS_Subset, FS_CardinalityType
<1> QED
  BY <1>1, <1>2

LEMMA Covered ==
    ASSUME NEW S, NEW T, NEW U, IsFiniteSet(T), IsFiniteSet(U), S \subseteq T \cup U
    PROVE  Cardinality(S) <= Cardinality(T) + Cardinality(U)
<1>1. /\ IsFiniteSet(T \cup U) /\ IsFiniteSet(T \cap U)
      /\ Cardinality(T \cup U) = Cardinality(T) + Cardinality(U) - Cardinality(T \cap U)
  BY FS_Union, FS_Intersection
<1>2. IsFiniteSet(S) /\ Cardinality(S) <= Cardinality(T \cup U)
  BY <1>1, FS_Subset
<1>3. /\ Cardinality(S) \in Nat /\ Cardinality(T) \in Nat /\ Cardinality(U) \in Nat
      /\ Cardinality(T \cap U) \in Nat
  BY <1>1, <1>2, FS_CardinalityType
<1> QED
  BY <1>1, <1>2, <1>3

LEMMA Smaller ==
    ASSUME NEW S, NEW T, IsFiniteSet(T), S \subseteq T
    PROVE  Cardinality(S) \in Nat /\ Cardinality(T) \in Nat /\ Cardinality(S) <= Cardinality(T)
  BY FS_Subset, FS_CardinalityType

\* No state cookie becomes valid.
LEMMA ValidShrinks ==
    ASSUME TypeOK, Bounds, Owned, Next, NEW C, \A f \in C : f \in Flows /\ flow[f].browser \in Browsers
    PROVE  Valid(C)' \subseteq Valid(C)
<1> SUFFICES ASSUME NEW f \in C, f \in readable', ~TimedOut(f)'
             PROVE  f \in readable /\ ~TimedOut(f)
  BY DEF Valid
<1>1. now' \in {now, now + 1} /\ readable' \subseteq readable
  BY DEF Next, SessionEnds, Rekey, Tick, OpAnswers, Visit, Authenticate, Respond, BrowserBack, Match,
     Exchange, NonceGet, NonceSet, StartSession, Reply, world
<1>2. StateTimeout' = StateTimeout /\ StateTimeout \in Nat /\ now \in Nat /\ flow[f].ts \in Nat
  <2>1. config' = config /\ config \in Settings /\ now \in Nat /\ flow[f] \in FlowRecords
    BY ConfigKept DEF TypeOK
  <2> QED
    BY <2>1, ConfigFacts DEF StateTimeout, FlowRecords
<1>3. flow'[f].ts = flow[f].ts
  BY StampKept
<1> QED
  BY <1>1, <1>2, <1>3 DEF TimedOut

LEMMA CookiesOwned ==
    ASSUME Owned
    PROVE  /\ \A b \in Browsers : \A f \in jar[b] : f \in Flows /\ flow[f].browser \in Browsers
           /\ \A r \in Requests : \A f \in req[r].cookies : f \in Flows /\ flow[f].browser \in Browsers
  BY DEF Owned, RequestOwns, Owns

\* What fits goes on to fit when no cookie and no request comes in.
LEMMA FitsKept ==
    ASSUME TypeOK, Bounds, Owned, Next, NEW b \in Browsers, NEW C, NEW stamp, NEW s,
           Fits(b, C, stamp, s), jar'[b] \subseteq jar[b], \A q \in Requests : Adding(q)' => Adding(q)
    PROVE  Fits(b, C, stamp, s)'
<1>1. PICK J : J = jar'[b]
  OBVIOUS
<1>2. jar[b] \subseteq Flows /\ \A f \in jar[b] : f \in Flows /\ flow[f].browser \in Browsers
  BY CookiesOwned
<1>3. Valid(J)' \subseteq Valid(J)
  BY <1>1, <1>2, ValidShrinks
<1>4. Newer(b, C)' \subseteq Newer(b, C)
  BY <1>1, <1>3 DEF Newer, Valid
<1>5. Ahead(stamp, s)' \subseteq Ahead(stamp, s)
  BY DEF Ahead
<1>6. /\ Cardinality(Newer(b, C)') \in Nat /\ Cardinality(Newer(b, C)) \in Nat
      /\ Cardinality(Newer(b, C)') <= Cardinality(Newer(b, C))
  BY <1>2, <1>4, LimitFacts, Smaller DEF Newer
<1>7. /\ Cardinality(Ahead(stamp, s)') \in Nat /\ Cardinality(Ahead(stamp, s)) \in Nat
      /\ Cardinality(Ahead(stamp, s)') <= Cardinality(Ahead(stamp, s))
  BY <1>5, AheadFinite, Smaller
<1>8. Cardinality(Requests) \in Nat
  BY LimitFacts
<1> QED
  BY <1>6, <1>7, <1>8 DEF Fits

\* The base goes on to be one.
LEMMA BaseFew ==
    ASSUME TypeOK, Bounds, Owned, Next, NEW B, Cardinality(Valid(B)) < config.limit,
           \A f \in B : f \in Flows /\ flow[f].browser \in Browsers
    PROVE  /\ Cardinality(Valid(B)') < config'.limit
           /\ \A f \in B : f \in Flows' /\ flow'[f].browser \in Browsers'
<1>1. Valid(B)' \subseteq Valid(B) /\ IsFiniteSet(Valid(B)) /\ config.limit \in Nat
  BY ValidShrinks, LimitFacts
<1>2. /\ Cardinality(Valid(B)') \in Nat /\ Cardinality(Valid(B)) \in Nat
      /\ Cardinality(Valid(B)') <= Cardinality(Valid(B))
  BY <1>1, Smaller
<1>3. config' = config /\ Flows' = Flows /\ Browsers' = Browsers
  BY ConfigKept, SameConfig
<1> QED
  BY <1>1, <1>2, <1>3, StampKept

LEMMA BaseKept ==
    ASSUME TypeOK, Bounds, Owned, Next, NEW b \in Browsers, HasBase(b), jar'[b] \subseteq jar[b],
           \A q \in Requests : Adding(q)' => Adding(q) /\ req'[q] = req[q]
    PROVE  HasBase(b)'
<1>1. PICK B \in SUBSET Flows, s0 \in Nat, top \in Nat, stamp \in [Requests -> Nat] : Base(b, B, s0, stamp, top)
  BY DEF HasBase
<1> Flows' = Flows
  BY ConfigKept, SameConfig
<1>2. /\ Cardinality(Valid(B)') < config'.limit
      /\ \A f \in B : f \in Flows' /\ flow'[f].browser \in Browsers'
  BY <1>1, BaseFew DEF Base
<1>3. Fits(b, B, stamp, s0)'
  BY <1>1, FitsKept DEF Base
<1>4. ASSUME NEW q \in Requests, Adding(q)', req'[q].browser = b, stamp[q] > s0
      PROVE  Fits(b, req[q].cookies, stamp, stamp[q])'
  <2>1. PICK C : C = req[q].cookies
    OBVIOUS
  <2>2. Fits(b, C, stamp, stamp[q])
    BY <1>1, <1>4, <2>1 DEF Base
  <2>3. Fits(b, C, stamp, stamp[q])'
    BY <2>2, FitsKept
  <2>4. req'[q].cookies = C
    BY <1>4, <2>1
  <2> QED
    BY <2>3, <2>4 DEF Fits, Newer, Ahead
<1>5. Base(b, B, s0, stamp, top)'
  BY <1>1, <1>2, <1>3, <1>4 DEF Base
<1> QED
  BY <1>1, <1>5 DEF HasBase

\* A request that is sent sees the jar as it is.
LEMMA BaseVisit ==
    ASSUME TypeOK, Bounds, Owned, Next, NEW b \in Browsers, HasBase(b), NEW r \in Requests, Visit(r)
    PROVE  HasBase(b)'
<1>1. PICK B \in SUBSET Flows, s0 \in Nat, top \in Nat, stamp \in [Requests -> Nat] : Base(b, B, s0, stamp, top)
  BY DEF HasBase
<1> Flows' = Flows
  BY ConfigKept, SameConfig
<1> DEFINE st == [stamp EXCEPT ![r] = top]
<1>2. st \in [Requests -> Nat] /\ top + 1 \in Nat
  BY <1>1
<1>3. /\ Cardinality(Valid(B)') < config'.limit
      /\ \A f \in B : f \in Flows' /\ flow'[f].browser \in Browsers'
  BY <1>1, BaseFew DEF Base
<1>4. /\ pc' = [pc EXCEPT ![r] = "authenticate"] /\ add' = add /\ jar' = jar /\ pc[r] = "idle"
      /\ \A q \in Requests : q # r => req'[q] = req[q]
  BY DEF Visit, Goto, world, reply, TypeOK
<1>5. add[r] = NoFlow /\ ~Adding(r)
  BY <1>4 DEF Owned, RequestOwns, Adding
<1>6. \A q \in Requests : q # r => (Adding(q)' <=> Adding(q))
  BY <1>4 DEF Adding, TypeOK
<1>7. st[r] = top /\ \A q \in Requests : q # r => st[q] = stamp[q]
  BY <1>1
<1> HIDE DEF st
<1>8. ASSUME NEW C, NEW s \in Nat, s < top, Fits(b, C, stamp, s)
      PROVE  Fits(b, C, st, s)'
  <2>1. ~(st[r] <= s)
    BY <1>1, <1>7, <1>8
  <2>2. Ahead(st, s)' \subseteq Ahead(stamp, s)
    BY <1>6, <1>7, <2>1 DEF Ahead
  <2>3. jar[b] \subseteq Flows /\ \A f \in jar[b] : f \in Flows /\ flow[f].browser \in Browsers
    BY CookiesOwned
  <2>4. PICK J : J = jar[b]
    OBVIOUS
  <2>5. Valid(J)' \subseteq Valid(J)
    BY <2>3, <2>4, ValidShrinks
  <2>6. Newer(b, C)' \subseteq Newer(b, C)
    BY <1>4, <2>4, <2>5 DEF Newer, Valid
  <2>7. /\ Cardinality(Newer(b, C)') \in Nat /\ Cardinality(Newer(b, C)) \in Nat
        /\ Cardinality(Newer(b, C)') <= Cardinality(Newer(b, C))
    BY <2>3, <2>6, LimitFacts, Smaller DEF Newer
  <2>8. /\ Cardinality(Ahead(st, s)') \in Nat /\ Cardinality(Ahead(stamp, s)) \in Nat
        /\ Cardinality(Ahead(st, s)') <= Cardinality(Ahead(stamp, s))
    BY <2>2, AheadFinite, Smaller
  <2>9. Cardinality(Requests) \in Nat
    BY LimitFacts
  <2> QED
    BY <1>8, <2>7, <2>8, <2>9 DEF Fits
<1>9. Fits(b, B, st, s0)'
  BY <1>1, <1>8 DEF Base
<1>10. ASSUME NEW q \in Requests, Adding(q)', req'[q].browser = b, st[q] > s0
       PROVE  Fits(b, req[q].cookies, st, st[q])'
  <2>1. CASE q # r
    <3>1. PICK C : C = req[q].cookies
      OBVIOUS
    <3>2. Fits(b, C, stamp, stamp[q]) /\ stamp[q] \in Nat /\ stamp[q] < top
      BY <1>1, <1>4, <1>6, <1>7, <1>10, <2>1, <3>1 DEF Base
    <3>3. Fits(b, C, st, stamp[q])'
      BY <1>8, <3>2
    <3>4. req'[q].cookies = C /\ st[q] = stamp[q]
      BY <1>4, <1>7, <2>1, <3>1
    <3> QED
      BY <3>3, <3>4 DEF Fits, Newer, Ahead
  <2>2. CASE q = r
    <3>1. req'[r].cookies = jar[b]
      BY <1>10, <2>2 DEF Visit, NoRequest, TypeOK
    <3>2. Newer(b, req[r].cookies)' = {}
      BY <1>4, <3>1 DEF Newer, Valid
    <3>3. Cardinality(Newer(b, req[r].cookies)') = 0
      BY <3>2, FS_EmptySet
    <3>4. Ahead(st, st[q])' \subseteq Requests /\ IsFiniteSet(Requests)
      BY SettingsAssumption DEF Ahead
    <3>5. /\ Cardinality(Ahead(st, st[q])') \in Nat /\ Cardinality(Requests) \in Nat
          /\ Cardinality(Ahead(st, st[q])') <= Cardinality(Requests)
      BY <3>4, Smaller
    <3> QED
      BY <2>2, <3>3, <3>5 DEF Fits
  <2> QED
    BY <2>1, <2>2
<1>11. s0 < top + 1 /\ \A q \in Requests : st[q] < top + 1
  BY <1>1, <1>7 DEF Base
<1>12. Base(b, B, s0, st, top + 1)'
  BY <1>3, <1>9, <1>10, <1>11 DEF Base
<1> QED
  BY <1>1, <1>2, <1>12 DEF HasBase

\* The arrival of a reply that adds a cookie.
LEMMA BaseArrival ==
    ASSUME TypeOK, Bounds, Owned, Next, NEW b \in Browsers, HasBase(b), NEW r \in Requests, Reply(r),
           Arrives(r), req[r].browser = b, add[r] # NoFlow, LeavesFew(r)
    PROVE  HasBase(b)'
<1>1. PICK B \in SUBSET Flows, s0 \in Nat, top \in Nat, stamp \in [Requests -> Nat] : Base(b, B, s0, stamp, top)
  BY DEF HasBase
<1> Flows' = Flows
  BY ConfigKept, SameConfig
<1>2. PICK C, D, x : C = req[r].cookies /\ D = del[r] /\ x = add[r]
  OBVIOUS
<1>3. /\ Adding(r) /\ ~Adding(r)' /\ jar'[b] = (jar[b] \ D) \cup {x}
      /\ \A q \in Requests : q # r => (Adding(q)' <=> Adding(q)) /\ req'[q] = req[q]
  <2>1. /\ pc' = [pc EXCEPT ![r] = "idle"] /\ add' = [add EXCEPT ![r] = NoFlow]
        /\ \A q \in Requests : q # r => req'[q] = req[q]
    BY DEF Reply, Goto, TypeOK
  <2>2. jar'[b] = (jar[b] \ D) \cup {x}
    BY <1>2 DEF Arrives, JarAfter, TypeOK
  <2>3. Adding(r) /\ ~Adding(r)'
    BY <2>1 DEF Adding, TypeOK, NoFlow
  <2> QED
    BY <2>1, <2>2, <2>3 DEF Adding, TypeOK, NoFlow
<1>4. /\ jar[b] \subseteq Flows /\ \A f \in jar[b] : f \in Flows /\ flow[f].browser \in Browsers
      /\ \A f \in C : f \in Flows /\ flow[f].browser \in Browsers
      /\ x \in Flows /\ flow[x].browser \in Browsers
  BY <1>2, CookiesOwned DEF Owned, RequestOwns, Owns
<1>5. PICK J : J = jar'[b]
  OBVIOUS
<1>6. Valid(J)' \subseteq Valid(J)
  BY <1>3, <1>4, <1>5, ValidShrinks
<1>7. Valid(jar[b])' \subseteq (Valid(jar[b]) \ D) \cup {x}
  BY <1>3, <1>5, <1>6 DEF Valid
\* One cookie more, one request less.
<1>8. ASSUME NEW E, NEW s \in Nat, stamp[r] <= s, NEW F,
             Fits(b, E, stamp, s), F \subseteq E, \A f \in E \ F : f \in D
      PROVE  Fits(b, F, stamp, s)'
  <2>1. Newer(b, F)' \subseteq Newer(b, E) \cup {x}
    BY <1>7, <1>8 DEF Newer
  <2>2. Ahead(stamp, s)' \subseteq Ahead(stamp, s) \ {r} /\ r \in Ahead(stamp, s)
    BY <1>3, <1>8 DEF Ahead
  <2>3. IsFiniteSet(Newer(b, E)) /\ Cardinality(Newer(b, E)) \in Nat /\ Cardinality(Requests) \in Nat
    BY <1>4, LimitFacts DEF Newer
  <2>4. /\ Cardinality(Newer(b, F)') \in Nat
        /\ Cardinality(Newer(b, F)') <= Cardinality(Newer(b, E)) + 1
    BY <2>1, <2>3, OneMore
  <2>5. IsFiniteSet(Ahead(stamp, s)) /\ Cardinality(Ahead(stamp, s)) \in Nat
    BY AheadFinite
  <2>6. /\ IsFiniteSet(Ahead(stamp, s) \ {r})
        /\ Cardinality(Ahead(stamp, s) \ {r}) = Cardinality(Ahead(stamp, s)) - 1
    BY <2>2, <2>5, FS_RemoveElement
  <2>7. /\ Cardinality(Ahead(stamp, s)') \in Nat
        /\ Cardinality(Ahead(stamp, s)') <= Cardinality(Ahead(stamp, s) \ {r})
    BY <2>2, <2>6, Smaller
  <2> QED
    BY <1>8, <2>3, <2>4, <2>5, <2>6, <2>7 DEF Fits
<1>9. ASSUME NEW q \in Requests, Adding(q)', req'[q].browser = b, stamp[q] > s0, stamp[r] <= stamp[q]
      PROVE  Fits(b, req[q].cookies, stamp, stamp[q])'
  <2>1. q # r /\ stamp[q] \in Nat
    BY <1>1, <1>3, <1>9
  <2>2. PICK E : E = req[q].cookies
    OBVIOUS
  <2>3. Fits(b, E, stamp, stamp[q])
    BY <1>1, <1>3, <1>9, <2>1, <2>2 DEF Base
  <2>4. Fits(b, E, stamp, stamp[q])'
    BY <1>8, <1>9, <2>1, <2>3
  <2>5. req'[q].cookies = E
    BY <1>3, <2>1, <2>2
  <2> QED
    BY <2>4, <2>5 DEF Fits, Newer, Ahead
<1>10. CASE stamp[r] <= s0
  <2>1. /\ Cardinality(Valid(B)') < config'.limit
        /\ \A f \in B : f \in Flows' /\ flow'[f].browser \in Browsers'
    BY <1>1, BaseFew DEF Base
  <2>2. Fits(b, B, stamp, s0)'
    BY <1>1, <1>8, <1>10 DEF Base
  <2>3. \A q \in Requests : stamp[q] > s0 => stamp[r] <= stamp[q]
    BY <1>1, <1>10
  <2>4. Base(b, B, s0, stamp, top)'
    BY <1>1, <1>9, <2>1, <2>2, <2>3 DEF Base
  <2> QED
    BY <1>1, <2>4 DEF HasBase
<1>11. CASE stamp[r] > s0
  <2> DEFINE G == C \ D
             s1 == stamp[r]
  <2>1. s1 \in Nat /\ s1 < top
    BY <1>1 DEF Base
  <2>2. Cardinality(Valid(G)) < config.limit
    <3>1. Valid(G) = Valid(C) \ D
      BY DEF Valid
    <3> QED
      BY <1>2, <3>1 DEF LeavesFew
  <2>3. /\ Cardinality(Valid(G)') < config'.limit
        /\ \A f \in G : f \in Flows' /\ flow'[f].browser \in Browsers'
    BY <1>4, <2>2, BaseFew
  <2>4. Fits(b, C, stamp, s1)
    BY <1>1, <1>2, <1>3, <1>11 DEF Base
  <2>5. Fits(b, G, stamp, s1)'
    BY <1>8, <2>1, <2>4
  <2>6. \A q \in Requests : stamp[q] > s1 => stamp[q] > s0 /\ stamp[r] <= stamp[q]
    BY <1>1, <1>11
  <2>7. Base(b, G, s1, stamp, top)'
    BY <1>1, <1>9, <2>1, <2>3, <2>5, <2>6 DEF Base
  <2>8. G \in SUBSET Flows
    BY <1>4
  <2> QED
    BY <1>1, <2>1, <2>7, <2>8 DEF HasBase
<1> QED
  BY <1>1, <1>10, <1>11

LEMMA HasBaseStep ==
    ASSUME TypeOK, Bounds, Owned, Next, config.limit > 0, LimitInv, NEW b \in Browsers
    PROVE  HasBase(b)'
<1>1. HasBase(b)
  BY DEF LimitInv
<1>2. ASSUME jar'[b] \subseteq jar[b], \A q \in Requests : Adding(q)' => Adding(q) /\ req'[q] = req[q]
      PROVE  HasBase(b)'
  BY <1>1, <1>2, BaseKept
<1>3. CASE SessionEnds \/ Rekey \/ Tick \/ \E f \in Flows : OpAnswers(f)
  BY <1>2, <1>3 DEF SessionEnds, Rekey, Tick, OpAnswers, reply, Adding, NoFlow
<1>4. ASSUME NEW r \in Requests, Visit(r)
      PROVE  HasBase(b)'
  BY <1>1, <1>4, BaseVisit
<1>5. ASSUME NEW r \in Requests, Authenticate(r)
      PROVE  HasBase(b)'
  <2>1. jar' = jar /\ req' = req /\ pc[r] = "authenticate"
    BY <1>5 DEF Authenticate
  <2>2. \A q \in Requests : q # r => pc'[q] = pc[q] /\ add'[q] = add[q]
    BY <1>5 DEF Authenticate, Goto, TypeOK
  <2>3. \A q \in Requests : Adding(q)' => Adding(q)
    BY <2>1, <2>2 DEF Adding, NoFlow
  <2> QED
    BY <1>2, <2>1, <2>3
<1>6. ASSUME NEW r \in Requests,
             BrowserBack(r) \/ Match(r) \/ Exchange(r) \/ NonceGet(r) \/ NonceSet(r) \/ StartSession(r)
      PROVE  HasBase(b)'
  <2>1. jar' = jar /\ req' = req /\ add' = add
    BY <1>6 DEF BrowserBack, Match, Exchange, NonceGet, NonceSet, StartSession, world, reply
  <2>2. /\ \A q \in Requests : q # r => pc'[q] = pc[q]
        /\ pc'[r] # "authenticate"
    BY <1>6 DEF BrowserBack, Match, FirstStep, Exchange, NonceGet, NonceSet, AfterNonce, StartSession, Goto, TypeOK
  <2>3. \A q \in Requests : Adding(q)' => Adding(q)
    BY <2>1, <2>2 DEF Adding, NoFlow
  <2> QED
    BY <1>2, <2>1, <2>3
<1>7. ASSUME NEW r \in Requests, Respond(r)
      PROVE  HasBase(b)'
  <2>1. jar' = jar /\ add' = add /\ pc[r] = "idle" /\ pc'[r] = "match"
    BY <1>7 DEF Respond, Goto, TypeOK, world, reply
  <2>2. \A q \in Requests : q # r => pc'[q] = pc[q] /\ req'[q] = req[q]
    BY <1>7 DEF Respond, Goto, TypeOK
  <2>3. add[r] = NoFlow
    BY <2>1 DEF Owned, RequestOwns
  <2>4. \A q \in Requests : Adding(q)' => Adding(q) /\ q # r
    BY <2>1, <2>2, <2>3 DEF Adding, NoFlow
  <2> QED
    BY <1>2, <2>1, <2>2, <2>4
<1>8. ASSUME NEW r \in Requests, Reply(r)
      PROVE  HasBase(b)'
  <2>1. CASE Arrives(r) /\ req[r].browser = b /\ add[r] # NoFlow
    BY <1>1, <1>8, <2>1, BaseArrival DEF LimitInv
  <2>2. CASE ~(Arrives(r) /\ req[r].browser = b /\ add[r] # NoFlow)
    <3>1. jar'[b] \subseteq jar[b]
      <4>1. CASE jar' = jar
        BY <4>1
      <4>2. CASE Arrives(r)
        <5>1. req[r].browser \in Browsers /\ jar \in [Browsers -> SUBSET Flows]
          BY <1>8 DEF Reply, Owned, RequestOwns, TypeOK
        <5>2. jar' = [jar EXCEPT ![req[r].browser] = JarAfter(r, req[r].browser)]
          BY <4>2 DEF Arrives
        <5>3. CASE req[r].browser # b
          BY <5>1, <5>2, <5>3
        <5>4. CASE add[r] = NoFlow
          BY <5>1, <5>2, <5>4 DEF JarAfter
        <5> QED
          BY <2>2, <4>2, <5>3, <5>4
      <4> QED
        BY <1>8, <4>1, <4>2 DEF Reply
    <3>2. ~Adding(r)' /\ \A q \in Requests : q # r => pc'[q] = pc[q] /\ add'[q] = add[q] /\ req'[q] = req[q]
      BY <1>8 DEF Reply, Goto, Adding, TypeOK, NoFlow
    <3>3. \A q \in Requests : Adding(q)' => Adding(q) /\ q # r
      BY <3>2 DEF Adding, NoFlow
    <3> QED
      BY <1>2, <3>1, <3>2, <3>3
  <2> QED
    BY <2>1, <2>2
<1> QED
  BY <1>3, <1>4, <1>5, <1>6, <1>7, <1>8 DEF Next

LEMMA LeavesFewStep ==
    ASSUME TypeOK, Bounds, Owned, Next, config.limit > 0, LimitInv, NEW q \in Requests
    PROVE  LeavesFew(q)'
<1>1. LeavesFew(q) /\ config' = config
  BY ConfigKept DEF LimitInv
<1>2. PICK C : C = req[q].cookies
  OBVIOUS
<1>3. C \subseteq Flows /\ Valid(C)' \subseteq Valid(C)
  BY <1>2, CookiesOwned, ValidShrinks
<1>4. \A X : Cardinality(Valid(C) \ X) < config.limit => Cardinality(Valid(C)' \ X) < config.limit
  <2> TAKE X
  <2>1. IsFiniteSet(Valid(C) \ X) /\ config.limit \in Nat
    BY <1>3, LimitFacts
  <2>2. /\ Cardinality(Valid(C)' \ X) \in Nat /\ Cardinality(Valid(C) \ X) \in Nat
        /\ Cardinality(Valid(C)' \ X) <= Cardinality(Valid(C) \ X)
    BY <1>3, <2>1, Smaller
  <2> QED
    BY <2>1, <2>2
<1>5. ASSUME pc'[q] = pc[q], add'[q] = add[q], req'[q] = req[q], del'[q] = del[q]
      PROVE  LeavesFew(q)'
  <2>1. CASE add[q] # NoFlow
    <3>1. pc[q] = "reply" /\ Cardinality(Valid(C) \ del[q]) < config.limit
      BY <1>1, <1>2, <2>1 DEF LeavesFew
    <3>2. Cardinality(Valid(C)' \ del[q]) < config.limit
      BY <1>4, <3>1
    <3>3. Valid(req[q].cookies)' = Valid(C)'
      BY <1>2, <1>5 DEF Valid
    <3> QED
      BY <1>1, <1>5, <3>1, <3>2, <3>3 DEF LeavesFew
  <2>2. CASE add[q] = NoFlow
    BY <1>5, <2>2 DEF LeavesFew, NoFlow
  <2> QED
    BY <2>1, <2>2
<1>6. CASE SessionEnds \/ Rekey \/ Tick \/ \E f \in Flows : OpAnswers(f)
  BY <1>5, <1>6 DEF SessionEnds, Rekey, Tick, OpAnswers, reply
<1>7. ASSUME NEW r \in Requests, q # r,
             \/ Visit(r) \/ Authenticate(r) \/ Respond(r) \/ BrowserBack(r) \/ Match(r)
             \/ Exchange(r) \/ NonceGet(r) \/ NonceSet(r) \/ StartSession(r) \/ Reply(r)
      PROVE  LeavesFew(q)'
  <2>1. pc'[q] = pc[q] /\ add'[q] = add[q] /\ req'[q] = req[q] /\ del'[q] = del[q]
    BY <1>7 DEF Visit, Authenticate, Respond, BrowserBack, Match, Exchange, NonceGet, NonceSet,
       StartSession, Reply, Goto, TypeOK, reply
  <2> QED
    BY <1>5, <2>1
<1>8. ASSUME pc[q] \notin {"authenticate", "reply"}, add'[q] = add[q]
      PROVE  LeavesFew(q)'
  BY <1>1, <1>8 DEF LeavesFew, NoFlow
<1>9. CASE Visit(q) \/ Respond(q) \/ BrowserBack(q) \/ Match(q) \/ Exchange(q) \/ NonceGet(q)
           \/ NonceSet(q) \/ StartSession(q)
  <2>1. pc[q] \notin {"authenticate", "reply"} /\ add' = add
    BY <1>9 DEF Visit, Respond, BrowserBack, Match, Exchange, NonceGet, NonceSet, StartSession, reply
  <2> QED
    BY <1>8, <2>1
<1>10. CASE Authenticate(q)
  <2>1. PICK D \in Superfluous(Valid(C)) :
             /\ del' = [del EXCEPT ![q] = D \cup (C \ Valid(C))]
             /\ TooMany(Cardinality(Valid(C) \ D)) => add' = add
    BY <1>2, <1>10 DEF Authenticate
  <2>2. pc[q] = "authenticate" /\ pc'[q] = "reply" /\ req' = req /\ add[q] = NoFlow
    BY <1>1, <1>10 DEF Authenticate, Goto, TypeOK, LeavesFew
  <2>3. CASE TooMany(Cardinality(Valid(C) \ D))
    BY <2>1, <2>2, <2>3 DEF LeavesFew, NoFlow
  <2>4. CASE ~TooMany(Cardinality(Valid(C) \ D))
    <3>1. Cardinality(Valid(C) \ D) < config.limit
      <4>1. Cardinality(Valid(C) \ D) \in Nat /\ config.limit \in Nat
        BY <1>3, LimitFacts
      <4> QED
        BY <2>4, <4>1 DEF TooMany
    <3>2. Cardinality(Valid(C)' \ D) < config.limit
      BY <1>4, <3>1
    <3>3. Valid(C)' \ del'[q] = Valid(C)' \ D
      BY <1>3, <2>1 DEF TypeOK
    <3>4. Valid(req[q].cookies)' = Valid(C)'
      BY <1>2, <2>2 DEF Valid
    <3> QED
      BY <1>1, <2>2, <3>2, <3>3, <3>4 DEF LeavesFew
  <2> QED
    BY <2>3, <2>4
<1>11. CASE Reply(q)
  BY <1>11 DEF Reply, LeavesFew, TypeOK, NoFlow
<1> QED
  BY <1>6, <1>7, <1>9, <1>10, <1>11 DEF Next

LEMMA LimitInit == Init => LimitInv
<1> SUFFICES ASSUME Init, config.limit > 0 PROVE LimitInv
  BY DEF LimitInv
<1>1. TypeOK
  BY AuthnInit DEF AuthnInv
<1>2. \A r \in Requests : LeavesFew(r) /\ ~Adding(r)
  BY DEF Init, LeavesFew, Adding
<1>3. ASSUME NEW b \in Browsers
      PROVE  HasBase(b)
  <2>1. PICK B \in SUBSET Flows, stamp \in [Requests -> Nat], top \in Nat : B = {} /\ stamp = [q \in Requests |-> 0] /\ top = 1
    OBVIOUS
  <2>2. Valid(B) = {} /\ Newer(b, B) = {} /\ Ahead(stamp, 0) = {}
    BY <1>2, <2>1 DEF Init, Valid, Newer, Ahead
  <2>3. /\ Cardinality(Valid(B)) = 0 /\ Cardinality(Newer(b, B)) = 0 /\ Cardinality(Ahead(stamp, 0)) = 0
        /\ Cardinality(Requests) \in Nat
    BY <1>1, <2>2, FS_EmptySet, LimitFacts
  <2>4. Fits(b, B, stamp, 0)
    BY <2>3 DEF Fits
  <2>5. Base(b, B, 0, stamp, top)
    BY <1>2, <2>1, <2>3, <2>4 DEF Base
  <2>6. stamp \in [Requests -> Nat] /\ top \in Nat /\ 0 \in Nat
    BY <2>1
  <2> QED
    BY <2>5, <2>6 DEF HasBase
<1> QED
  BY <1>2, <1>3 DEF LimitInv

LEMMA LimitStep ==
    ASSUME AuthnInv, LimitInv, [Next]_vars
    PROVE  LimitInv'
<1>1. CASE Next
  <2>1. Browsers' = Browsers /\ config' = config /\ TypeOK /\ Bounds /\ Owned
    BY <1>1, ConfigKept, SameConfig DEF AuthnInv
  <2> QED
    BY <1>1, <2>1, HasBaseStep, LeavesFewStep DEF LimitInv
<1>2. CASE UNCHANGED vars
  <2>1. /\ UNCHANGED <<config, now, flow, readable, jar, pc, req, add, del>>
        /\ Flows' = Flows /\ Browsers' = Browsers
    BY <1>2, SameConfig DEF vars
  <2>2. \A C : Valid(C)' = Valid(C)
    BY <2>1 DEF Valid, TimedOut, StateTimeout
  <2>3. \A q \in Requests : Adding(q)' <=> Adding(q)
    BY <2>1 DEF Adding, NoFlow
  <2>4. \A b, C, stamp, s : Fits(b, C, stamp, s)' <=> Fits(b, C, stamp, s)
    <3> TAKE b, C, stamp, s
    <3>1. Ahead(stamp, s)' = Ahead(stamp, s)
      BY <2>3 DEF Ahead
    <3>2. Newer(b, C)' = Newer(b, C)
      BY <2>1 DEF Newer, Valid, TimedOut, StateTimeout
    <3> QED
      BY <3>1, <3>2 DEF Fits
  <2>5. ASSUME NEW b \in Browsers, HasBase(b)
        PROVE  HasBase(b)'
    <3>1. PICK B \in SUBSET Flows, s0 \in Nat, top \in Nat, stamp \in [Requests -> Nat] :
               Base(b, B, s0, stamp, top)
      BY <2>5 DEF HasBase
    <3>2. \A q \in Requests : Fits(b, req[q].cookies, stamp, stamp[q])' <=> Fits(b, req[q].cookies, stamp, stamp[q])
      <4> TAKE q \in Requests
      <4>1. Ahead(stamp, stamp[q])' = Ahead(stamp, stamp[q])
        BY <2>3 DEF Ahead
      <4>2. Newer(b, req[q].cookies)' = Newer(b, req[q].cookies)
        BY <2>1 DEF Newer, Valid, TimedOut, StateTimeout
      <4> QED
        BY <4>1, <4>2 DEF Fits
    <3>3. Base(b, B, s0, stamp, top)'
      BY <2>1, <2>2, <2>3, <2>4, <3>1, <3>2 DEF Base
    <3> QED
      BY <2>1, <3>1, <3>3 DEF HasBase
  <2>6. ASSUME NEW r \in Requests, LeavesFew(r)
        PROVE  LeavesFew(r)'
    BY <2>1, <2>6 DEF LeavesFew, Valid, TimedOut, StateTimeout, NoFlow
  <2> QED
    BY <2>1, <2>5, <2>6 DEF LimitInv
<1> QED
  BY <1>1, <1>2

\* The invariant behind the limit: there is a request that saw less than the
\* limit, and everything that came later was under way when it was sent.
THEOREM LimitInvariance == Spec => [](AuthnInv /\ LimitInv)
<1>1. Init => AuthnInv /\ LimitInv
  BY AuthnInit, LimitInit
<1> QED
  BY <1>1, LimitStep, AuthnInvariance, PTL DEF Spec

\* The number of valid state cookies of a browser exceeds the limit of
\* OIDCStateMaxNumberOfCookies by less than the number of requests that are
\* handled at once, in whatever order they are sent, handled and answered
\* (oidc_request_authorization_set_cookie).
THEOREM AlwaysWithinLimit == Spec => []WithinLimit
<1>1. AuthnInv /\ LimitInv => WithinLimit
  <2> SUFFICES ASSUME AuthnInv, LimitInv, config.limit > 0, NEW b \in Browsers
               PROVE  Cardinality(Valid(jar[b])) < config.limit + Cardinality(Requests)
    BY DEF WithinLimit
  <2>1. TypeOK /\ Owned /\ HasBase(b)
    BY DEF AuthnInv, LimitInv
  <2>2. PICK B \in SUBSET Flows, s0 \in Nat, top \in Nat, stamp \in [Requests -> Nat] : Base(b, B, s0, stamp, top)
    BY <2>1 DEF HasBase
  <2>3. B \subseteq Flows /\ jar[b] \subseteq Flows
    BY <2>1, <2>2, CookiesOwned DEF Base
  <2>4. /\ IsFiniteSet(Valid(B)) /\ IsFiniteSet(Newer(b, B)) /\ IsFiniteSet(Valid(jar[b]))
        /\ config.limit \in Nat /\ Cardinality(Requests) \in Nat
    BY <2>1, <2>3, LimitFacts DEF Newer
  <2>5. Valid(jar[b]) \subseteq Valid(B) \cup Newer(b, B)
    BY DEF Newer, Valid
  <2>6. Cardinality(Valid(jar[b])) <= Cardinality(Valid(B)) + Cardinality(Newer(b, B))
    BY <2>4, <2>5, Covered
  <2>7. /\ Cardinality(Valid(B)) < config.limit
        /\ Cardinality(Newer(b, B)) + Cardinality(Ahead(stamp, s0)) <= Cardinality(Requests)
    BY <2>2 DEF Base, Fits
  <2>8. /\ Cardinality(Valid(B)) \in Nat /\ Cardinality(Newer(b, B)) \in Nat
        /\ Cardinality(Valid(jar[b])) \in Nat /\ Cardinality(Ahead(stamp, s0)) \in Nat
    BY <2>4, FS_CardinalityType, AheadFinite
  <2> QED
    BY <2>4, <2>6, <2>7, <2>8
<1> QED
  BY <1>1, LimitInvariance, PTL
=============================================================================
