-------------------------- MODULE ProtocolProofs ---------------------------
(***************************************************************************)
(* Theorems about the messages of the protocol and the requests that carry *)
(* them: a logout token is acted on by no delivery that starts after       *)
(* another one has acted on it; a login that ends in a session was built   *)
(* on what the OP made for this login, and an honest one succeeds; a       *)
(* request gets to the application with the identity that its session or   *)
(* token gives it, and by right; "Require claim" grants what it describes. *)
(* About the logout token the argument is about three times: a delivery    *)
(* that passed the check of the iat arrived no earlier than iat - Slack    *)
(* and no later than iat + Slack, so that the entry that it stores ends at *)
(* iat + Slack + SafetyMargin at the earliest, and a later delivery looks  *)
(* it up before that.                                                      *)
(* About a login, it is about what each parameter is known to be at each   *)
(* step of the exchange. About a request, it is about what each hook of    *)
(* the server relies on: what it finds in the request was put there by the *)
(* hooks before it. About "Require claim", it is about one depth of the    *)
(* claims after the other: the calls of the search and the paths to the    *)
(* members are in step, and have the same rest of the word before them.    *)
(***************************************************************************)
EXTENDS LogoutToken, LoginExchange, Gateway, Authorization, FiniteSetTheorems,
        NaturalsInduction, WellFoundedInduction, SequenceTheorems, TLAPS

-----------------------------------------------------------------------------
(* Logout tokens                                                           *)

\* The deliveries whose token has passed the checks.
Admitted == {"lookup", "store", "clean"}

\* A delivery under way has a token.
TokenNamed == \A d \in Deliveries : deliv[d].pc # "idle" => deliv[d].token \in LogoutTokens

\* A token was admitted in the window of its iat, and its delivery is not
\* older than its age says.
InWindow ==
    \A d \in Deliveries : deliv[d].pc \in Admitted =>
        /\ iat[deliv[d].token] - Slack <= lnow
        /\ lnow <= iat[deliv[d].token] + Slack + deliv[d].age

\* The entry for token t outlives the window and a delivery.
Outlives(t) == jtis[t] >= iat[t] + Slack + SafetyMargin

\* A token that was acted on, or is about to be, is in the cache for long
\* enough, unless the cache has failed.
Remembered ==
    ~lbroken =>
        /\ \A t \in acted : Outlives(t)
        /\ \A d \in Deliveries : deliv[d].pc = "clean" => Outlives(deliv[d].token)

\* A delivery that is late is one of a token that was acted on.
LateActed == \A d \in Deliveries : deliv[d].late => deliv[d].token \in acted

LogoutInv == LogoutTypeOK /\ TokenNamed /\ InWindow /\ Remembered /\ LateActed /\ LateCopyRefused

-----------------------------------------------------------------------------
\* The invariant holds initially: nothing is under way.
LEMMA LogoutInitInv == LogoutInit => LogoutInv
<1> SUFFICES ASSUME LogoutInit PROVE LogoutInv
  OBVIOUS
<1>1. \A d \in Deliveries : deliv[d].pc = "idle" /\ deliv[d].late = FALSE
  BY DEF LogoutInit, NoDelivery
<1>2. LogoutTypeOK
  <2>1. -Slack..Slack \subseteq -Slack..LogoutEnd + Slack
    BY LogoutAssumption
  <2>2. NoDelivery \in [pc : {"idle", "lookup", "store", "clean", "refused"},
                       token : LogoutTokens \cup {"none"}, late : BOOLEAN, age : 0..DeliveryTime]
    BY LogoutAssumption DEF NoDelivery
  <2>3. deliv = [d \in Deliveries |-> NoDelivery] /\ jtis = [t \in LogoutTokens |-> -1]
    BY DEF LogoutInit
  <2>4. lnow \in 0..LogoutEnd /\ jtis \in [LogoutTokens -> Int]
    BY <2>3, LogoutAssumption DEF LogoutInit
  <2>5. iat \in [LogoutTokens -> -Slack..LogoutEnd + Slack]
    BY <2>1 DEF LogoutInit
  <2> QED
    BY <2>2, <2>3, <2>4, <2>5 DEF LogoutInit, LogoutTypeOK
<1> QED
  BY <1>1, <1>2
  DEF LogoutInit, LogoutInv, TokenNamed, InWindow, Admitted, Remembered, LateActed, LateCopyRefused

\* The arrival of a token (oidc_logout_backchannel up to the jti check)
\* keeps the invariant: one that is admitted is in its window.
LEMMA DeliverInv ==
    ASSUME LogoutInv, NEW d \in Deliveries, NEW t \in LogoutTokens,
           NEW shape \in {"logout_token", "other"}, Deliver(d, t, shape)
    PROVE  LogoutInv'
<1> USE LogoutAssumption DEF Deliver
<1>1. /\ deliv[d].pc = "idle" /\ UNCHANGED <<lnow, iat, jtis, acted, lbroken>>
      /\ deliv'[d].token = t /\ deliv'[d].late = (t \in acted) /\ deliv'[d].age = 0
      /\ deliv'[d].pc \in {"lookup", "refused"} /\ (deliv'[d].pc = "lookup" => IatOk(t))
      /\ \A e \in Deliveries \ {d} : deliv'[e] = deliv[e]
  BY DEF LogoutInv, LogoutTypeOK, TokenOk
<1>2. LogoutTypeOK'
  BY DEF LogoutInv, LogoutTypeOK
<1>3. TokenNamed'
  BY <1>1 DEF LogoutInv, TokenNamed
<1>4. InWindow'
  BY <1>1 DEF LogoutInv, LogoutTypeOK, InWindow, IatOk, Admitted
<1>5. Remembered'
  BY <1>1 DEF LogoutInv, Remembered, Outlives
<1>6. LateActed'
  BY <1>1 DEF LogoutInv, LateActed
<1>7. LateCopyRefused'
  BY <1>1 DEF LogoutInv, LateCopyRefused
<1> QED
  BY <1>2, <1>3, <1>4, <1>5, <1>6, <1>7 DEF LogoutInv

\* The lookup of the jti keeps the invariant: a late delivery finds its
\* entry alive.
LEMMA LookupInv == ASSUME LogoutInv, NEW d \in Deliveries, LookupJti(d) PROVE LogoutInv'
<1> USE LogoutAssumption DEF LookupJti
<1>1. /\ deliv[d].pc = "lookup" /\ UNCHANGED <<lnow, iat, jtis, acted>>
      /\ deliv'[d].token = deliv[d].token /\ deliv'[d].late = deliv[d].late
      /\ deliv'[d].age = deliv[d].age /\ deliv'[d].pc \in {"refused", "store"}
      /\ (~lbroken' => ~lbroken /\ (deliv'[d].pc = "store" => ~(jtis[deliv[d].token] > lnow)))
      /\ \A e \in Deliveries \ {d} : deliv'[e] = deliv[e]
  BY DEF LogoutInv, LogoutTypeOK
<1>2. LogoutTypeOK'
  <2>1. \E pc \in {"refused", "store"} : deliv' = [deliv EXCEPT ![d].pc = pc]
    BY DEF LogoutInv, LogoutTypeOK
  <2>2. lbroken' \in BOOLEAN
    BY DEF LogoutInv, LogoutTypeOK
  <2> QED
    BY <1>1, <2>1, <2>2 DEF LogoutInv, LogoutTypeOK
<1>3. TokenNamed'
  BY <1>1 DEF LogoutInv, TokenNamed
<1>4. InWindow'
  BY <1>1 DEF LogoutInv, InWindow, Admitted
<1>5. Remembered'
  BY <1>1 DEF LogoutInv, Remembered, Outlives
<1>6. LateActed'
  BY <1>1 DEF LogoutInv, LateActed
<1>7. ASSUME ~lbroken', deliv[d].late PROVE deliv'[d].pc = "refused"
  <2>1. deliv[d].token \in LogoutTokens /\ deliv[d].token \in acted
    BY <1>1, <1>7 DEF LogoutInv, TokenNamed, LateActed
  <2>2. jtis[deliv[d].token] >= iat[deliv[d].token] + Slack + SafetyMargin
    BY <1>1, <1>7, <2>1 DEF LogoutInv, Remembered, Outlives
  <2>3. lnow <= iat[deliv[d].token] + Slack + deliv[d].age
    BY <1>1 DEF LogoutInv, InWindow, Admitted
  <2>4. /\ deliv[d].age \in 0..DeliveryTime /\ jtis[deliv[d].token] \in Int
        /\ iat[deliv[d].token] \in Int /\ lnow \in Int
    BY <2>1 DEF LogoutInv, LogoutTypeOK
  <2>5. jtis[deliv[d].token] > lnow
    BY <2>2, <2>3, <2>4
  <2> QED
    BY <1>1, <1>7, <2>5
<1>8. LateCopyRefused'
  BY <1>1, <1>7 DEF LogoutInv, LateCopyRefused
<1> QED
  BY <1>2, <1>3, <1>4, <1>5, <1>6, <1>8 DEF LogoutInv

\* Storing the jti keeps the invariant: its entry ends late enough, and no
\* late delivery gets here.
LEMMA StoreInv == ASSUME LogoutInv, NEW d \in Deliveries, StoreJti(d) PROVE LogoutInv'
<1> USE LogoutAssumption DEF StoreJti, JtiDuration
<1>1. /\ deliv[d].pc = "store" /\ UNCHANGED <<lnow, iat, acted>>
      /\ deliv' = [deliv EXCEPT ![d].pc = "clean"]
      /\ (~lbroken' => ~lbroken /\ jtis' = [jtis EXCEPT ![deliv[d].token] = lnow + JtiDuration])
  OBVIOUS
<1>2. LogoutTypeOK'
  <2>1. jtis' \in [LogoutTokens -> Int]
    BY DEF LogoutInv, LogoutTypeOK
  <2> QED
    BY <2>1 DEF LogoutInv, LogoutTypeOK
<1>3. TokenNamed'
  BY <1>1 DEF LogoutInv, LogoutTypeOK, TokenNamed
<1>4. InWindow'
  BY <1>1 DEF LogoutInv, LogoutTypeOK, InWindow, Admitted
<1>5. ASSUME ~lbroken' PROVE Outlives(deliv[d].token)' /\ \A t \in LogoutTokens : Outlives(t) => Outlives(t)'
  <2>1. deliv[d].token \in LogoutTokens /\ iat[deliv[d].token] - Slack <= lnow
    BY <1>1 DEF LogoutInv, TokenNamed, InWindow, Admitted
  <2>2. lnow \in Int /\ iat[deliv[d].token] \in Int /\ jtis \in [LogoutTokens -> Int]
    BY <2>1 DEF LogoutInv, LogoutTypeOK
  <2>3. jtis'[deliv[d].token] = lnow + (Slack * 2 + SafetyMargin)
    BY <1>1, <1>5, <2>1, <2>2
  <2>4. jtis'[deliv[d].token] >= iat[deliv[d].token] + Slack + SafetyMargin
    BY <2>1, <2>2, <2>3
  <2>5. deliv[d].token = deliv[d].token' /\ \A t \in LogoutTokens : t # deliv[d].token => jtis'[t] = jtis[t]
    BY <1>1, <1>5, <2>2 DEF LogoutInv, LogoutTypeOK
  <2> QED
    BY <1>1, <2>4, <2>5 DEF Outlives
<1>6. Remembered'
  BY <1>1, <1>5 DEF LogoutInv, LogoutTypeOK, TokenNamed, Remembered
<1>7. LateActed'
  BY <1>1 DEF LogoutInv, LogoutTypeOK, LateActed
<1>8. LateCopyRefused'
  BY <1>1 DEF LogoutInv, LogoutTypeOK, LateCopyRefused
<1> QED
  BY <1>2, <1>3, <1>4, <1>6, <1>7, <1>8 DEF LogoutInv

\* The end of a delivery keeps the invariant: its token is in the cache.
LEMMA EndInv ==
    ASSUME LogoutInv, NEW d \in Deliveries, Cleaned(d) \/ AnswerRefused(d)
    PROVE  LogoutInv'
<1> USE DEF Cleaned, AnswerRefused, NoDelivery
<1>1. /\ UNCHANGED <<lnow, iat, jtis, lbroken>>
      /\ deliv' = [deliv EXCEPT ![d] = NoDelivery]
      /\ acted \subseteq acted'
      /\ (acted' = acted \/ (deliv[d].pc = "clean" /\ acted' = acted \cup {deliv[d].token}))
  OBVIOUS
<1>2. LogoutTypeOK'
  BY <1>1, LogoutAssumption DEF LogoutInv, LogoutTypeOK, TokenNamed
<1>3. TokenNamed'
  BY <1>1 DEF LogoutInv, LogoutTypeOK, TokenNamed
<1>4. InWindow'
  BY <1>1 DEF LogoutInv, LogoutTypeOK, InWindow, Admitted
<1>5. Remembered'
  BY <1>1 DEF LogoutInv, LogoutTypeOK, Remembered, Outlives
<1>6. LateActed'
  BY <1>1 DEF LogoutInv, LogoutTypeOK, LateActed
<1>7. LateCopyRefused'
  BY <1>1 DEF LogoutInv, LogoutTypeOK, LateCopyRefused
<1> QED
  BY <1>2, <1>3, <1>4, <1>5, <1>6, <1>7 DEF LogoutInv

\* The clock keeps the invariant: deliveries grow older with it.
LEMMA TickInv == ASSUME LogoutInv, LogoutTick PROVE LogoutInv'
<1> USE LogoutAssumption DEF LogoutTick
<1>1. \A d \in Deliveries :
         /\ deliv'[d].pc = deliv[d].pc /\ deliv'[d].token = deliv[d].token /\ deliv'[d].late = deliv[d].late
         /\ (deliv[d].pc # "idle" => deliv'[d].age = deliv[d].age + 1)
  BY DEF LogoutInv, LogoutTypeOK
<1>2. LogoutTypeOK'
  <2>1. lnow' \in 0..LogoutEnd
    BY DEF LogoutInv, LogoutTypeOK
  <2>2. \A d \in Deliveries : deliv[d].age + 1 \in 0..DeliveryTime
    BY DEF LogoutInv, LogoutTypeOK
  <2> QED
    BY <2>1, <2>2 DEF LogoutInv, LogoutTypeOK
<1>3. TokenNamed'
  BY <1>1 DEF LogoutInv, TokenNamed
<1>4. InWindow'
  <2> SUFFICES ASSUME NEW d \in Deliveries, deliv[d].pc \in Admitted
      PROVE  /\ iat[deliv[d].token] - Slack <= lnow'
             /\ lnow' <= iat[deliv[d].token] + Slack + deliv'[d].age
    BY <1>1 DEF InWindow
  <2>1. deliv[d].token \in LogoutTokens
    BY DEF LogoutInv, TokenNamed, Admitted
  <2>2. lnow \in Int /\ iat[deliv[d].token] \in Int /\ deliv[d].age \in Int
    BY <2>1 DEF LogoutInv, LogoutTypeOK
  <2>3. lnow' = lnow + 1 /\ deliv'[d].age = deliv[d].age + 1
    BY <1>1 DEF Admitted
  <2> QED
    BY <2>2, <2>3 DEF LogoutInv, InWindow
<1>5. Remembered'
  BY <1>1 DEF LogoutInv, Remembered, Outlives
<1>6. LateActed'
  BY <1>1 DEF LogoutInv, LateActed
<1>7. LateCopyRefused'
  BY <1>1 DEF LogoutInv, LateCopyRefused
<1> QED
  BY <1>2, <1>3, <1>4, <1>5, <1>6, <1>7 DEF LogoutInv

-----------------------------------------------------------------------------
\* Back-channel logout (oidc_logout_backchannel): as long as the cache
\* works, a token that was acted on is refused ever after, since the 2 * slack
\* + 10 seconds for which its jti is remembered cover every instant at which
\* a copy passes the check of its iat.
THEOREM NoLateCopy == LogoutSpec => []LateCopyRefused
<1>1. LogoutInit => LogoutInv
  BY LogoutInitInv
<1>2. LogoutInv /\ [LogoutNext]_logoutVars => LogoutInv'
  <2> SUFFICES ASSUME LogoutInv, [LogoutNext]_logoutVars PROVE LogoutInv'
    OBVIOUS
  <2>1. CASE LogoutNext
    BY <2>1, DeliverInv, LookupInv, StoreInv, EndInv, TickInv DEF LogoutNext
  <2>2. CASE UNCHANGED logoutVars
    BY <2>2 DEF logoutVars, LogoutInv, LogoutTypeOK, TokenNamed, InWindow, Remembered, Outlives,
                LateActed, LateCopyRefused
  <2> QED
    BY <2>1, <2>2
<1>3. LogoutInv => LateCopyRefused
  BY DEF LogoutInv
<1> QED
  BY <1>1, <1>2, <1>3, PTL DEF LogoutSpec

-----------------------------------------------------------------------------
(* The login                                                                 *)

Origins == {"none", "op", "other"}
Logins == [pc : LoginSteps, params : [Params -> Origins], challenge : BOOLEAN, verifier : BOOLEAN,
           honest : BOOLEAN, nonced : BOOLEAN, bound : SUBSET {"dpop", "mtls"}, backed : BOOLEAN]

\* The verifier of a challenge that was sent is kept, and every login that
\* has been sent has a nonce.
Prepared(l) ==
    /\ l.challenge => l.verifier
    /\ l.pc \notin {"start", "failed"} => l.nonced

\* The response is being validated: its ID token comes first.
FrontToken(l) ==
    l.pc = "idtoken" /\ Has("id_token") => TypeFits(l.params) /\ (l.honest => l.params = HonestFront)

\* The code is being redeemed.  With an ID token the code has been found to
\* be the one that the token belongs to.
Redeeming(l) ==
    l.pc \in {"resolve", "retry"} =>
        /\ Has("code") /\ l.params["code"] # "none" /\ l.params["refresh_token"] = "none"
        /\ Has("id_token") => /\ l.params["code"] = "op" /\ l.params["id_token"] = "op"
                              /\ l.params["access_token"] # "other"
        /\ ~Has("id_token") => l.params["id_token"] = "none"
        /\ l.honest => l.params["code"] = "op"

\* The ID token comes with the tokens that the code was redeemed for: all
\* of them are of the code's login, but for an access token that the browser
\* brought.
BackToken(l) ==
    l.pc = "idtoken" /\ ~Has("id_token") =>
        /\ l.params["code"] # "none" /\ l.params["id_token"] = l.params["code"]
        /\ l.params["access_token"] = l.params["code"] \/ (Has("token") /\ ~l.backed)
        /\ l.params["refresh_token"] \in {"none", l.params["code"]}
        /\ l.honest => l.params["code"] = "op"

\* The access token of a FAPI 2.0 code flow was bound when it was issued.
Constrained(l) ==
    /\ ls.cert \/ (ls.parsed /\ ~Mtls)
    /\ l.pc \in {"idtoken", "done"} /\ ls.profile = "fapi20" /\ ls.rtype = {"code"}
    => l.bound # {}

Ours(l) ==
    l.pc = "done" =>
        /\ l.params["id_token"] = "op" /\ l.params["refresh_token"] \in {"none", "op"}
        /\ \/ l.params["access_token"] \in {"none", "op"}
           \/ ls.rtype = {"code", "token"} /\ ~l.backed

Sound(l) ==
    /\ l \in Logins /\ Prepared(l) /\ FrontToken(l) /\ Redeeming(l) /\ BackToken(l)
    /\ Constrained(l) /\ Ours(l)
    /\ l.pc = "failed" => ~l.honest

LoginInv == ls \in SettingsSpace /\ ls \in LoginSettings /\ Sound(lg)

-----------------------------------------------------------------------------
\* The response types, by what they contain.
LEMMA ResponseTypeParts ==
    ASSUME ls \in SettingsSpace
    PROVE  /\ Has("code") \/ Has("id_token")
           /\ ls.rtype = {"code"} <=> Has("code") /\ ~Has("id_token") /\ ~Has("token")
           /\ ls.rtype = {"id_token"} <=> ~Has("code") /\ Has("id_token") /\ ~Has("token")
           /\ ls.rtype = {"id_token", "token"} <=> ~Has("code") /\ Has("id_token") /\ Has("token")
           /\ ls.rtype = {"code", "id_token"} <=> Has("code") /\ Has("id_token") /\ ~Has("token")
           /\ ls.rtype = {"code", "token"} <=> Has("code") /\ ~Has("id_token") /\ Has("token")
  BY DEF SettingsSpace, ResponseTypes, Has

\* What is left of a response's parameters.
LEMMA Stripping ==
    ASSUME ls \in SettingsSpace, NEW f \in [Params -> Origins]
    PROVE  /\ StripParams(f) \in [Params -> Origins]
           /\ StripParams(f)["code"] = f["code"] /\ StripParams(f)["refresh_token"] = "none"
           /\ StripParams(f)["id_token"] = IF Has("id_token") THEN f["id_token"] ELSE "none"
           /\ StripParams(f)["access_token"] =
                 IF Has("code") /\ ~Has("token") THEN "none" ELSE f["access_token"]
<1>1. \A x \in Params : StripParams(f)[x] =
        IF \/ x = "refresh_token"
           \/ x = "scope" /\ ls.rtype \notin {{"id_token"}, {"id_token", "token"}}
           \/ x = "id_token" /\ ls.rtype \in {{"code"}, {"code", "token"}}
           \/ x = "access_token" /\ ls.rtype \in {{"code"}, {"code", "id_token"}}
           \/ x = "token_type" /\ ~Has("token")
        THEN "none" ELSE f[x]
  BY DEF StripParams
<1>2. ls.rtype \in {{"code"}, {"code", "token"}} <=> ~Has("id_token")
  BY ResponseTypeParts
<1>3. ls.rtype \in {{"code"}, {"code", "id_token"}} <=> Has("code") /\ ~Has("token")
  BY ResponseTypeParts
<1>4. StripParams(f) \in [Params -> Origins]
  BY DEF StripParams, Origins
<1>5. StripParams(f)["code"] = f["code"] /\ StripParams(f)["refresh_token"] = "none"
  BY <1>1 DEF Params
<1>6. StripParams(f)["id_token"] = IF Has("id_token") THEN f["id_token"] ELSE "none"
  BY <1>1, <1>2 DEF Params
<1>7. StripParams(f)["access_token"] =
                 IF Has("code") /\ ~Has("token") THEN "none" ELSE f["access_token"]
  BY <1>1, <1>3 DEF Params
<1> QED
  BY <1>4, <1>5, <1>6, <1>7

\* What the OP sends fits what was asked for.
LEMMA HonestFits ==
    ASSUME ls \in SettingsSpace
    PROVE  /\ TypeFits(HonestFront) /\ HonestFront \in [Params -> Origins]
           /\ HonestFront["code"] = IF Has("code") THEN "op" ELSE "none"
           /\ HonestFront["id_token"] = IF Has("id_token") THEN "op" ELSE "none"
           /\ HonestFront["access_token"] = IF Has("token") THEN "op" ELSE "none"
<1>1. /\ HonestFront["code"] = IF Has("code") THEN "op" ELSE "none"
      /\ HonestFront["id_token"] = IF Has("id_token") THEN "op" ELSE "none"
      /\ HonestFront["access_token"] = IF Has("token") THEN "op" ELSE "none"
  BY DEF HonestFront, Params
<1>2. HonestFront \in [Params -> Origins]
  BY DEF HonestFront, Params, Origins
<1> QED
  BY <1>1, <1>2 DEF TypeFits, Has

\* A failed login is whatever the failure left, and was interfered with.
LEMMA FailsSound ==
    ASSUME NEW l \in Logins, ~l.honest
    PROVE  Sound(Fails(l))
<1>1. NewLogin \in Logins
  BY DEF NewLogin, Logins, NoParams, LoginSteps, Origins
<1>2. Fails(l) \in Logins /\ Fails(l).pc = "failed" /\ ~Fails(l).honest /\ ~Fails(l).challenge
  BY <1>1 DEF Fails, NewLogin, Logins, LoginSteps
<1> QED
  BY <1>2 DEF Sound, Prepared, FrontToken, Redeeming, BackToken, Constrained, Ours

-----------------------------------------------------------------------------
(* The ID token.  The audience is finite, so its size is a number.           *)

LEMMA OurTokenAccepted ==
    ASSUME ls \in SettingsSpace, NEW t \in OurTokens, NEW p \in [Params -> Origins],
           Has("code") => p["code"] = "op",
           Has("id_token") /\ Has("token") => p["access_token"] = "op",
           ls.rtype = {"code"} => p["access_token"] \in {"none", "op"}
    PROVE  IdTokenOk(t, p)
<1>1. /\ t.sig \in {"op", "none"} /\ t.nonce = "op" /\ t.current /\ t.azp # "other"
      /\ t.aud \in SUBSET {"client", "known"} /\ t.array \in BOOLEAN
      /\ t.c_hash \in {"none", "op"} /\ t.at_hash \in {"none", "op"}
      /\ Has("id_token") => /\ t.sig = "op" /\ (Has("code") => t.c_hash = "op")
                            /\ (Has("token") => t.at_hash = "op")
      /\ ~Has("code") => t.c_hash = "none"
      /\ t.sig = "none" => ~ls.pinned
      /\ t.aud = (IF NoList = ls.auds THEN {"client"} ELSE ls.auds)
  BY DEF OurTokens
<1>2. SignatureOk(t)
  BY <1>1 DEF SignatureOk
<1>3. AudienceOk(t)
  <2>1. CASE ls.auds = NoList
    BY <1>1, <2>1 DEF AudienceOk
  <2>2. CASE ls.auds # NoList
    <3>1. t.aud = ls.auds
      BY <1>1, <2>2
    <3>2. IsFiniteSet({"client", "known"})
      <4>1. IsFiniteSet({"client"})
        BY FS_Singleton
      <4>2. IsFiniteSet({"client"} \cup {"known"})
        BY <4>1, FS_AddElement
      <4> QED
        BY <4>2
    <3>3. Cardinality(ls.auds) \in Nat
      BY <1>1, <3>1, <3>2, FS_Subset, FS_CardinalityType
    <3>4. Cardinality(t.aud) <= Cardinality(ls.auds) /\ t.aud \subseteq ls.auds /\ ls.auds \subseteq t.aud
      BY <3>1, <3>3
    <3> QED
      BY <1>1, <2>2, <3>4 DEF AudienceOk
  <2> QED
    BY <2>1, <2>2
<1>4. HashesOk(t, p)
  BY <1>1, ResponseTypeParts DEF HashesOk, HashOk
<1> QED
  BY <1>1, <1>2, <1>3, <1>4 DEF IdTokenOk

\* A token that the OP did not make for this login is refused for its
\* signature or for its nonce.
LEMMA OtherTokenRefused ==
    ASSUME lg.nonced, NEW t \in OtherTokens, NEW p
    PROVE  ~IdTokenOk(t, p)
<1>1. t.sig = "op" \/ ~Has("id_token") => t.nonce # "op"
  BY DEF OtherTokens
<1> QED
  BY <1>1 DEF IdTokenOk, SignatureOk

\* An ID token from the browser vouches for the code and the access token
\* that came with it.
LEMMA HashesVouch ==
    ASSUME ls \in SettingsSpace, NEW t \in OurTokens, NEW p, IdTokenOk(t, p), Has("id_token")
    PROVE  /\ Has("code") => p["code"] = "op"
           /\ Has("token") => p["access_token"] = "op"
<1>1. (Has("code") => t.c_hash = "op") /\ (Has("token") => t.at_hash = "op")
  BY DEF OurTokens
<1> QED
  BY <1>1, ResponseTypeParts DEF IdTokenOk, HashesOk, HashOk

-----------------------------------------------------------------------------
(* The steps                                                                 *)

LEMMA LoginInitInv == LoginInit => LoginInv
<1> SUFFICES ASSUME LoginInit PROVE LoginInv
  OBVIOUS
<1>1. ls \in SettingsSpace /\ ls \in LoginSettings /\ lg = NewLogin
  BY LoginAssumption DEF LoginInit
<1>2. NewLogin \in Logins /\ NewLogin.pc = "start" /\ ~NewLogin.challenge
  BY DEF NewLogin, Logins, NoParams, LoginSteps, Origins
<1> QED
  BY <1>1, <1>2 DEF LoginInv, Sound, Prepared, FrontToken, Redeeming, BackToken, Constrained, Ours

\* The settings are those of the whole login: what is said of the next
\* state is said with the same ones.
LEMMA SoundNext ==
    ASSUME LoginInv, ls' = ls, NEW l, lg' = l, Sound(l)
    PROVE  LoginInv'
  BY DEF LoginInv, Sound, Prepared, FrontToken, Redeeming, BackToken, Constrained, Ours,
         Has, TypeFits, HonestFront, Mtls

LEMMA AuthRequestInv == LoginInv /\ AuthRequest => LoginInv'
<1> SUFFICES ASSUME LoginInv, AuthRequest PROVE LoginInv'
  OBVIOUS
<1>1. lg \in Logins /\ ls' = ls /\ lg.pc = "start" /\ ls \in SettingsSpace
  BY DEF LoginInv, Sound, AuthRequest
<1> PICK pkce \in BOOLEAN : pkce = (Has("code") /\ Pkce # "none")
  OBVIOUS
<1>2. \/ lg' = Fails([lg EXCEPT !.honest = FALSE])
      \/ lg' = [lg EXCEPT !.pc = "sent", !.nonced = TRUE, !.challenge = pkce, !.verifier = pkce]
  BY DEF AuthRequest
<1>3. CASE lg' = Fails([lg EXCEPT !.honest = FALSE])
  <2> PICK l : l = [lg EXCEPT !.honest = FALSE]
    OBVIOUS
  <2>1. l \in Logins /\ ~l.honest
    BY <1>1 DEF Logins
  <2>2. Sound(Fails(l))
    BY <2>1, FailsSound
  <2> QED
    BY <1>1, <1>3, <2>2, SoundNext
<1>4. CASE lg' = [lg EXCEPT !.pc = "sent", !.nonced = TRUE, !.challenge = pkce, !.verifier = pkce]
  <2> PICK l : l = [lg EXCEPT !.pc = "sent", !.nonced = TRUE, !.challenge = pkce, !.verifier = pkce]
    OBVIOUS
  <2>1. l \in Logins /\ l.pc = "sent" /\ l.nonced /\ l.challenge = l.verifier
    BY <1>1 DEF Logins, LoginSteps
  <2>2. Sound(l)
    BY <2>1 DEF Sound, Prepared, FrontToken, Redeeming, BackToken, Constrained, Ours
  <2> QED
    BY <1>1, <1>4, <2>2, SoundNext
<1> QED
  BY <1>2, <1>3, <1>4

LEMMA AuthResponseInv == LoginInv /\ AuthResponse => LoginInv'
<1> SUFFICES ASSUME LoginInv, AuthResponse PROVE LoginInv'
  OBVIOUS
<1>1. lg \in Logins /\ ls' = ls /\ lg.pc = "sent" /\ ls \in SettingsSpace /\ Prepared(lg)
  BY DEF LoginInv, Sound, AuthResponse
<1>2. PICK iss \in {"none", "op", "other"}, clientId \in {"none", "other"},
           mode \in {"query", "fragment", "form_post"} :
         lg' \in {Responded(front, IssuerFits(iss, clientId) /\ ModeFits(mode)) : front \in Fronts}
  BY Zenon DEF AuthResponse
<1> PICK fits \in BOOLEAN : fits = (IssuerFits(iss, clientId) /\ ModeFits(mode))
  OBVIOUS
<1>3. PICK front \in Fronts : lg' = Responded(front, fits)
  BY <1>2
<1>4. front \in [Params -> Origins]
  BY DEF Fronts, Origins
<1> PICK honest \in BOOLEAN : honest = (lg.honest /\ front = HonestFront /\ fits)
  BY <1>1 DEF Logins
<1> PICK st : st = [lg EXCEPT !.honest = honest]
  OBVIOUS
<1>5. /\ st \in Logins /\ st.honest = honest /\ st.challenge = lg.challenge /\ st.verifier = lg.verifier
      /\ st.nonced /\ st.params = lg.params /\ (st.challenge => st.verifier)
  BY <1>1 DEF Logins, Prepared
<1>6. lg' = IF ~(fits /\ TypeFits(front)) THEN Fails(st)
            ELSE IF Has("id_token") THEN IdTokenFlow(st, front) ELSE CodeFlow(st, front)
  BY <1>3 DEF Responded
<1>7. CASE ~(fits /\ TypeFits(front))
  <2>1. ~st.honest
    BY <1>1, <1>5, <1>7, HonestFits
  <2>2. Sound(Fails(st))
    BY <1>5, <2>1, FailsSound
  <2> QED
    BY <1>1, <1>6, <1>7, <2>2, SoundNext
<1>8. CASE fits /\ TypeFits(front) /\ Has("id_token")
  <2> PICK l : l = [st EXCEPT !.pc = "idtoken", !.params = front]
    OBVIOUS
  <2>1. /\ l \in Logins /\ l.pc = "idtoken" /\ l.params = front /\ l.honest = honest /\ l.nonced
        /\ (l.challenge => l.verifier)
    BY <1>4, <1>5 DEF Logins, LoginSteps
  <2>2. ls.rtype # {"code"}
    BY <1>1, <1>8, ResponseTypeParts
  <2>3. Sound(l)
    BY <1>8, <2>1, <2>2 DEF Sound, Prepared, FrontToken, Redeeming, BackToken, Constrained, Ours
  <2> QED
    BY <1>1, <1>6, <1>8, <2>3, SoundNext DEF IdTokenFlow
<1>9. CASE fits /\ TypeFits(front) /\ ~Has("id_token")
  <2> PICK p \in [Params -> Origins] : p = StripParams(front)
    BY <1>1, <1>4, Stripping
  <2>1. p["code"] = front["code"] /\ p["refresh_token"] = "none" /\ p["id_token"] = "none"
    BY <1>1, <1>4, <1>9, Stripping
  <2> PICK l : l = [st EXCEPT !.pc = "resolve", !.params = p]
    OBVIOUS
  <2>2. /\ l \in Logins /\ l.pc = "resolve" /\ l.params = p /\ l.honest = honest /\ l.nonced
        /\ (l.challenge => l.verifier)
    BY <1>5 DEF Logins, LoginSteps
  <2>3. Has("code") /\ front["code"] # "none"
    BY <1>1, <1>9, ResponseTypeParts DEF TypeFits
  <2>4. honest => front["code"] = "op"
    BY <1>1, <2>3, HonestFits
  <2>5. Sound(l)
    BY <1>9, <2>1, <2>2, <2>3, <2>4
       DEF Sound, Prepared, FrontToken, Redeeming, BackToken, Constrained, Ours
  <2> QED
    BY <1>1, <1>6, <1>9, <2>5, SoundNext DEF CodeFlow
<1> QED
  BY <1>7, <1>8, <1>9

LEMMA IdTokenInv == LoginInv /\ IdToken => LoginInv'
<1> SUFFICES ASSUME LoginInv, IdToken PROVE LoginInv'
  OBVIOUS
<1>1. /\ lg \in Logins /\ ls' = ls /\ lg.pc = "idtoken" /\ ls \in SettingsSpace
      /\ Prepared(lg) /\ FrontToken(lg) /\ BackToken(lg) /\ Constrained(lg) /\ lg.nonced
  BY DEF LoginInv, Sound, IdToken, Prepared
<1> PICK p \in [Params -> Origins] : p = lg.params
  BY <1>1 DEF Logins
<1>2. PICK t \in IF p["id_token"] = "op" THEN OurTokens ELSE OtherTokens : lg' = AfterIdToken(t)
  BY DEF IdToken
<1>3. Has("id_token") => /\ (p["code"] # "none") = Has("code") /\ (p["id_token"] # "none")
                         /\ (p["access_token"] # "none") = Has("token")
  BY <1>1 DEF FrontToken, TypeFits
<1>4. CASE ~IdTokenOk(t, p)
  <2>1. ~lg.honest
    <3> SUFFICES ASSUME lg.honest PROVE FALSE
      OBVIOUS
    <3>1. CASE Has("id_token")
      <4>1. p = HonestFront
        BY <1>1, <3>1 DEF FrontToken
      <4>2. /\ Has("code") => p["code"] = "op"
            /\ p["id_token"] = "op" /\ (Has("token") => p["access_token"] = "op")
        BY <1>1, <3>1, <4>1, HonestFits
      <4>3. t \in OurTokens /\ ls.rtype # {"code"}
        BY <1>1, <1>2, <3>1, <4>2, ResponseTypeParts
      <4> QED
        BY <1>1, <1>4, <4>2, <4>3, OurTokenAccepted
    <3>2. CASE ~Has("id_token")
      <4>1. p["code"] = "op" /\ p["id_token"] = "op" /\ (ls.rtype = {"code"} => p["access_token"] = "op")
        BY <1>1, <3>2, ResponseTypeParts DEF BackToken
      <4>2. t \in OurTokens
        BY <1>2, <4>1
      <4> QED
        BY <1>1, <1>4, <3>2, <4>1, <4>2, OurTokenAccepted
    <3> QED
      BY <3>1, <3>2
  <2>2. Sound(Fails(lg))
    BY <1>1, <2>1, FailsSound
  <2> QED
    BY <1>1, <1>2, <1>4, <2>2, SoundNext DEF AfterIdToken
<1>5. CASE IdTokenOk(t, p) /\ ~Has("id_token")
  <2>1. p["id_token"] = "op" /\ t \in OurTokens
    BY <1>1, <1>2, <1>5, OtherTokenRefused
  <2>2. /\ p["access_token"] = "op" \/ (ls.rtype = {"code", "token"} /\ ~lg.backed)
        /\ p["refresh_token"] \in {"none", "op"}
    BY <1>1, <1>5, <2>1, ResponseTypeParts DEF BackToken
  <2> PICK l : l = [lg EXCEPT !.pc = "done"]
    OBVIOUS
  <2>3. /\ l \in Logins /\ l.pc = "done" /\ l.params = p /\ l.nonced /\ (l.challenge => l.verifier)
        /\ l.bound = lg.bound /\ l.backed = lg.backed
    BY <1>1 DEF Logins, LoginSteps, Prepared
  <2>4. Ours(l)
    BY <2>1, <2>2, <2>3 DEF Ours
  <2>5. Sound(l)
    BY <1>1, <2>3, <2>4 DEF Sound, Prepared, FrontToken, Redeeming, BackToken, Constrained
  <2> QED
    BY <1>1, <1>2, <1>5, <2>5, SoundNext DEF AfterIdToken
<1>6. CASE IdTokenOk(t, p) /\ Has("id_token")
  <2>1. p["id_token"] = "op" /\ t \in OurTokens
    BY <1>1, <1>2, <1>6, OtherTokenRefused
  <2>2. (Has("code") => p["code"] = "op") /\ (Has("token") => p["access_token"] = "op")
    BY <1>1, <1>6, <2>1, HashesVouch
  <2>3. ~Has("token") => p["access_token"] = "none"
    BY <1>3, <1>6 DEF Has
  <2> PICK s \in [Params -> Origins] : s = StripParams(p)
    BY <1>1, Stripping
  <2>4. /\ s["code"] = p["code"] /\ s["refresh_token"] = "none" /\ s["id_token"] = "op"
        /\ s["access_token"] \in {"none", "op"}
    BY <1>1, <1>6, <2>1, <2>2, <2>3, Stripping
  <2> PICK pc \in {"resolve", "done"} : pc = IF Has("code") THEN "resolve" ELSE "done"
    OBVIOUS
  <2> PICK l : l = [lg EXCEPT !.pc = pc, !.params = s]
    OBVIOUS
  <2>5. l \in Logins /\ l.pc = pc /\ l.params = s /\ l.nonced /\ (l.challenge => l.verifier)
    BY <1>1 DEF Logins, LoginSteps, Prepared
  <2>6. ls.rtype # {"code"}
    BY <1>1, <1>6, ResponseTypeParts
  <2>7. Ours(l)
    BY <2>4, <2>5 DEF Ours
  <2>8. Redeeming(l)
    BY <1>6, <2>2, <2>4, <2>5 DEF Redeeming
  <2>9. Sound(l)
    BY <2>5, <2>6, <2>7, <2>8 DEF Sound, Prepared, FrontToken, BackToken, Constrained
  <2> QED
    BY <1>1, <1>2, <1>6, <2>9, SoundNext DEF AfterIdToken
<1> QED
  BY <1>4, <1>5, <1>6

\* Where the profile asks for it and there is no certificate, no token is
\* accepted without a proof of possession.
LEMMA FapiBound ==
    ASSUME ls \in SettingsSpace, ls.cert \/ (ls.parsed /\ ~Mtls), ls.profile = "fapi20"
    PROVE  DpopMode = "required" \/ ls.cert
<1>1. CASE ls.cert
  BY <1>1
<1>2. CASE ~ls.cert
  <2>1. ls.parsed /\ ~BoundByMetadata
    BY <1>2 DEF BoundByMetadata
  <2> QED
    BY <1>2, <2>1 DEF DpopMode, CertBound
<1> QED
  BY <1>1, <1>2

\* A response is parsed into one of the same kind; what the OP should have
\* sent is what the client takes.
LEMMA ParsedResponse ==
    ASSUME NEW resp \in TokenResponses
    PROVE  /\ Parsed(resp).id_token \in BOOLEAN /\ Parsed(resp).access_token \in BOOLEAN
           /\ Parsed(resp).refresh_token \in BOOLEAN /\ Parsed(resp).type \in {"dpop", "bearer", "other", "none"}
           /\ resp.type = "dpop" => Parsed(resp).type = "dpop"
           /\ ~CannotAsk /\ Conforming(resp) => TypeOk(resp) /\ CodeResponseFits(Parsed(resp))
<1>1. /\ resp.id_token \in BOOLEAN /\ resp.access_token \in BOOLEAN /\ resp.refresh_token \in BOOLEAN
      /\ resp.type \in {"dpop", "bearer", "other", "none"}
  BY DEF TokenResponses, OpType
<1>2. CASE resp.type = "other" /\ ls.userinfo
  <2>1. Parsed(resp) = [resp EXCEPT !.access_token = FALSE, !.type = "none"]
    BY <1>2 DEF Parsed
  <2>2. /\ Parsed(resp).id_token = resp.id_token /\ Parsed(resp).access_token = FALSE
        /\ Parsed(resp).refresh_token = resp.refresh_token /\ Parsed(resp).type = "none"
    BY <2>1 DEF TokenResponses
  <2> QED
    BY <1>1, <1>2, <2>2 DEF Conforming, OpType
<1>3. CASE ~(resp.type = "other" /\ ls.userinfo)
  <2>1. Parsed(resp) = resp
    BY <1>3 DEF Parsed
  <2> QED
    BY <1>1, <2>1 DEF Conforming, OpType, TypeOk, CodeResponseFits, Proof, CannotAsk
<1> QED
  BY <1>2, <1>3

LEMMA UpdatedLogin ==
    ASSUME NEW l \in Logins, NEW pc \in LoginSteps, NEW n \in [Params -> Origins],
           NEW bound \in SUBSET {"dpop", "mtls"}, NEW b \in BOOLEAN
    PROVE  [l EXCEPT !.pc = pc, !.params = n, !.bound = bound, !.backed = b] \in Logins
  BY DEF Logins

\* The token response resp, and where it takes the login.
RespondsWith(resp) ==
    lg' = IF TypeOk(resp) /\ CodeResponseFits(Parsed(resp)) THEN Resolved(Parsed(resp))
          ELSE Fails([lg EXCEPT !.honest = @ /\ Conforming(resp)])

LEMMA ResolveInv == LoginInv /\ ResolveCode => LoginInv'
<1> SUFFICES ASSUME LoginInv, ResolveCode PROVE LoginInv'
  OBVIOUS
<1>1. /\ lg \in Logins /\ ls' = ls /\ lg.pc \in {"resolve", "retry"} /\ ls \in SettingsSpace
      /\ Prepared(lg) /\ Redeeming(lg) /\ lg.nonced
  BY DEF LoginInv, Sound, ResolveCode, Prepared
<1> PICK p \in [Params -> Origins] : p = lg.params
  BY <1>1 DEF Logins
<1> PICK f : f = [lg EXCEPT !.honest = FALSE]
  OBVIOUS
<1>2. f \in Logins /\ ~f.honest
  BY <1>1 DEF Logins
<1>3. Sound(Fails(f))
  BY <1>2, FailsSound
<1>4. \/ lg' = Fails(f)
      \/ ~CannotAsk /\ \E resp \in TokenResponses : RespondsWith(resp)
      \/ ~(Redeems /\ VerifierOk) /\ lg' = Fails(lg)
      \/ lg' = [lg EXCEPT !.pc = "retry"]
  BY DEF ResolveCode, RespondsWith
<1>5. CASE lg' = Fails(f)
  BY <1>1, <1>3, <1>5, SoundNext
<1>6. CASE ~(Redeems /\ VerifierOk) /\ lg' = Fails(lg)
  <2>1. ~lg.honest
    BY <1>1, <1>6 DEF Redeems, VerifierOk, Redeeming, Prepared
  <2> QED
    BY <1>1, <1>6, <2>1, FailsSound, SoundNext
<1>7. CASE lg' = [lg EXCEPT !.pc = "retry"]
  <2> PICK l : l = [lg EXCEPT !.pc = "retry"]
    OBVIOUS
  <2>1. /\ l \in Logins /\ l.pc = "retry" /\ l.params = lg.params /\ l.nonced
        /\ (l.challenge => l.verifier) /\ l.honest = lg.honest
    BY <1>1 DEF Logins, LoginSteps, Prepared
  <2>2. Sound(l)
    BY <1>1, <2>1 DEF Sound, Prepared, FrontToken, Redeeming, BackToken, Constrained, Ours
  <2> QED
    BY <1>1, <1>7, <2>2, SoundNext
<1>9. ASSUME ~CannotAsk, NEW sent \in TokenResponses, RespondsWith(sent),
             ~(TypeOk(sent) /\ CodeResponseFits(Parsed(sent)))
      PROVE  LoginInv'
  <2>1. ~Conforming(sent)
    BY <1>9, ParsedResponse
  <2>2. [lg EXCEPT !.honest = @ /\ Conforming(sent)] = f
    BY <2>1
  <2>3. lg' = Fails(f)
    BY <1>9, <2>2 DEF RespondsWith
  <2> QED
    BY <1>5, <2>3
<1>8. ASSUME ~CannotAsk, NEW sent \in TokenResponses, RespondsWith(sent),
             TypeOk(sent), CodeResponseFits(Parsed(sent))
      PROVE  LoginInv'
  <2>1. PICK resp : resp = Parsed(sent) /\ CodeResponseFits(resp) /\ lg' = Resolved(resp)
    BY <1>8 DEF RespondsWith
  <2>2. resp.access_token \in BOOLEAN /\ resp.id_token \in BOOLEAN /\ resp.refresh_token \in BOOLEAN
    BY <2>1, ParsedResponse
  <2> PICK o \in Origins : o = p["code"]
    BY DEF Params
  <2>9. PICK n : n = [p EXCEPT !["id_token"] = IF @ = "none" /\ resp.id_token THEN o ELSE @,
                               !["access_token"] = IF resp.access_token THEN o ELSE @,
                               !["token_type"] = IF resp.access_token /\ resp.type # "none" THEN o ELSE @,
                               !["refresh_token"] = IF resp.refresh_token THEN o ELSE @]
    OBVIOUS
  <2>3. /\ n \in [Params -> Origins] /\ n["code"] = o
        /\ n["access_token"] = IF resp.access_token THEN o ELSE p["access_token"]
        /\ n["id_token"] = IF p["id_token"] = "none" /\ resp.id_token THEN o ELSE p["id_token"]
        /\ n["refresh_token"] = IF resp.refresh_token THEN o ELSE p["refresh_token"]
    BY <2>9 DEF Params
  <2>10. PICK bound \in SUBSET {"dpop", "mtls"} :
          bound = IF resp.access_token
                    THEN (IF resp.type = "dpop" THEN {"dpop"} ELSE {}) \cup (IF ls.cert THEN {"mtls"} ELSE {})
                    ELSE {}
    OBVIOUS
  <2>11. PICK pc \in {"done", "idtoken"} : pc = IF Has("id_token") THEN "done" ELSE "idtoken"
    OBVIOUS
  <2>12. PICK l : l = [lg EXCEPT !.pc = pc, !.params = n, !.bound = bound, !.backed = resp.access_token]
    OBVIOUS
  <2>4. lg' = l
    BY <2>1, <2>2, <2>9, <2>10, <2>11, <2>12 DEF Resolved
  <2>5. /\ l \in Logins /\ l.pc = pc /\ l.params = n /\ l.bound = bound /\ l.nonced
        /\ l.backed = resp.access_token /\ (l.challenge => l.verifier) /\ l.honest = lg.honest
    <3>1. pc \in LoginSteps /\ n \in [Params -> Origins] /\ bound \in SUBSET {"dpop", "mtls"}
      BY <2>3 DEF LoginSteps
    <3>2. l \in Logins
      BY <1>1, <2>2, <2>12, <3>1, UpdatedLogin
    <3>3. /\ l.backed = resp.access_token /\ l.pc = pc /\ l.params = n /\ l.bound = bound /\ l.honest = lg.honest
          /\ l.nonced = lg.nonced /\ l.challenge = lg.challenge /\ l.verifier = lg.verifier
      BY <1>1, <2>12 DEF Logins
    <3> QED
      BY <1>1, <3>2, <3>3 DEF Prepared
  <2>6. Constrained(l)
    <3> SUFFICES ASSUME ls.cert \/ (ls.parsed /\ ~Mtls), ls.profile = "fapi20", ls.rtype = {"code"}
                 PROVE  bound # {}
      BY <2>5 DEF Constrained
    <3>1. resp.access_token
      BY <1>1, <2>1, ResponseTypeParts DEF CodeResponseFits
    <3>2. ls.cert \/ sent.type = "dpop"
      BY <1>1, <1>8, FapiBound DEF TypeOk
    <3>3. ls.cert \/ resp.type = "dpop"
      BY <2>1, <3>2, ParsedResponse
    <3> QED
      BY <2>10, <3>1, <3>3
  <2>7. CASE Has("id_token")
    <3>1. p["code"] = "op" /\ p["id_token"] = "op" /\ p["refresh_token"] = "none" /\ p["access_token"] # "other"
      BY <1>1, <2>7 DEF Redeeming
    <3>2. n["id_token"] = "op" /\ n["access_token"] \in {"none", "op"} /\ n["refresh_token"] \in {"none", "op"}
      <4>1. p["access_token"] \in {"none", "op", "other"} /\ o = "op"
        BY <3>1 DEF Origins, Params
      <4> QED
        BY <2>2, <2>3, <3>1, <4>1
    <3>3. Ours(l)
      BY <2>5, <3>2 DEF Ours
    <3> QED
      BY <1>1, <2>4, <2>5, <2>6, <2>7, <2>11, <3>3, SoundNext
         DEF Sound, Prepared, FrontToken, Redeeming, BackToken
  <2>8. CASE ~Has("id_token")
    <3>1. /\ p["code"] # "none" /\ p["id_token"] = "none" /\ p["refresh_token"] = "none"
          /\ (lg.honest => p["code"] = "op") /\ resp.id_token
      BY <1>1, <2>1, <2>8 DEF Redeeming, CodeResponseFits
    <3>3. resp.access_token \/ Has("token")
      BY <2>1 DEF CodeResponseFits
    <3>2. BackToken(l)
      BY <2>2, <2>3, <2>5, <3>1, <3>3 DEF BackToken
    <3> QED
      BY <1>1, <2>4, <2>5, <2>6, <2>8, <2>11, <3>2, SoundNext
         DEF Sound, Prepared, FrontToken, Redeeming, Ours
  <2> QED
    BY <2>7, <2>8
<1> QED
  BY <1>4, <1>5, <1>6, <1>7, <1>8, <1>9

LEMMA LoginAgainInv == LoginInv /\ LoginAgain => LoginInv'
<1> SUFFICES ASSUME LoginInv, LoginAgain PROVE LoginInv'
  OBVIOUS
<1>1. NewLogin \in Logins /\ NewLogin.pc = "start" /\ ~NewLogin.challenge
  BY DEF NewLogin, Logins, NoParams, LoginSteps, Origins
<1>2. Sound(NewLogin)
  BY <1>1 DEF Sound, Prepared, FrontToken, Redeeming, BackToken, Constrained, Ours
<1> QED
  BY <1>2, SoundNext DEF LoginAgain

-----------------------------------------------------------------------------
\* The inductive invariant of a login (oidc_proto_response_*,
\* oidc_proto_validate_idtoken, oidc_proto_resolve_code_and_validate_response):
\* at each step, which of its parameters are known to be the OP's for this
\* login, and which all come from one code.
THEOREM LoginInvariance == LoginSpec => []LoginInv
<1>1. LoginInv /\ [LoginNext]_loginVars => LoginInv'
  <2> SUFFICES ASSUME LoginInv, [LoginNext]_loginVars PROVE LoginInv'
    OBVIOUS
  <2>1. CASE LoginNext
    BY <2>1, AuthRequestInv, AuthResponseInv, IdTokenInv, ResolveInv, LoginAgainInv DEF LoginNext
  <2>2. CASE UNCHANGED loginVars
    <3>1. ls' = ls /\ lg' = lg /\ Sound(lg)
      BY <2>2 DEF loginVars, LoginInv
    <3> QED
      BY <3>1, SoundNext
  <2> QED
    BY <2>1, <2>2
<1> QED
  BY <1>1, LoginInitInv, PTL DEF LoginSpec

\* With every response type, with or without PKCE, and whatever the browser
\* brings, the tokens of a session are those that the OP issued for this
\* login, but for the unvouched access token of "code token" where the token
\* endpoint gives none that is usable; and a FAPI 2.0 login has a sender-constrained access token.
THEOREM LoginsAlwaysSound == LoginSpec => []LoginSound
<1>1. LoginInv => LoginSound
  BY DEF LoginInv, Sound, LoginSound, LoginIsOurs, ResolvedConstrained, Ours, Constrained
<1> QED
  BY <1>1, LoginInvariance, PTL

\* A login that nobody interferes with, and for which no credential is
\* missing, never fails: for every combination of response type, profile,
\* PKCE, client authentication, DPoP, audience and signature settings, what
\* one part asks the OP for passes the checks of all the others.
THEOREM HonestAlwaysSucceeds == LoginSpec => []HonestSucceeds
<1>1. LoginInv => HonestSucceeds
  BY DEF LoginInv, Sound, HonestSucceeds
<1> QED
  BY <1>1, LoginInvariance, PTL

-----------------------------------------------------------------------------
(* Requests                                                                *)

\* The requests, as the type invariant has them.
Requests ==
    [phase : Phases, redirect : BOOLEAN, hook : Hooks,
     method : {"GET", "POST", "OPTIONS"}, capable : BOOLEAN, bearer : BOOLEAN,
     user : Users, hdr : [HeaderClasses -> {"client", "absent", "module"}],
     cookies : BOOLEAN, rs : SUBSET (PageKeys \cup {"claims"}),
     rc : {"none", "OK", "DECLINED", "reply"},
     basis : {"none", "checked", "unchecked"}, sub : BOOLEAN, mainUser : Users]

Configs == [auth : AuthTypes, unauth : {"auth", "pass", "401"},
            unautz : {"401", "auth"}, prefix : {"oidc", "claim", "listed"},
            require : {"valid-user", "claim"}, discovery : BOOLEAN]

\* What no handler changes: where the request goes and what it came with.
SameRequest(o, r) ==
    /\ o.redirect = r.redirect /\ o.method = r.method /\ o.bearer = r.bearer
    /\ o.sub = r.sub /\ o.mainUser = r.mainUser

\* What a handler of this module returns: OK, or an answer.
Answered == {r \in Requests : r.rc \in {"OK", "reply"}}

\* A page is prepared, which the content handler will send.
Waits(r) == r.rs \cap PageKeys # {}

\* The headers that tell the application about the user are not the client's.
Clean(r) == \A h \in ScrubbedClasses : r.hdr[h] # "client"

\* The user has a session or a token that passed all checks.
Known(user, r) == user \in {"session", "token"} /\ r.basis = "checked" /\ ~r.cookies

\* There is no user, and none is needed.
Unknown(user, r) == user = "empty" /\ (gconf.unauth = "pass" \/ r.method = "OPTIONS")

\* A CORS preflight that is let through before a session is looked for.
Preflight(r) == gconf.auth = "auth-openidc" /\ ~r.bearer /\ r.method = "OPTIONS"

\* The request may go on as this user.
MayGoOn(user, r) ==
    /\ Clean(r)
    /\ Known(user, r) \/ Unknown(user, r)
    /\ Preflight(r) => user = "empty"

\* By the phase of a request that no content of this module answers: what
\* the hooks before it have made sure of.
Ready(r) == MayGoOn(r.user, r) /\ (r.sub => r.user = r.mainUser)
Met(r) == r.user # "empty" /\ gconf.require = "claim" => "claims" \in r.rs

PhaseInv ==
    gconf.auth # "none" =>
        /\ q.phase \in {"receive", "authn"} /\ ~q.sub => q.rs = {}
        /\ q.phase = "receive" => ~q.sub
        /\ q.phase = "authn" /\ q.sub => ~q.redirect /\ q.user = "NULL" /\ MayGoOn(q.mainUser, q)
        /\ q.phase = "authz" => q.redirect \/ Waits(q) \/ Ready(q)
        /\ q.phase = "content" => q.redirect \/ Waits(q) \/ (Ready(q) /\ Met(q))
        /\ q.phase = "app" => ~q.redirect /\ Ready(q) /\ Met(q)

\* Without an AuthType of this module its hooks decline.
Declined == gconf.auth = "none" => q.phase \notin {"authz", "content"}

GatewayInv == GatewayTypeOK /\ Declined /\ PhaseInv

-----------------------------------------------------------------------------
(* Outcomes.  A handler that lets a request go on either has prepared a page *)
(* or has done what the next hooks rely on.                                  *)

LEMMA PageWaits ==
    ASSUME NEW r \in Requests, NEW key \in PageKeys, NEW o \in Page(r, key)
    PROVE  o \in Answered /\ SameRequest(o, r) /\ Waits(o)
<1> PICK p : p = [r EXCEPT !.user = "empty", !.rs = @ \cup {key}]
  OBVIOUS
<1>3. r.rs \cup {key} \in SUBSET (PageKeys \cup {"claims"})
  BY DEF Requests, Answered
<1>1. p \in Requests /\ SameRequest(p, r) /\ key \in p.rs
  BY <1>3 DEF Requests, Answered, SameRequest, Users
<1>2. o = [p EXCEPT !.rc = "OK"]
  BY DEF Page, Okay
<1> QED
  BY <1>1, <1>2 DEF Requests, Answered, SameRequest, Waits

LEMMA RepliesEnd ==
    ASSUME NEW r \in Requests, NEW o \in Replies(r)
    PROVE  o \in Answered /\ SameRequest(o, r) /\ o.rc = "reply"
  BY DEF Replies, Requests, Answered, SameRequest

LEMMA OkayRequest ==
    ASSUME NEW r \in Requests, NEW o \in Okay(r)
    PROVE  /\ o \in Answered /\ SameRequest(o, r) /\ o.rc = "OK" /\ o.user = r.user /\ o.rs = r.rs
           /\ o.hdr = r.hdr /\ o.basis = r.basis /\ o.cookies = r.cookies
  BY DEF Okay, Requests, Answered, SameRequest

\* Headers of a class that is scrubbed are not the client's afterwards.
LEMMA ScrubClean ==
    ASSUME gconf \in Configs, NEW r \in Requests
    PROVE  /\ Scrubbed(r) \in Requests /\ SameRequest(Scrubbed(r), r) /\ Clean(Scrubbed(r))
           /\ Scrubbed(r).basis = r.basis /\ Scrubbed(r).user = r.user /\ Scrubbed(r).rs = r.rs
           /\ Scrubbed(r).cookies = r.cookies
<1>1. ScrubbedClasses \subseteq HeaderClasses
  BY DEF ScrubbedClasses, HeaderClasses, Configs
<1> DEFINE hdr == [h \in HeaderClasses |-> IF h \in ScrubbedClasses THEN "absent" ELSE r.hdr[h]]
<1>2. hdr \in [HeaderClasses -> {"client", "absent", "module"}]
  BY DEF Requests, Answered
<1>3. \A h \in ScrubbedClasses : hdr[h] # "client"
  BY <1>1
<1> QED
  BY <1>2, <1>3 DEF Scrubbed, Requests, Answered, SameRequest, Clean

\* What the module sets in headers is not the client's either.
LEMMA AppInfoClean ==
    ASSUME gconf \in Configs, NEW r \in Requests, Clean(r), NEW classes
    PROVE  /\ AppInfoSet(r, classes) \in Requests /\ SameRequest(AppInfoSet(r, classes), r)
           /\ Clean(AppInfoSet(r, classes))
           /\ AppInfoSet(r, classes).basis = r.basis /\ AppInfoSet(r, classes).user = r.user
           /\ AppInfoSet(r, classes).rs = r.rs /\ AppInfoSet(r, classes).cookies = r.cookies
<1>1. ScrubbedClasses \subseteq HeaderClasses
  BY DEF ScrubbedClasses, HeaderClasses, Configs
<1> DEFINE hdr == [h \in HeaderClasses |-> IF h \in classes THEN "module" ELSE r.hdr[h]]
<1>2. hdr \in [HeaderClasses -> {"client", "absent", "module"}]
  BY DEF Requests, Answered
<1>3. \A h \in ScrubbedClasses : hdr[h] # "client"
  BY <1>1 DEF Clean
<1> QED
  BY <1>2, <1>3 DEF AppInfoSet, Requests, Answered, SameRequest, Clean

LEMMA AnonymousReady ==
    ASSUME gconf \in Configs, NEW r \in Requests, NEW o \in Anonymous(r)
    PROVE  o \in Answered /\ SameRequest(o, r) /\ Clean(o) /\ o.user = "empty"
<1> PICK s \in Requests : s = Scrubbed(r)
  BY ScrubClean
<1>1. SameRequest(s, r) /\ Clean(s)
  BY ScrubClean
<1> PICK t : t = [s EXCEPT !.user = "empty"]
  OBVIOUS
<1>2. t \in Requests /\ SameRequest(t, s) /\ Clean(t) /\ t.user = "empty"
  BY <1>1 DEF Requests, Answered, SameRequest, Clean, Users
<1>3. o \in Okay(t)
  BY DEF Anonymous
<1>4. o \in Answered /\ SameRequest(o, t) /\ o.user = t.user /\ o.hdr = t.hdr
  BY <1>2, <1>3, OkayRequest
<1>5. SameRequest(o, r)
  BY <1>1, <1>2, <1>4 DEF SameRequest
<1> QED
  BY <1>2, <1>4, <1>5 DEF Clean

\* Authentication at the OP ends in an answer or in a page.
LEMMA AuthenticateEnds ==
    ASSUME NEW r \in Requests, NEW o \in AuthenticateUser(r)
    PROVE  o \in Answered /\ SameRequest(o, r) /\ (o.rc = "reply" \/ Waits(o))
<1>1. \/ o \in Replies(r) \/ o \in Page(r, "DISCOVERY") \/ o \in Page(r, "AUTHN_POST")
      \/ o \in Page(r, "AUTHN_PRESERVE")
  BY DEF AuthenticateUser
<1>2. {"DISCOVERY", "AUTHN_POST", "AUTHN_PRESERVE"} \subseteq PageKeys
  BY DEF PageKeys
<1> QED
  BY <1>1, <1>2, RepliesEnd, PageWaits

LEMMA UnauthenticatedEnds ==
    ASSUME gconf \in Configs, NEW r \in Requests, NEW o \in HandleUnauthenticatedUser(r)
    PROVE  /\ o \in Answered /\ SameRequest(o, r)
           /\ o.rc = "reply" \/ Waits(o) \/ (Clean(o) /\ o.user = "empty" /\ gconf.unauth = "pass")
<1>1. gconf.unauth \in {"401", "pass", "auth"}
  BY DEF Configs
<1>2. CASE gconf.unauth = "401"
  BY <1>2, RepliesEnd DEF HandleUnauthenticatedUser
<1>3. CASE gconf.unauth = "pass"
  BY <1>3, AnonymousReady DEF HandleUnauthenticatedUser
<1>4. CASE gconf.unauth = "auth"
  BY <1>4, RepliesEnd, AuthenticateEnds DEF HandleUnauthenticatedUser
<1> QED
  BY <1>1, <1>2, <1>3, <1>4

LEMMA KilledRequest ==
    ASSUME NEW r \in Requests
    PROVE  Killed(r) \in Requests /\ SameRequest(Killed(r), r)
  BY DEF Killed, Requests, Answered, SameRequest, Users

\* A session that cannot be refreshed never lets its request go on.
LEMMA RefreshErrorEnds ==
    ASSUME gconf \in Configs, NEW r \in Requests, NEW o \in HandleSessionRefreshError(r)
    PROVE  /\ o \in Answered /\ SameRequest(o, r)
           /\ o.rc = "reply" \/ Waits(o) \/ (Clean(o) /\ o.user = "empty" /\ gconf.unauth = "pass")
<1> PICK k \in Requests : k = Killed(r)
  BY KilledRequest
<1>1. SameRequest(k, r)
  BY KilledRequest
<1>2. \/ o \in Replies(k) \/ o \in Page(k, "HTML") \/ o \in Page(k, "HTTP")
      \/ o \in HandleUnauthenticatedUser(k) \/ o \in Replies(r)
  BY DEF HandleSessionRefreshError, LogoutRequest
<1>3. "HTML" \in PageKeys /\ "HTTP" \in PageKeys
  BY DEF PageKeys
<1>4. /\ o \in Answered /\ (SameRequest(o, k) \/ SameRequest(o, r))
      /\ o.rc = "reply" \/ Waits(o) \/ (Clean(o) /\ o.user = "empty" /\ gconf.unauth = "pass")
  BY <1>2, <1>3, RepliesEnd, PageWaits, UnauthenticatedEnds
<1> QED
  BY <1>1, <1>4 DEF SameRequest

\* A good session is passed on: the headers are the module's.
LEMMA PassedClean ==
    ASSUME gconf \in Configs, NEW r \in Requests, Clean(r)
    PROVE  /\ Passed(r) \in Requests /\ SameRequest(Passed(r), r) /\ Clean(Passed(r))
           /\ Passed(r).user = r.user
<1> PICK a \in Requests : a = AppInfoSet(r, {"authn"})
  BY AppInfoClean
<1>1. SameRequest(a, r) /\ Clean(a) /\ a.user = r.user
  BY AppInfoClean
<1> PICK b : b = CopyTokensToRequestState(a)
  OBVIOUS
<1>2. b \in Requests /\ SameRequest(b, a) /\ Clean(b) /\ b.user = a.user
  BY <1>1 DEF CopyTokensToRequestState, Requests, Answered, SameRequest, Clean
<1> PICK c \in Requests : c = SessionPassTokens(b)
  BY <1>2, AppInfoClean DEF SessionPassTokens
<1>3. SameRequest(c, b) /\ Clean(c) /\ c.user = b.user
  BY <1>2, AppInfoClean DEF SessionPassTokens
<1> PICK d1 \in Requests : d1 = AppInfoSet(c, {"oidc"})
  BY <1>3, AppInfoClean
<1>4. SameRequest(d1, c) /\ Clean(d1) /\ d1.user = c.user
  BY <1>3, AppInfoClean
<1> PICK d \in Requests : d = IdTokenPassAs(c)
  BY <1>4, AppInfoClean DEF IdTokenPassAs, SetAppClaims
<1>5. SameRequest(d, d1) /\ Clean(d) /\ d.user = d1.user
  BY <1>4, AppInfoClean DEF IdTokenPassAs, SetAppClaims
<1> PICK e1 \in Requests : e1 = AppInfoSet(d, {"oidc"})
  BY <1>5, AppInfoClean
<1>6. SameRequest(e1, d) /\ Clean(e1) /\ e1.user = d.user
  BY <1>5, AppInfoClean
<1> PICK e \in Requests : e = UserinfoPassAs(d)
  BY <1>6, AppInfoClean DEF UserinfoPassAs, SetAppClaims
<1>7. SameRequest(e, e1) /\ Clean(e) /\ e.user = e1.user
  BY <1>6, AppInfoClean DEF UserinfoPassAs, SetAppClaims
<1>8. Passed(r) = e
  BY DEF Passed
<1> QED
  BY <1>1, <1>2, <1>3, <1>4, <1>5, <1>6, <1>7, <1>8 DEF SameRequest

-----------------------------------------------------------------------------
(* oidc_handle_existing_session, as the application sees it.                 *)
LEMMA ExistingEnds ==
    ASSUME gconf \in Configs, NEW r \in Requests, NEW o \in HandleExistingSession(r)
    PROVE  /\ o \in Answered /\ SameRequest(o, r)
           /\ \/ o.rc = "reply" \/ Waits(o)
              \/ Clean(o) /\ o.user = "empty" /\ gconf.unauth = "pass"
              \/ Clean(o) /\ o.user = "session" /\ o.basis = "checked"
<1> PICK s : s = [r EXCEPT !.user = "session", !.basis = "unchecked"]
  OBVIOUS
<1>1. s \in Requests /\ SameRequest(s, r) /\ s.user = "session"
  BY DEF Requests, Answered, SameRequest, Users
<1> PICK c \in Requests : c = Scrubbed(s)
  BY <1>1, ScrubClean
<1>2. SameRequest(c, s) /\ Clean(c) /\ c.user = "session"
  BY <1>1, ScrubClean
<1> PICK k \in Requests : k = Killed(c)
  BY KilledRequest
<1>3. SameRequest(k, c)
  BY KilledRequest
<1> PICK p \in Requests : p = Passed(c)
  BY <1>2, PassedClean
<1>4. SameRequest(p, c) /\ Clean(p) /\ p.user = "session"
  BY <1>2, PassedClean
<1>5. \/ o \in Replies(s) \/ o \in HandleUnauthenticatedUser(k)
      \/ o \in HandleSessionRefreshError(c) \/ o \in Okay([p EXCEPT !.basis = "checked"])
  BY DEF HandleExistingSession
<1>6. CASE o \in Replies(s)
  <2>1. o \in Answered /\ SameRequest(o, s) /\ o.rc = "reply"
    BY <1>1, <1>6, RepliesEnd
  <2> QED
    BY <2>1, <1>1 DEF SameRequest
<1>7. CASE o \in HandleUnauthenticatedUser(k)
  <2>1. SameRequest(o, k)
    BY <1>7, UnauthenticatedEnds
  <2>2. SameRequest(o, r)
    BY <2>1, <1>1, <1>2, <1>3 DEF SameRequest
  <2> QED
    BY <1>7, <2>2, UnauthenticatedEnds
<1>8. CASE o \in HandleSessionRefreshError(c)
  <2>1. SameRequest(o, c)
    BY <1>8, RefreshErrorEnds
  <2>2. SameRequest(o, r)
    BY <2>1, <1>1, <1>2 DEF SameRequest
  <2> QED
    BY <1>8, <2>2, RefreshErrorEnds
<1>9. CASE o \in Okay([p EXCEPT !.basis = "checked"])
  <2> PICK g : g = [p EXCEPT !.basis = "checked"]
    OBVIOUS
  <2>3. g \in Requests /\ SameRequest(g, p) /\ Clean(g) /\ g.user = "session" /\ g.basis = "checked"
    BY <1>4 DEF Requests, Answered, SameRequest, Clean
  <2>4. /\ o \in Answered /\ SameRequest(o, g) /\ o.user = g.user /\ o.hdr = g.hdr
        /\ o.basis = g.basis
    <3>1. o \in Okay(g)
      BY <1>9
    <3> QED
      <4>1. g \in Requests
        BY <2>3
      <4> QED
        BY <3>1, <4>1, OkayRequest, Zenon
  <2>1. o \in Answered /\ SameRequest(o, p) /\ Clean(o) /\ o.user = "session" /\ o.basis = "checked"
    BY <2>3, <2>4 DEF SameRequest, Clean
  <2>2. SameRequest(o, r)
    BY <2>1, <1>1, <1>2, <1>4 DEF SameRequest
  <2> QED
    BY <2>1, <2>2
<1> QED
  BY <1>5, <1>6, <1>7, <1>8, <1>9

LEMMA StrippedSame ==
    ASSUME NEW r \in Requests
    PROVE  /\ Stripped(r) \in Requests /\ SameRequest(Stripped(r), r) /\ ~Stripped(r).cookies
           /\ Stripped(r).user = r.user /\ Stripped(r).basis = r.basis /\ Stripped(r).rs = r.rs
           /\ Stripped(r).hdr = r.hdr /\ Stripped(r).rc = r.rc
  BY DEF Stripped, Requests, Answered, SameRequest

\* The same with the cookies stripped and the session saved.
LEMMA ExistingSessionEnds ==
    ASSUME gconf \in Configs, NEW r \in Requests, NEW o \in ExistingSession(r)
    PROVE  /\ o \in Answered /\ SameRequest(o, r)
           /\ \/ o.rc = "reply" \/ Waits(o)
              \/ Clean(o) /\ o.user = "empty" /\ gconf.unauth = "pass"
              \/ Clean(o) /\ o.user = "session" /\ o.basis = "checked" /\ ~o.cookies
<1>1. PICK p \in HandleExistingSession(r) :
        \/ p.rc = "OK" /\ (o \in Okay(Stripped(p)) \/ o \in Replies(Stripped(p)))
        \/ p.rc # "OK" /\ o = Stripped(p)
  <2>1. PICK p \in HandleExistingSession(r) : o \in SavedSession(p)
    BY DEF ExistingSession
  <2> QED
    BY <2>1 DEF SavedSession
<1>2. /\ p \in Answered /\ p \in Requests /\ SameRequest(p, r)
      /\ \/ p.rc = "reply" \/ Waits(p)
         \/ Clean(p) /\ p.user = "empty" /\ gconf.unauth = "pass"
         \/ Clean(p) /\ p.user = "session" /\ p.basis = "checked"
  BY ExistingEnds DEF Answered
<1> PICK s \in Requests : s = Stripped(p)
  BY <1>2, StrippedSame
<1>3. /\ SameRequest(s, p) /\ ~s.cookies /\ s.user = p.user /\ s.basis = p.basis /\ s.rs = p.rs
      /\ s.hdr = p.hdr /\ s.rc = p.rc
  BY <1>2, StrippedSame
<1>4. CASE p.rc # "OK" /\ o = s
  <2>1. o \in Answered /\ SameRequest(o, r)
    BY <1>2, <1>3, <1>4 DEF SameRequest, Answered
  <2> QED
    BY <2>1, <1>2, <1>3, <1>4 DEF Waits, Clean
<1>5. CASE p.rc = "OK" /\ o \in Okay(s)
  <2>1. /\ o \in Answered /\ SameRequest(o, s) /\ o.cookies = s.cookies /\ o.user = s.user
        /\ o.basis = s.basis /\ o.rs = s.rs /\ o.hdr = s.hdr
    BY <1>5 DEF Okay, Requests, Answered, SameRequest
  <2>2. SameRequest(o, r)
    BY <2>1, <1>2, <1>3 DEF SameRequest
  <2> QED
    BY <2>1, <2>2, <1>2, <1>3, <1>5 DEF Waits, Clean
<1>6. CASE o \in Replies(s)
  <2>1. o \in Answered /\ SameRequest(o, s) /\ o.rc = "reply"
    BY <1>6, RepliesEnd
  <2>2. SameRequest(o, r)
    BY <2>1, <1>2, <1>3 DEF SameRequest
  <2> QED
    BY <2>1, <2>2
<1> QED
  BY <1>1, <1>4, <1>5, <1>6

-----------------------------------------------------------------------------
(* The redirect URI and the other ways in.                                   *)

\* Whatever the redirect URI is asked for, the request stays one for the
\* redirect URI, which the content handler answers.
LEMMA RedirectUriSame ==
    ASSUME gconf \in Configs, NEW r \in Requests, NEW has \in BOOLEAN,
           NEW o \in HandleRedirectUri(r, has)
    PROVE  o \in Answered /\ SameRequest(o, r)
<1> PICK k \in Requests : k = Killed(r)
  BY KilledRequest
<1>1. SameRequest(k, r)
  BY KilledRequest
<1> PICK e : e = [r EXCEPT !.user = "empty"]
  OBVIOUS
<1>2. e \in Requests /\ SameRequest(e, r)
  BY DEF Requests, Answered, SameRequest, Users
<1>3. \/ o \in Replies(r) \/ o \in Page(r, "HTML") \/ o \in Page(r, "HTTP") \/ o \in Okay(r)
      \/ o \in Replies(k) \/ o \in Page(k, "HTML") \/ o \in Page(k, "HTTP")
      \/ o \in AuthenticateUser(r) \/ o \in Anonymous(r) \/ o \in Okay(e)
      \/ o \in HandleExistingSession(r)
  BY DEF HandleRedirectUri, LogoutRequest, DiscoveryResponse, SessionManagement, Okay
<1>4. "HTML" \in PageKeys /\ "HTTP" \in PageKeys
  BY DEF PageKeys
<1>5. o \in Answered /\ (SameRequest(o, r) \/ SameRequest(o, k) \/ SameRequest(o, e))
  BY <1>2, <1>3, <1>4, RepliesEnd, PageWaits, OkayRequest, AuthenticateEnds, AnonymousReady, ExistingEnds
<1> QED
  BY <1>1, <1>2, <1>5 DEF SameRequest

\* A request as it is when the first hook gets it.
Untouched(r) ==
    /\ ~r.sub => r.rs = {}
    /\ r.sub => ~r.redirect /\ r.user = "NULL" /\ MayGoOn(r.mainUser, r)

\* What a hook returns with OK.
GoesOn(o) == o.rc = "OK" => o.redirect \/ Waits(o) \/ Ready(o)

\* A user that is not NULL is there for a sub-request.
LEMMA MainUserThere ==
    ASSUME NEW r \in Requests, r.sub, Untouched(r)
    PROVE  r.mainUser # "NULL"
  BY DEF Untouched, MayGoOn, Known, Unknown

\* A sub-request takes over the user of its request, with the headers that
\* the first pass left.
LEMMA RecycledReady ==
    ASSUME gconf \in Configs, NEW r \in Requests, Untouched(r), r.sub, NEW o \in Requests,
           SameRequest(o, r), o.hdr = r.hdr, o.basis = r.basis, ~o.cookies, o.user = r.mainUser
    PROVE  Ready(o)
<1>1. MayGoOn(r.mainUser, r)
  BY DEF Untouched
<1>2. Clean(o)
  BY <1>1 DEF MayGoOn, Clean
<1>3. Known(o.user, o) \/ Unknown(o.user, o)
  BY <1>1 DEF MayGoOn, Known, Unknown, SameRequest
<1>4. Preflight(o) => o.user = "empty"
  BY <1>1 DEF MayGoOn, Preflight, SameRequest
<1>5. o.user = o.mainUser
  BY DEF SameRequest
<1> QED
  BY <1>2, <1>3, <1>4, <1>5 DEF Ready, MayGoOn

\* OpenID Connect; a preflight does not get here.
LEMMA OpenidcGoesOn ==
    ASSUME gconf \in Configs, NEW r \in Requests, Untouched(r), ~Preflight(r),
           NEW o \in CheckUseridOpenidc(r)
    PROVE  o \in Answered /\ SameRequest(o, r) /\ GoesOn(o)
<1>1. CASE r.sub
  <2>1. o \in SubRequestRecycled(r)
    BY <1>1, MainUserThere DEF CheckUseridOpenidc
  <2> PICK s \in Requests : s = Stripped(r)
    BY StrippedSame
  <2>2. SameRequest(s, r) /\ ~s.cookies /\ s.basis = r.basis /\ s.rs = r.rs /\ s.hdr = r.hdr
    BY StrippedSame
  <2>3. PICK rs \in {r.rs, r.rs \cup {"claims"}} :
            o = [s EXCEPT !.user = r.mainUser, !.rc = "OK", !.rs = rs]
    BY <2>1 DEF SubRequestRecycled
  <2>4. rs \subseteq PageKeys \cup {"claims"} /\ r.mainUser \in Users
    BY <2>3 DEF Requests, Answered
  <2>5. /\ o \in Answered /\ SameRequest(o, s) /\ o.hdr = s.hdr /\ o.basis = s.basis
        /\ ~o.cookies /\ o.user = r.mainUser
    BY <2>2, <2>3, <2>4 DEF Requests, Answered, SameRequest
  <2>6. SameRequest(o, r)
    BY <2>2, <2>5 DEF SameRequest
  <2> QED
    BY <2>2, <2>5, <2>6, <1>1, RecycledReady DEF GoesOn, Answered
<1>2. CASE ~r.sub /\ r.redirect
  <2>1. PICK has \in BOOLEAN : o \in HandleRedirectUri(r, has)
    BY <1>2 DEF CheckUseridOpenidc
  <2> QED
    BY <2>1, <1>2, RedirectUriSame DEF GoesOn, SameRequest
<1>3. CASE ~r.sub /\ ~r.redirect
  <2>1. o \in ExistingSession(r) \/ o \in HandleUnauthenticatedUser(r)
    BY <1>3 DEF CheckUseridOpenidc
  <2>2. /\ o \in Answered /\ SameRequest(o, r)
        /\ \/ o.rc = "reply" \/ Waits(o)
           \/ Clean(o) /\ o.user = "empty" /\ gconf.unauth = "pass"
           \/ Clean(o) /\ o.user = "session" /\ o.basis = "checked" /\ ~o.cookies
    BY <2>1, ExistingSessionEnds, UnauthenticatedEnds
  <2>3. ~Preflight(o) /\ ~o.sub
    BY <2>2, <1>3 DEF Preflight, SameRequest
  <2> QED
    BY <2>2, <2>3 DEF GoesOn, Ready, MayGoOn, Known, Unknown
<1> QED
  BY <1>1, <1>2, <1>3 DEF Requests, Answered

\* A preflight that is let through has no user, and its headers are clean.
LEMMA AnonymousGoesOn ==
    ASSUME gconf \in Configs, NEW r \in Requests, Untouched(r), r.method = "OPTIONS",
           ~r.sub \/ r.mainUser = "empty", NEW o \in Anonymous(r)
    PROVE  o \in Answered /\ SameRequest(o, r) /\ GoesOn(o)
  BY AnonymousReady DEF GoesOn, Ready, MayGoOn, Known, Unknown, SameRequest

\* OAuth 2.0, alone or with a token where both are allowed.
LEMMA OauthGoesOn ==
    ASSUME gconf \in Configs, NEW r \in Requests, Untouched(r), ~Preflight(r),
           NEW o \in OauthCheckUserid(r)
    PROVE  o \in Answered /\ SameRequest(o, r) /\ GoesOn(o)
<1>1. CASE r.sub
  <2> PICK s \in Requests : s = Stripped(r)
    BY StrippedSame
  <2>2. SameRequest(s, r) /\ ~s.cookies /\ s.basis = r.basis /\ s.rs = r.rs /\ s.hdr = r.hdr
    BY StrippedSame
  <2> PICK u : u = [s EXCEPT !.user = r.mainUser]
    OBVIOUS
  <2>3. /\ u \in Requests /\ SameRequest(u, r) /\ u.hdr = r.hdr /\ u.basis = r.basis
        /\ ~u.cookies /\ u.user = r.mainUser
    BY <2>2 DEF Requests, Answered, SameRequest
  <2>4. o \in Okay(u)
    BY <1>1, MainUserThere DEF OauthCheckUserid
  <2>5. /\ o \in Answered /\ SameRequest(o, u) /\ o.hdr = u.hdr /\ o.basis = u.basis
        /\ o.cookies = u.cookies /\ o.user = u.user
    BY <2>3, <2>4, OkayRequest
  <2>6. SameRequest(o, r)
    BY <2>3, <2>5 DEF SameRequest
  <2> QED
    BY <2>3, <2>5, <2>6, <1>1, RecycledReady DEF GoesOn, Answered
<1>2. CASE ~r.sub /\ o \in CheckToken(r)
  <2> PICK t : t = [r EXCEPT !.user = "token", !.basis = "checked"]
    OBVIOUS
  <2>1. t \in Requests /\ SameRequest(t, r) /\ t.user = "token" /\ t.basis = "checked"
    BY DEF Requests, Answered, SameRequest, Users
  <2> PICK c : c = CopyTokensToRequestState(t)
    OBVIOUS
  <2>2. c \in Requests /\ SameRequest(c, t) /\ c.user = "token" /\ c.basis = "checked"
    BY <2>1 DEF CopyTokensToRequestState, Requests, Answered, SameRequest
  <2> PICK d \in Requests : d = Scrubbed(c)
    BY <2>2, ScrubClean
  <2>3. SameRequest(d, c) /\ Clean(d) /\ d.user = "token" /\ d.basis = "checked"
    BY <2>2, ScrubClean
  <2> PICK e \in Requests : e = AppInfoSet(d, {"authn"})
    BY <2>3, AppInfoClean
  <2>4. SameRequest(e, d) /\ Clean(e) /\ e.user = "token" /\ e.basis = "checked"
    BY <2>3, AppInfoClean
  <2> PICK f \in Requests : f = SetAppClaims(e)
    BY <2>4, AppInfoClean DEF SetAppClaims
  <2>5. SameRequest(f, e) /\ Clean(f) /\ f.user = "token" /\ f.basis = "checked"
    BY <2>4, AppInfoClean DEF SetAppClaims
  <2> PICK g \in Requests : g = OauthPassInfoToApp(d)
    BY <2>5, AppInfoClean DEF OauthPassInfoToApp
  <2>6. SameRequest(g, f) /\ Clean(g) /\ g.user = "token" /\ g.basis = "checked"
    BY <2>5, AppInfoClean DEF OauthPassInfoToApp
  <2> PICK h \in Requests : h = Stripped(g)
    BY StrippedSame
  <2>7. SameRequest(h, g) /\ h.hdr = g.hdr /\ h.user = "token" /\ h.basis = "checked" /\ ~h.cookies
    BY <2>6, StrippedSame
  <2>8. o \in Replies(r) \/ o \in Okay(h)
    BY <1>2 DEF CheckToken
  <2>9. CASE o \in Replies(r)
    BY <2>9, RepliesEnd DEF GoesOn
  <2>10. CASE o \in Okay(h)
    <3>1. /\ o \in Answered /\ SameRequest(o, h) /\ o.hdr = h.hdr /\ o.user = "token"
          /\ o.basis = "checked" /\ ~o.cookies
      BY <2>10, <2>7, OkayRequest
    <3>2. SameRequest(o, r)
      BY <3>1, <2>1, <2>2, <2>3, <2>4, <2>5, <2>6, <2>7 DEF SameRequest
    <3>3. Clean(o)
      BY <3>1, <2>6, <2>7 DEF Clean
    <3> QED
      BY <3>1, <3>2, <3>3, <1>2 DEF GoesOn, Ready, MayGoOn, Known, Preflight, SameRequest
  <2> QED
    BY <2>8, <2>9, <2>10
<1>3. CASE ~r.sub /\ o \notin CheckToken(r)
  <2>1. \/ r.redirect /\ (o \in Anonymous(r) \/ o \in Replies(r) \/ o \in Okay(r))
        \/ r.method = "OPTIONS" /\ o \in Anonymous(r)
        \/ o \in Replies(r)
    BY <1>3 DEF OauthCheckUserid
  <2>2. CASE o \in Replies(r)
    BY <2>2, RepliesEnd DEF GoesOn
  <2>3. CASE r.redirect /\ (o \in Anonymous(r) \/ o \in Okay(r))
    BY <2>3, AnonymousReady, OkayRequest DEF GoesOn, SameRequest
  <2>4. CASE r.method = "OPTIONS" /\ o \in Anonymous(r)
    BY <2>4, <1>3, AnonymousGoesOn
  <2> QED
    BY <2>1, <2>2, <2>3, <2>4
<1> QED
  BY <1>1, <1>2, <1>3 DEF Requests, Answered

\* The first hook, for every AuthType of this module.
LEMMA CheckUserIdGoesOn ==
    ASSUME gconf \in Configs, gconf.auth # "none", NEW r \in Requests, Untouched(r),
           NEW o \in CheckUserId(r)
    PROVE  o \in Answered /\ SameRequest(o, r) /\ GoesOn(o)
<1>1. CASE gconf.auth = "openid-connect"
  BY <1>1, OpenidcGoesOn DEF CheckUserId, Preflight
<1>2. CASE gconf.auth = "oauth20"
  BY <1>2, OauthGoesOn DEF CheckUserId, Preflight
<1>3. CASE gconf.auth = "auth-openidc"
  <2>1. o \in CheckMixed(r)
    BY <1>3 DEF CheckUserId
  <2>2. CASE r.bearer
    BY <2>1, <2>2, OauthGoesOn DEF CheckMixed, Preflight
  <2>3. CASE ~r.bearer /\ r.method = "OPTIONS"
    <3>1. ~r.sub \/ r.mainUser = "empty"
      BY <1>3, <2>3 DEF Untouched, MayGoOn, Preflight
    <3> QED
      BY <2>1, <2>3, <3>1, AnonymousGoesOn DEF CheckMixed
  <2>4. CASE ~r.bearer /\ r.method # "OPTIONS"
    BY <2>1, <2>4, OpenidcGoesOn DEF CheckMixed, Preflight
  <2> QED
    BY <2>2, <2>3, <2>4
<1> QED
  BY <1>1, <1>2, <1>3 DEF Configs, AuthTypes

\* The second hook: what goes on was ready before and has met the
\* requirement, or it is a page.
LEMMA AuthzGoesOn ==
    ASSUME gconf \in Configs, NEW r \in Requests, NEW o \in AuthzChecker(r),
           r.redirect \/ Waits(r) \/ Ready(r)
    PROVE  /\ o \in Answered /\ SameRequest(o, r)
           /\ o.rc = "OK" => o.redirect \/ Waits(o) \/ (Ready(o) /\ Met(o))
<1>1. \/ o \in Replies(r)
      \/ o \in Okay(r) /\ (gconf.require = "claim" => r.user = "empty" \/ "claims" \in r.rs)
      \/ o \in UnauthorizedUser(r)
  BY DEF AuthzChecker, Excused, MayMatch, Configs
<1>2. CASE o \in Replies(r)
  BY <1>2, RepliesEnd
<1>3. CASE o \in Okay(r) /\ (gconf.require = "claim" => r.user = "empty" \/ "claims" \in r.rs)
  <2>1. /\ o \in Answered /\ SameRequest(o, r) /\ o.user = r.user /\ o.rs = r.rs /\ o.hdr = r.hdr
        /\ o.basis = r.basis /\ o.cookies = r.cookies
    BY <1>3, OkayRequest
  <2>2. Met(o)
    BY <2>1, <1>3 DEF Met
  <2>3. Ready(r) => Ready(o)
    BY <2>1 DEF Ready, MayGoOn, Clean, Known, Unknown, Preflight, SameRequest
  <2> QED
    BY <2>1, <2>2, <2>3 DEF Waits, SameRequest
<1>4. CASE o \in UnauthorizedUser(r)
  <2>1. CASE o \in Replies(r)
    BY <2>1, RepliesEnd
  <2>2. CASE o \notin Replies(r)
    <3>1. PICK p \in AuthenticateUser(r) :
            o = IF p.rc = "OK" /\ "DISCOVERY" \in p.rs THEN p ELSE [p EXCEPT !.rc = "reply"]
      BY <1>4, <2>2 DEF UnauthorizedUser
    <3>2. p \in Answered /\ p \in Requests /\ SameRequest(p, r) /\ (p.rc = "reply" \/ Waits(p))
      BY AuthenticateEnds DEF Answered
    <3>3. CASE o = p
      BY <3>2, <3>3 DEF Answered
    <3>4. CASE o = [p EXCEPT !.rc = "reply"]
      BY <3>2, <3>4 DEF Requests, Answered, SameRequest
    <3> QED
      BY <3>1, <3>3, <3>4
  <2> QED
    BY <2>1, <2>2
<1> QED
  BY <1>1, <1>2, <1>3, <1>4

-----------------------------------------------------------------------------
(* The steps                                                                 *)

LEMMA GatewayTypes == GatewayTypeOK <=> gconf \in Configs /\ q \in Requests
  BY DEF GatewayTypeOK, Configs, Requests

LEMMA NewRequestTyped == NewRequest \in Requests /\ ~NewRequest.sub /\ NewRequest.phase = "receive"
  BY DEF NewRequest, Requests, Phases, Hooks, Users, HeaderClasses

LEMMA GatewayInitInv == GatewayInit => GatewayInv
<1> SUFFICES ASSUME GatewayInit PROVE GatewayInv
  OBVIOUS
<1>1. gconf \in Configs /\ q = NewRequest
  BY DEF GatewayInit, Configs
<1>2. q \in Requests /\ ~q.sub /\ q.phase = "receive" /\ q.rs = {}
  BY <1>1, NewRequestTyped DEF NewRequest
<1> QED
  BY <1>1, <1>2, GatewayTypes DEF GatewayInv, PhaseInv, Declined

\* A step that leaves the configuration alone keeps what is said with it.
LEMMA ReceiveInv == GatewayInv /\ Receive => GatewayInv'
<1> SUFFICES ASSUME GatewayInv, Receive PROVE GatewayInv'
  OBVIOUS
<1>1. gconf \in Configs /\ q \in Requests /\ gconf' = gconf /\ q.phase = "receive"
  BY GatewayTypes DEF GatewayInv, Receive
<1>2. PICK redirect \in BOOLEAN, hook \in Hooks, method \in {"GET", "POST", "OPTIONS"},
           capable \in BOOLEAN, bearer \in BOOLEAN :
         /\ ~redirect => hook = "none"
         /\ q' = [q EXCEPT !.phase = "authn", !.redirect = redirect, !.hook = hook,
                           !.method = method, !.capable = capable, !.bearer = bearer]
  BY Zenon DEF Receive
<1>3. q' \in Requests /\ q'.phase = "authn" /\ q'.sub = q.sub /\ q'.rs = q.rs
  BY <1>1, <1>2 DEF Requests, Phases
<1>4. gconf.auth # "none" => ~q.sub /\ q.rs = {}
  BY <1>1 DEF GatewayInv, PhaseInv
<1>5. PhaseInv'
  BY <1>1, <1>3, <1>4 DEF PhaseInv
<1> QED
  BY <1>1, <1>3, <1>5, GatewayTypes DEF GatewayInv, GatewayTypeOK, Declined, Configs, Requests

LEMMA AuthenticateInv == GatewayInv /\ Authenticate => GatewayInv'
<1> SUFFICES ASSUME GatewayInv, Authenticate PROVE GatewayInv'
  OBVIOUS
<1>1. gconf \in Configs /\ q \in Requests /\ gconf' = gconf /\ q.phase = "authn"
  BY GatewayTypes DEF GatewayInv, Authenticate
<1>2. PICK o \in CheckUserId(q) :
         q' = [o EXCEPT !.phase = IF o.rc = "OK" THEN "authz"
                                  ELSE IF o.rc = "DECLINED" THEN "app" ELSE "done"]
  BY DEF Authenticate
<1>3. CASE gconf.auth = "none"
  <2>1. o = [q EXCEPT !.rc = "DECLINED"]
    BY <1>2, <1>3 DEF CheckUserId
  <2>2. o \in Requests
    BY <2>1, <1>1 DEF Requests
  <2>3. q' \in Requests
    BY <2>2, <1>2 DEF Requests, Phases
  <2> QED
    BY <1>1, <1>2, <1>3, <2>1, <2>2, <2>3
       DEF GatewayInv, GatewayTypeOK, PhaseInv, Declined, Configs, Requests
<1>4. CASE gconf.auth # "none"
  <2>1. Untouched(q)
    BY <1>1, <1>4 DEF GatewayInv, PhaseInv, Untouched
  <2>2. o \in Requests /\ o.rc \in {"OK", "reply"} /\ SameRequest(o, q) /\ GoesOn(o)
    BY <1>1, <1>4, <2>1, CheckUserIdGoesOn DEF Answered
  <2>3. CASE o.rc = "OK"
    <3>1. q' = [o EXCEPT !.phase = "authz"]
      BY <1>2, <2>3
    <3>2. /\ q' \in Requests /\ q'.phase = "authz" /\ SameRequest(q', o) /\ q'.user = o.user
          /\ q'.rs = o.rs /\ q'.hdr = o.hdr /\ q'.basis = o.basis /\ q'.cookies = o.cookies
      BY <3>1, <2>2 DEF Requests, Phases, SameRequest
    <3>3. q'.redirect \/ Waits(q') \/ Ready(q)'
      BY <1>1, <2>2, <2>3, <3>2
         DEF GoesOn, Waits, Ready, MayGoOn, Clean, Known, Unknown, Preflight, SameRequest, ScrubbedClasses
    <3>4. PhaseInv'
      BY <3>2, <3>3 DEF PhaseInv, Waits
    <3> QED
      BY <1>1, <1>4, <3>2, <3>4 DEF GatewayInv, GatewayTypeOK, Declined, Configs, Requests
  <2>4. CASE o.rc # "OK"
    <3>1. o.rc # "DECLINED"
      BY <2>2
    <3>2. q' = [o EXCEPT !.phase = "done"]
      BY <1>2, <2>4, <3>1
    <3>3. q' \in Requests /\ q'.phase = "done"
      BY <3>2, <2>2 DEF Requests, Phases
    <3>4. PhaseInv'
      BY <3>3 DEF PhaseInv
    <3> QED
      BY <1>1, <3>3, <3>4 DEF GatewayInv, GatewayTypeOK, Declined, Configs, Requests
  <2> QED
    BY <2>3, <2>4
<1> QED
  BY <1>3, <1>4

LEMMA AuthorizeInv == GatewayInv /\ Authorize => GatewayInv'
<1> SUFFICES ASSUME GatewayInv, Authorize PROVE GatewayInv'
  OBVIOUS
<1>1. gconf \in Configs /\ q \in Requests /\ gconf' = gconf /\ q.phase = "authz"
  BY GatewayTypes DEF GatewayInv, Authorize
<1>2. PICK o \in AuthzChecker(q) :
         q' = [o EXCEPT !.phase = IF o.rc = "OK" THEN "content" ELSE "done"]
  BY DEF Authorize
<1>3. q.redirect \/ Waits(q) \/ Ready(q)
  BY <1>1 DEF GatewayInv, PhaseInv, Declined
<1>4. /\ o \in Requests /\ SameRequest(o, q)
      /\ o.rc = "OK" => o.redirect \/ Waits(o) \/ (Ready(o) /\ Met(o))
  BY <1>1, <1>3, AuthzGoesOn DEF Answered
<1>5. PICK phase \in Phases : /\ q' = [o EXCEPT !.phase = phase]
                              /\ phase = IF o.rc = "OK" THEN "content" ELSE "done"
  BY <1>2 DEF Phases
<1>6. /\ q' \in Requests /\ q'.phase = phase /\ SameRequest(q', o) /\ q'.user = o.user
      /\ q'.rs = o.rs /\ q'.hdr = o.hdr /\ q'.basis = o.basis /\ q'.cookies = o.cookies
  BY <1>4, <1>5 DEF Requests, SameRequest
<1>7. phase = "content" => q'.redirect \/ Waits(q') \/ (Ready(q)' /\ Met(q)')
  BY <1>1, <1>4, <1>5, <1>6
     DEF Waits, Ready, MayGoOn, Clean, Known, Unknown, Preflight, SameRequest, ScrubbedClasses, Met
<1>8. PhaseInv'
  BY <1>5, <1>6, <1>7 DEF PhaseInv, Waits
<1>9. gconf.auth # "none"
  BY <1>1 DEF GatewayInv, Declined
<1> QED
  BY <1>1, <1>6, <1>8, <1>9 DEF GatewayInv, GatewayTypeOK, Declined, Configs, Requests

LEMMA ContentInv == GatewayInv /\ ContentHandler => GatewayInv'
<1> SUFFICES ASSUME GatewayInv, ContentHandler PROVE GatewayInv'
  OBVIOUS
<1>1. gconf \in Configs /\ q \in Requests /\ gconf' = gconf /\ q.phase = "content"
  BY GatewayTypes DEF GatewayInv, ContentHandler
<1>2. PICK phase \in Phases : /\ q' = [q EXCEPT !.phase = phase]
                              /\ phase = IF q.redirect \/ Waits(q) THEN "done" ELSE "app"
  BY DEF ContentHandler, SkipToContentHandler, Phases, Waits
<1>3. /\ q' \in Requests /\ q'.phase = phase /\ SameRequest(q', q) /\ q'.user = q.user
      /\ q'.rs = q.rs /\ q'.hdr = q.hdr /\ q'.basis = q.basis /\ q'.cookies = q.cookies
  BY <1>1, <1>2 DEF Requests, SameRequest
<1>4. gconf.auth # "none" => q.redirect \/ Waits(q) \/ (Ready(q) /\ Met(q))
  BY <1>1 DEF GatewayInv, PhaseInv
<1>5. gconf.auth # "none" /\ phase = "app" => ~q'.redirect /\ Ready(q)' /\ Met(q)'
  BY <1>1, <1>2, <1>3, <1>4
     DEF Ready, MayGoOn, Clean, Known, Unknown, Preflight, SameRequest, ScrubbedClasses, Met
<1>6. PhaseInv'
  BY <1>1, <1>2, <1>3, <1>5 DEF PhaseInv
<1>7. gconf.auth # "none"
  BY <1>1 DEF GatewayInv, Declined
<1> QED
  BY <1>1, <1>3, <1>6, <1>7 DEF GatewayInv, GatewayTypeOK, Declined, Configs, Requests

LEMMA SubRequestInv == GatewayInv /\ SubRequest => GatewayInv'
<1> SUFFICES ASSUME GatewayInv, SubRequest PROVE GatewayInv'
  OBVIOUS
<1>1. /\ gconf \in Configs /\ q \in Requests /\ gconf' = gconf /\ q.phase = "app"
      /\ gconf.auth # "none" /\ ~q.sub
  BY GatewayTypes DEF GatewayInv, SubRequest
<1>2. PICK rs \in {q.rs, {}} :
         q' = [q EXCEPT !.phase = "authn", !.sub = TRUE, !.mainUser = q.user,
                        !.user = "NULL", !.rs = rs, !.rc = "none"]
  BY DEF SubRequest
<1>3. rs \in SUBSET (PageKeys \cup {"claims"})
  BY <1>1, <1>2 DEF Requests
<1>4. /\ q' \in Requests /\ q'.phase = "authn" /\ q'.sub /\ q'.mainUser = q.user
      /\ q'.user = "NULL" /\ q'.hdr = q.hdr /\ q'.basis = q.basis /\ q'.cookies = q.cookies
      /\ q'.redirect = q.redirect /\ q'.method = q.method /\ q'.bearer = q.bearer
  BY <1>1, <1>2, <1>3 DEF Requests, Phases, Users
<1>5. ~q.redirect /\ Ready(q)
  BY <1>1 DEF GatewayInv, PhaseInv
<1>6. MayGoOn(q.mainUser, q)'
  BY <1>1, <1>4, <1>5 DEF Ready, MayGoOn, Clean, Known, Unknown, Preflight, ScrubbedClasses
<1>7. PhaseInv'
  BY <1>4, <1>5, <1>6 DEF PhaseInv
<1> QED
  BY <1>1, <1>4, <1>7 DEF GatewayInv, GatewayTypeOK, Declined, Configs, Requests

LEMMA NextRequestInv == GatewayInv /\ NextRequest => GatewayInv'
<1> SUFFICES ASSUME GatewayInv, NextRequest PROVE GatewayInv'
  OBVIOUS
<1>1. gconf \in Configs /\ gconf' = gconf /\ q' = NewRequest
  BY GatewayTypes DEF GatewayInv, NextRequest
<1>2. PhaseInv'
  BY <1>1 DEF PhaseInv, NewRequest
<1> QED
  BY <1>1, <1>2, NewRequestTyped DEF GatewayInv, GatewayTypeOK, Declined, Configs, Requests

-----------------------------------------------------------------------------
\* The inductive invariant of the hooks (oidc_check_user_id, the
\* authorization checker, oidc_content_handler): a request that no content
\* of the module answers is, after each hook, what the next one relies on.
THEOREM GatewayInvariance == GatewaySpec => []GatewayInv
<1>1. GatewayInv /\ [GatewayNext]_gatewayVars => GatewayInv'
  <2> SUFFICES ASSUME GatewayInv, [GatewayNext]_gatewayVars PROVE GatewayInv'
    OBVIOUS
  <2>1. CASE GatewayNext
    BY <2>1, ReceiveInv, AuthenticateInv, AuthorizeInv, ContentInv, SubRequestInv, NextRequestInv
       DEF GatewayNext
  <2>2. CASE UNCHANGED gatewayVars
    BY <2>2 DEF gatewayVars, GatewayInv, GatewayTypeOK, PhaseInv, Declined, Waits, Ready, Met, MayGoOn, Clean,
                Known, Unknown, Preflight, ScrubbedClasses
  <2> QED
    BY <2>1, <2>2
<1> QED
  BY <1>1, GatewayInitInv, PTL DEF GatewaySpec

\* On every way through the hooks, sub-requests and internal redirects
\* included, the application gets no header about the user from the client
\* (oidc_scrub_headers before oidc_util_appinfo_set on every path), and what
\* is caused inside has the user of the request that caused it.
THEOREM IdentityAlwaysOurs == GatewaySpec => []IdentityIsOurs
<1>1. GatewayInv => IdentityIsOurs
  BY DEF GatewayInv, PhaseInv, IdentityIsOurs, HeadersAreOurs, SameUserInside, Served, Ready,
         MayGoOn, Clean, ScrubbedClasses
<1> QED
  BY <1>1, GatewayInvariance, PTL

\* The application is reached only with a session or token that passed all
\* checks and the claim requirement, or without a user where the
\* configuration or a CORS preflight allows it: no page that was prepared
\* for the content handler, no killed session and no failed refresh lets a
\* request slip through.
THEOREM AlwaysReachedByRight == GatewaySpec => []ReachedByRight
<1>1. GatewayInv => ReachedByRight
  BY DEF GatewayInv, PhaseInv, ReachedByRight, Served, Ready, Met, MayGoOn, Known, Unknown
<1> QED
  BY <1>1, GatewayInvariance, PTL

-----------------------------------------------------------------------------
(* Authorization                                                           *)

\* A set of numbers has a least one.
LEMMA LeastNumber ==
    ASSUME NEW S \in SUBSET Nat, S # {}
    PROVE  \E x \in S : \A y \in S : x <= y
<1> DEFINE R == OpToRel(<, Nat)
<1>1. IsWellFoundedOn(R, Nat)
  BY NatLessThanWellFounded
<1>2. \A x, y \in Nat : x < y => <<x, y>> \in R
  BY DEF OpToRel
<1> HIDE DEF R
<1>3. PICK x \in S : \A y \in S : ~(<<y, x>> \in R)
  BY <1>1, WFMin
<1>4. \A y \in S : ~(y < x)
  BY <1>2, <1>3
<1>5. \A y \in S : x <= y
  BY <1>4
<1> QED
  BY <1>5

\* A prefix and what comes after it, as a concatenation.
LEMMA PrefixSplits ==
    ASSUME NEW p \in Seq(Symbols), NEW w \in Seq(Symbols), IsPrefix(p, w)
    PROVE  After(p, w) \in Seq(Symbols) /\ w = p \o After(p, w)
<1>1. Len(p) \in Nat /\ Len(w) \in Nat /\ Len(p) <= Len(w)
  BY DEF IsPrefix
<1>2. SubSeq(p, 1, Len(p)) = p /\ SubSeq(w, 1, Len(w)) = w
  BY SubSeqFull
<1>3. p = SubSeq(w, 1, Len(p))
  BY <1>2 DEF IsPrefix
<1>4. SubSeq(w, 1, Len(p)) \o SubSeq(w, Len(p) + 1, Len(w)) = SubSeq(w, 1, Len(w))
  <2>1. PICK m, k, n : m = 1 /\ k = Len(p) /\ n = Len(w)
    OBVIOUS
  <2>2. m \in 1 .. Len(w) + 1 /\ k \in m - 1 .. Len(w) /\ n \in k .. Len(w)
    BY <1>1, <2>1
  <2>3. SubSeq(w, m, k) \o SubSeq(w, k + 1, n) = SubSeq(w, m, n)
    BY <2>2, ConcatAdjacentSubSeq
  <2> QED
    BY <2>1, <2>3
<1>5. \A i \in Len(p) + 1 .. Len(w) : w[i] \in Symbols
  BY <1>1
<1>6. SubSeq(w, Len(p) + 1, Len(w)) \in Seq(Symbols)
  BY <1>1, <1>5, SubSeqProperties
<1> QED
  BY <1>2, <1>3, <1>4, <1>6 DEF After

\* A concatenation, taken apart.
LEMMA ConcatSplits ==
    ASSUME NEW p \in Seq(Symbols), NEW t \in Seq(Symbols)
    PROVE  IsPrefix(p, p \o t) /\ After(p, p \o t) = t
<1> DEFINE w == p \o t
<1>1. w \in Seq(Symbols) /\ Len(w) = Len(p) + Len(t) /\ Len(p) \in Nat /\ Len(t) \in Nat
  BY ConcatProperties
<1>2. \A i \in 1 .. Len(p) : w[i] = p[i]
  BY ConcatProperties
<1>3. \A i \in 1 .. Len(t) : w[Len(p) + i] = t[i]
  BY ConcatProperties
<1> HIDE DEF w
<1>4. SubSeq(w, 1, Len(p)) = SubSeq(p, 1, Len(p))
  BY <1>1, <1>2
<1>5. IsPrefix(p, w)
  BY <1>1, <1>4 DEF IsPrefix
<1>6. After(p, w) \in Seq(Symbols) /\ w = p \o After(p, w)
  BY <1>1, <1>5, PrefixSplits
<1>7. p \o t = p \o After(p, w)
  BY <1>6 DEF w
<1> QED
  BY <1>5, <1>6, <1>7, ConcatSimplifications DEF w

\* The first symbol of a word.
LEMMA FirstSymbol ==
    ASSUME NEW t \in Seq(Symbols), NEW s \in Symbols
    PROVE  /\ Starts(<<s>> \o t, s) /\ Tail(<<s>> \o t) = t
           /\ \A x : x # s => ~Starts(<<s>> \o t, x)
           /\ <<s>> \o t \in Seq(Symbols)
<1>1. <<s>> \in Seq(Symbols) /\ Len(<<s>>) = 1 /\ <<s>>[1] = s
  OBVIOUS
<1> DEFINE w == <<s>> \o t
<1>2. w \in Seq(Symbols) /\ Len(w) = 1 + Len(t) /\ w[1] = s /\ Len(t) \in Nat
  BY <1>1, ConcatProperties
<1>3. \A i \in 1 .. Len(t) : w[i + 1] = t[i]
  BY <1>1, ConcatProperties
<1> HIDE DEF w
<1>4. w # <<>> /\ Head(w) = s
  BY <1>2
<1>5. Tail(w) = t
  <2>1. Tail(w) \in Seq(Symbols) /\ Len(Tail(w)) = Len(t) /\ \A i \in 1 .. Len(t) : Tail(w)[i] = t[i]
    BY <1>2, <1>3, <1>4, HeadTailProperties
  <2> QED
    BY <2>1, SeqEqual
<1> QED
  BY <1>2, <1>4, <1>5 DEF Starts, w

\* A word that starts with a symbol is this symbol and the rest.
LEMMA StartsSplits ==
    ASSUME NEW w \in Seq(Symbols), NEW s \in Symbols, Starts(w, s)
    PROVE  Tail(w) \in Seq(Symbols) /\ w = <<s>> \o Tail(w) /\ Len(Tail(w)) = Len(w) - 1
<1>1. w # <<>> /\ Head(w) = s
  BY DEF Starts
<1>2. Tail(w) \in Seq(Symbols) /\ Len(Tail(w)) = Len(w) - 1 /\ \A i \in 1 .. Len(Tail(w)) : Tail(w)[i] = w[i + 1]
  BY <1>1, HeadTailProperties
<1>3. <<s>> \in Seq(Symbols) /\ Len(<<s>>) = 1 /\ <<s>>[1] = s
  OBVIOUS
<1> DEFINE v == <<s>> \o Tail(w)
<1>4. v \in Seq(Symbols) /\ Len(v) = 1 + Len(Tail(w))
  BY <1>2, <1>3, ConcatProperties
<1>5. \A i \in 1 .. 1 + Len(Tail(w)) : v[i] = IF i <= 1 THEN <<s>>[i] ELSE Tail(w)[i - 1]
  BY <1>2, <1>3, ConcatProperties
<1> HIDE DEF v
<1>6. Len(w) \in Nat /\ Len(v) = Len(w)
  BY <1>2, <1>4
<1>7. ASSUME NEW i \in 1 .. Len(v) PROVE v[i] = w[i]
  BY <1>1, <1>2, <1>3, <1>5, <1>6
<1>8. v = w
  BY <1>4, <1>6, <1>7, SeqEqual
<1> QED
  BY <1>2, <1>8 DEF v

\* What oidc_auth_handle_separator skips before it looks for ".".
LEMMA DotsSkipped ==
    ASSUME NEW r \in Seq(Symbols), NEW t \in Seq(Symbols)
    PROVE  (Starts(Past(Past(r, ":"), "~"), ".") /\ Tail(Past(Past(r, ":"), "~")) = t)
              <=> \E sep \in Dots : r = sep \o t
<1> DEFINE d == <<".">> \o t
           a == Past(r, ":")
           b == Past(a, "~")
<1>0. {":", "~", "."} \subseteq Symbols /\ ":" # "~" /\ ":" # "." /\ "~" # "."
  BY DEF Symbols
<1>1. d \in Seq(Symbols) /\ Starts(d, ".") /\ Tail(d) = t /\ ~Starts(d, ":") /\ ~Starts(d, "~")
  BY <1>0, FirstSymbol
<1>2. \A u \in Seq(Symbols) : Starts(u, ".") /\ Tail(u) = t <=> u = d
  BY <1>0, <1>1, StartsSplits
<1>3. \A u \in Seq(Symbols), s \in {":", "~"} :
        /\ Past(u, s) \in Seq(Symbols)
        /\ u = <<s>> \o Past(u, s) \/ (Past(u, s) = u /\ ~Starts(u, s))
        /\ Past(<<s>> \o u, s) = u
        /\ <<s>> \o u \in Seq(Symbols)
  <2> TAKE u \in Seq(Symbols), s \in {":", "~"}
  <2>1. s \in Symbols
    BY <1>0
  <2>2. <<s>> \o u \in Seq(Symbols) /\ Starts(<<s>> \o u, s) /\ Tail(<<s>> \o u) = u
    BY <2>1, FirstSymbol
  <2>3. Past(<<s>> \o u, s) = u
    BY <2>2 DEF Past
  <2>4. CASE Starts(u, s)
    BY <2>1, <2>2, <2>3, <2>4, StartsSplits DEF Past
  <2>5. CASE ~Starts(u, s)
    BY <2>2, <2>3, <2>5 DEF Past
  <2> QED
    BY <2>4, <2>5
<1>4. /\ <<":", ".">> \o t = <<":">> \o d /\ <<"~", ".">> \o t = <<"~">> \o d
      /\ <<":", "~", ".">> \o t = <<":">> \o (<<"~">> \o d)
  <2>1. <<":", ".">> = <<":">> \o <<".">> /\ <<"~", ".">> = <<"~">> \o <<".">>
        /\ <<":", "~", ".">> = <<":">> \o (<<"~">> \o <<".">>)
    OBVIOUS
  <2>2. <<":">> \in Seq(Symbols) /\ <<"~">> \in Seq(Symbols) /\ <<".">> \in Seq(Symbols)
        /\ <<"~">> \o <<".">> \in Seq(Symbols)
    BY <1>0
  <2>3. (<<":">> \o <<".">>) \o t = <<":">> \o d
    BY <2>2, ConcatAssociative
  <2>4. (<<"~">> \o <<".">>) \o t = <<"~">> \o d
    BY <2>2, ConcatAssociative
  <2>5. (<<":">> \o (<<"~">> \o <<".">>)) \o t = <<":">> \o ((<<"~">> \o <<".">>) \o t)
    BY <2>2, ConcatAssociative
  <2> QED
    BY <2>1, <2>3, <2>4, <2>5
<1>5. (\E sep \in Dots : r = sep \o t)
        <=> r \in {d, <<":">> \o d, <<"~">> \o d, <<":">> \o (<<"~">> \o d)}
  BY <1>4 DEF Dots
<1>6. a \in Seq(Symbols) /\ b \in Seq(Symbols)
  BY <1>3
<1>7. ASSUME b = d PROVE r \in {d, <<":">> \o d, <<"~">> \o d, <<":">> \o (<<"~">> \o d)}
  <2>1. a = <<"~">> \o d \/ a = d
    BY <1>3, <1>6, <1>7
  <2>2. r = <<":">> \o a \/ r = a
    BY <1>3
  <2> QED
    BY <2>1, <2>2
<1>8. ASSUME r \in {d, <<":">> \o d, <<"~">> \o d, <<":">> \o (<<"~">> \o d)} PROVE b = d
  <2>1. Past(d, ":") = d /\ Past(d, "~") = d
    BY <1>1 DEF Past
  <2>2. <<"~">> \o d \in Seq(Symbols) /\ ~Starts(<<"~">> \o d, ":")
    BY <1>0, <1>1, FirstSymbol
  <2>3. Past(<<"~">> \o d, ":") = <<"~">> \o d /\ Past(<<"~">> \o d, "~") = d
    BY <1>1, <1>3, <2>2 DEF Past
  <2>4. Past(<<":">> \o d, ":") = d /\ Past(<<":">> \o (<<"~">> \o d), ":") = <<"~">> \o d
    BY <1>1, <1>3, <2>2
  <2> QED
    BY <1>8, <2>1, <2>3, <2>4
<1> QED
  BY <1>2, <1>5, <1>6, <1>7, <1>8

\* A step that is repeated N times: the recursive definition of the results
\* has a solution.  It agrees up to n with what n passes of the definition give.
Repeats(f, N, b, step) == f = [n \in 0 .. N |-> IF n = 0 THEN b ELSE step[f[n - 1]]]

LEMMA Repetition ==
    ASSUME NEW N \in Nat, NEW U, NEW b \in U, NEW step \in [U -> U]
    PROVE  \E f \in [0 .. N -> U] : Repeats(f, N, b, step)
<1> DEFINE F(g) == [n \in 0 .. N |-> IF n = 0 THEN b ELSE step[g[n - 1]]]
           Good(m, g) == \A n \in 0 .. N : n <= m => g[n] = F(g)[n]
           S == {m \in Nat : ~ \E g \in [0 .. N -> U] : Good(m, g)}
<1>1. ASSUME NEW g \in [0 .. N -> U] PROVE F(g) \in [0 .. N -> U]
  OBVIOUS
<1>2. 0 \notin S
  <2>1. PICK g : g = [n \in 0 .. N |-> b]
    OBVIOUS
  <2>2. g \in [0 .. N -> U] /\ Good(0, g)
    BY <2>1
  <2> QED
    BY <2>2
<1>3. ASSUME NEW m \in Nat, m \notin S PROVE m + 1 \notin S
  <2>1. PICK g \in [0 .. N -> U] : Good(m, g)
    BY <1>3
  <2>2. PICK h : h = F(g)
    OBVIOUS
  <2>3. h \in [0 .. N -> U]
    BY <2>2, <1>1
  <2>4. ASSUME NEW n \in 0 .. N, n <= m + 1 PROVE h[n] = F(h)[n]
    <3>1. CASE n = 0
      BY <3>1, <2>2
    <3>2. CASE n # 0
      <4>1. n - 1 \in 0 .. N /\ n - 1 <= m
        BY <3>2, <2>4
      <4>2. g[n - 1] = F(g)[n - 1]
        BY <4>1, <2>1
      <4>3. h[n - 1] = g[n - 1]
        BY <4>2, <2>2
      <4> QED
        BY <4>1, <4>3, <3>2, <2>2
    <3> QED
      BY <3>1, <3>2
  <2>5. Good(m + 1, h)
    BY <2>4
  <2> QED
    BY <2>3, <2>5
<1>4. S = {}
  <2> SUFFICES ASSUME S # {} PROVE FALSE
    OBVIOUS
  <2>1. PICK x \in S : \A y \in S : x <= y
    BY LeastNumber
  <2>2. x \in Nat /\ x # 0
    BY <1>2, <2>1
  <2> HIDE DEF S
  <2>3. x - 1 \in Nat /\ x - 1 \notin S /\ (x - 1) + 1 = x
    BY <2>1, <2>2
  <2> QED
    BY <1>3, <2>1, <2>3
<1>5. PICK g \in [0 .. N -> U] : Good(N, g)
  BY <1>4
<1>6. g = F(g)
  BY <1>5
<1> QED
  BY <1>6 DEF Repeats

-----------------------------------------------------------------------------
(* The search of a word                                                      *)

\* A set of objects with those inside them, whose names are words.
Closed(objs) ==
    \A o \in objs : /\ DOMAIN o \subseteq Seq(Symbols)
                    /\ \A k \in DOMAIN o : Is("object", o[k]) => o[k].object \in objs

CallsOn(objs) == [spec : Seq(Symbols), object : objs]
MemberValues(objs) == UNION {{o[k] : k \in DOMAIN o} : o \in objs}

\* Call x is made by call c.
Made(c, x) ==
    \E key \in DOMAIN c.object, sep \in Dots, t \in Seq(Symbols) :
        /\ c.spec = key \o (sep \o t) /\ Is("object", c.object[key])
        /\ x = [spec |-> t, object |-> c.object[key].object]

\* oidc_authz_separator_dot is called for a member that is an object, when the
\* word goes on with separators that end in a dot.
LEMMA DotCalls ==
    ASSUME NEW objs, Closed(objs), NEW c \in CallsOn(objs)
    PROVE  /\ SeparatorDot(c) \subseteq CallsOn(objs)
           /\ \A x : x \in SeparatorDot(c) <=> Made(c, x)
<1> DEFINE left(key) == Past(Past(After(key, c.spec), ":"), "~")
<1>0. {":", "~", "."} \subseteq Symbols
  BY DEF Symbols
<1>1. c.spec \in Seq(Symbols) /\ c.object \in objs /\ DOMAIN c.object \subseteq Seq(Symbols)
  BY DEF CallsOn, Closed
<1>2. \A sep \in Dots : sep \in Seq(Symbols)
  <2>1. <<".">> \in Seq(Symbols) /\ <<":", ".">> \in Seq(Symbols)
    BY <1>0
  <2>2. <<"~", ".">> \in Seq(Symbols) /\ <<":", "~", ".">> \in Seq(Symbols)
    BY <1>0
  <2> QED
    BY <2>1, <2>2 DEF Dots
<1>3. ASSUME NEW x, x \in SeparatorDot(c)
      PROVE  x \in CallsOn(objs) /\ Made(c, x)
  <2>1. PICK key \in Named(c) : /\ Starts(left(key), ".") /\ Is("object", c.object[key])
                                /\ x = [spec |-> Tail(left(key)), object |-> c.object[key].object]
    BY <1>3 DEF SeparatorDot
  <2>2. key \in DOMAIN c.object /\ key \in Seq(Symbols) /\ IsPrefix(key, c.spec)
    BY <1>1, <2>1 DEF Named, NameMatches
  <2>3. After(key, c.spec) \in Seq(Symbols) /\ c.spec = key \o After(key, c.spec)
    BY <1>1, <2>2, PrefixSplits
  <2>4. \A u \in Seq(Symbols), s \in {":", "~"} : Past(u, s) \in Seq(Symbols)
    BY <1>0, StartsSplits DEF Past
  <2>5. left(key) \in Seq(Symbols)
    BY <2>3, <2>4
  <2>6. Tail(left(key)) \in Seq(Symbols)
    BY <1>0, <2>1, <2>5, StartsSplits
  <2>7. PICK sep \in Dots : After(key, c.spec) = sep \o Tail(left(key))
    BY <2>1, <2>3, <2>6, DotsSkipped
  <2>8. c.object[key].object \in objs
    BY <1>1, <2>1, <2>2 DEF Closed
  <2> QED
    BY <2>1, <2>2, <2>3, <2>6, <2>7, <2>8 DEF CallsOn, Made
<1>4. ASSUME NEW key \in DOMAIN c.object, NEW sep \in Dots, NEW t \in Seq(Symbols),
             c.spec = key \o (sep \o t), Is("object", c.object[key])
      PROVE  [spec |-> t, object |-> c.object[key].object] \in SeparatorDot(c)
  <2>1. key \in Seq(Symbols) /\ sep \o t \in Seq(Symbols)
    BY <1>1, <1>2, ConcatProperties
  <2>2. IsPrefix(key, c.spec) /\ After(key, c.spec) = sep \o t
    BY <1>4, <2>1, ConcatSplits
  <2>3. Starts(left(key), ".") /\ Tail(left(key)) = t
    BY <2>1, <2>2, DotsSkipped
  <2>4. key \in {k \in Named(c) : Starts(left(k), ".") /\ Is("object", c.object[k])}
    BY <1>4, <2>2, <2>3 DEF Named, NameMatches
  <2> QED
    BY <2>3, <2>4 DEF SeparatorDot
<1>5. ASSUME NEW x, Made(c, x) PROVE x \in SeparatorDot(c)
  BY <1>4, <1>5 DEF Made
<1> QED
  BY <1>3, <1>5

\* The recursive definition of the calls has a solution.
LEMMA CallsDefined ==
    ASSUME NEW objs, Closed(objs), NEW object \in objs, NEW spec \in Seq(Symbols)
    PROVE  ClaimCalls(spec, object) =
             [n \in 0 .. Len(spec) |->
                IF n = 0 THEN {[spec |-> spec, object |-> object]}
                ELSE UNION {SeparatorDot(call) : call \in ClaimCalls(spec, object)[n - 1]}]
<1> DEFINE U == SUBSET CallsOn(objs)
           b == {[spec |-> spec, object |-> object]}
           step == [X \in U |-> UNION {SeparatorDot(call) : call \in X}]
           IsAt(f) == f = [n \in 0 .. Len(spec) |->
                             IF n = 0 THEN {[spec |-> spec, object |-> object]}
                             ELSE UNION {SeparatorDot(call) : call \in f[n - 1]}]
<1>1. b \in U
  BY DEF CallsOn
<1>2. ASSUME NEW X \in U PROVE UNION {SeparatorDot(call) : call \in X} \in U
  BY DotCalls
<1>3. step \in [U -> U]
  BY <1>2
<1>4. PICK N \in Nat : N = Len(spec)
  OBVIOUS
<1> HIDE DEF b, step, U
<1>5. PICK f \in [0 .. N -> U] : Repeats(f, N, b, step)
  BY <1>1, <1>3, Repetition
<1>6. ASSUME NEW n \in 0 .. N, n # 0
      PROVE  step[f[n - 1]] = UNION {SeparatorDot(call) : call \in f[n - 1]}
  <2>1. f[n - 1] \in U
    BY <1>6
  <2> QED
    BY <2>1 DEF step
<1>7. IsAt(f)
  BY <1>4, <1>5, <1>6 DEF b, Repeats
<1>8. ClaimCalls(spec, object) = CHOOSE x : IsAt(x)
  BY DEF ClaimCalls
<1> HIDE DEF IsAt
<1>9. IsAt(ClaimCalls(spec, object))
  BY <1>7, <1>8
<1> QED
  BY <1>9 DEF IsAt

-----------------------------------------------------------------------------
(* The paths to the members                                                  *)

NodesOn(objs) == Seq(Symbols) \X MemberValues(objs)

\* The separators of paths are words.
LEMMA DotsAreWords == \A sep \in Dots : sep \in Seq(Symbols)
<1>0. {":", "~", "."} \subseteq Symbols
  BY DEF Symbols
<1>1. <<".">> \in Seq(Symbols) /\ <<":", ".">> \in Seq(Symbols)
  BY <1>0
<1>2. <<"~", ".">> \in Seq(Symbols) /\ <<":", "~", ".">> \in Seq(Symbols)
  BY <1>0
<1> QED
  BY <1>1, <1>2 DEF Dots

\* Words can be put together in either order.
Regrouped(a, b, d) == (a \o b) \o d = a \o (b \o d)

\* They give the same word.
LEMMA WordsAssociate ==
    ASSUME NEW a \in Seq(Symbols), NEW b \in Seq(Symbols), NEW d \in Seq(Symbols)
    PROVE  Regrouped(a, b, d)
BY ConcatAssociative DEF Regrouped

\* A path of two names before the rest, in the order of the search and in
\* that of the path.
Associative(p, s, k, r) == p \o (s \o (k \o r)) = (p \o s \o k) \o r

\* The two orders give the same word.
LEMMA Reassociated ==
    ASSUME NEW p \in Seq(Symbols), NEW s \in Seq(Symbols), NEW k \in Seq(Symbols), NEW r \in Seq(Symbols)
    PROVE  Associative(p, s, k, r)
<1>1. PICK y \in Seq(Symbols) : y = k \o r
  BY ConcatProperties
<1>2. PICK z \in Seq(Symbols) : z = p \o s
  BY ConcatProperties
<1>3. Regrouped(p, s, y)
  BY WordsAssociate
<1>4. Regrouped(z, k, r)
  BY WordsAssociate
<1> QED
  BY <1>1, <1>2, <1>3, <1>4, Zenon DEF Regrouped, Associative

\* The members of the objects among the nodes, one by one.
LEMMA MembersFound ==
    ASSUME NEW objs, Closed(objs), NEW nodes \in SUBSET NodesOn(objs)
    PROVE  /\ MembersOf(nodes) \subseteq NodesOn(objs)
           /\ \A x : x \in MembersOf(nodes) <=>
                \E node \in nodes : \E sep \in Dots : \E k \in DOMAIN node[2].object :
                    Is("object", node[2]) /\ x = Member(node, sep, k)
<1>1. \A x : x \in MembersOf(nodes) <=>
        \E node \in nodes : \E sep \in Dots : \E k \in DOMAIN node[2].object :
            Is("object", node[2]) /\ x = Member(node, sep, k)
  <2> TAKE x
  <2>1. x \in MembersOf(nodes) <=>
          \E node \in {n \in nodes : Is("object", n[2])} :
              x \in {Member(node, sep, k) : sep \in Dots, k \in DOMAIN node[2].object}
    BY DEF MembersOf
  <2>2. ASSUME NEW node
        PROVE  x \in {Member(node, sep, k) : sep \in Dots, k \in DOMAIN node[2].object}
                 <=> \E sep \in Dots : \E k \in DOMAIN node[2].object : x = Member(node, sep, k)
    OBVIOUS
  <2> QED
    BY <2>1, <2>2
<1>2. ASSUME NEW node \in nodes, NEW sep \in Dots, NEW k \in DOMAIN node[2].object, Is("object", node[2])
      PROVE  Member(node, sep, k) \in NodesOn(objs)
  <2>1. node[1] \in Seq(Symbols) /\ node[2] \in MemberValues(objs)
    BY DEF NodesOn
  <2>2. node[2].object \in objs
    BY <1>2, <2>1 DEF MemberValues, Closed
  <2>3. k \in Seq(Symbols) /\ node[2].object[k] \in MemberValues(objs)
    BY <2>2 DEF MemberValues, Closed
  <2>4. node[1] \o sep \in Seq(Symbols)
    BY <2>1, DotsAreWords, ConcatProperties
  <2>5. node[1] \o sep \o k \in Seq(Symbols)
    BY <2>3, <2>4, ConcatProperties
  <2> QED
    BY <2>3, <2>5 DEF NodesOn, Member
<1>3. MembersOf(nodes) \subseteq NodesOn(objs)
  BY <1>1, <1>2
<1> QED
  BY <1>1, <1>3, Zenon

IsLevels(f, depth) == f = [n \in 0 .. depth |-> IF n = 0 THEN Counting ELSE MembersOf(f[n - 1])]

\* The recursive definition of the levels has a solution.
LEMMA LevelsDefined ==
    ASSUME NEW objs, Closed(objs), Counting \in SUBSET NodesOn(objs), NEW depth \in Nat
    PROVE  \E level : IsLevels(level, depth) /\ Nodes(depth) = UNION {level[n] : n \in 0 .. depth}
<1> DEFINE U == SUBSET NodesOn(objs)
           step == [X \in U |-> MembersOf(X)]
<1>1. ASSUME NEW X \in U PROVE MembersOf(X) \in U
  BY MembersFound
<1>2. step \in [U -> U] /\ Counting \in U
  BY <1>1
<1> HIDE DEF step, U
<1>3. PICK b : b = Counting
  OBVIOUS
<1>4. PICK f \in [0 .. depth -> U] : Repeats(f, depth, b, step)
  BY <1>2, <1>3, Repetition
<1>5. ASSUME NEW n \in 0 .. depth, n # 0 PROVE step[f[n - 1]] = MembersOf(f[n - 1])
  <2>1. f[n - 1] \in U
    BY <1>5
  <2> QED
    BY <2>1 DEF step
<1>6. IsLevels(f, depth)
  BY <1>3, <1>4, <1>5 DEF Repeats, IsLevels
<1>7. PICK level : level = CHOOSE x : IsLevels(x, depth)
  OBVIOUS
<1>8. IsLevels(level, depth)
  BY <1>6, <1>7
<1>9. Nodes(depth) = UNION {level[n] : n \in 0 .. depth}
  BY <1>7 DEF Nodes, IsLevels
<1> QED
  BY <1>8, <1>9

-----------------------------------------------------------------------------
(* The search finds the paths                                                *)

\* At depth n: a call that has come to the name k has come along the path of
\* a member with the value of k, with the same rest of the word w; and each
\* path that w begins with has been followed.
Followed(objs, w, calls, nodes, n) ==
    /\ calls \in SUBSET CallsOn(objs) /\ nodes \in SUBSET NodesOn(objs)
    /\ \A c \in calls : Len(c.spec) + n <= Len(w)
    /\ \A c \in calls : \A key \in DOMAIN c.object : \A r \in Seq(Symbols) :
         c.spec = key \o r => \E node \in nodes : w = node[1] \o r /\ node[2] = c.object[key]
    /\ \A node \in nodes : \A r \in Seq(Symbols) :
         w = node[1] \o r =>
            \E c \in calls : \E key \in DOMAIN c.object : c.spec = key \o r /\ node[2] = c.object[key]

\* A name, a dot and the next name: the search and the paths stay together.
LEMMA FollowedDeeper ==
    ASSUME NEW objs, Closed(objs), NEW w \in Seq(Symbols), NEW n \in Nat,
           NEW calls, NEW nodes, Followed(objs, w, calls, nodes, n)
    PROVE  Followed(objs, w, UNION {SeparatorDot(call) : call \in calls}, MembersOf(nodes), n + 1)
<1> DEFINE deeper == UNION {SeparatorDot(call) : call \in calls}
<1>1. calls \in SUBSET CallsOn(objs) /\ nodes \in SUBSET NodesOn(objs)
  BY DEF Followed
<1>2. deeper \in SUBSET CallsOn(objs) /\ MembersOf(nodes) \in SUBSET NodesOn(objs)
  BY <1>1, DotCalls, MembersFound
<1>3. ASSUME NEW x \in deeper
      PROVE  \E c \in calls : \E key \in DOMAIN c.object, sep \in Dots :
                /\ c.spec = key \o (sep \o x.spec) /\ Is("object", c.object[key])
                /\ x.object = c.object[key].object /\ x.spec \in Seq(Symbols) /\ key \in Seq(Symbols)
  <2>1. PICK c \in calls : x \in SeparatorDot(c)
    OBVIOUS
  <2>2. c \in CallsOn(objs)
    BY <1>1
  <2>3. PICK key \in DOMAIN c.object, sep \in Dots, t \in Seq(Symbols) :
            /\ c.spec = key \o (sep \o t) /\ Is("object", c.object[key])
            /\ x = [spec |-> t, object |-> c.object[key].object]
    <3>1. Made(c, x)
      BY <2>1, <2>2, DotCalls
    <3> QED
      BY <3>1, Zenon DEF Made
  <2>4. key \in Seq(Symbols)
    BY <2>2 DEF CallsOn, Closed
  <2> QED
    BY <2>3, <2>4
<1> HIDE DEF deeper
<1>4. ASSUME NEW x \in deeper PROVE Len(x.spec) + (n + 1) <= Len(w)
  <2>1. PICK c \in calls : \E key \in DOMAIN c.object, sep \in Dots :
            /\ c.spec = key \o (sep \o x.spec) /\ x.spec \in Seq(Symbols) /\ key \in Seq(Symbols)
    BY <1>3
  <2>2. PICK key \in DOMAIN c.object, sep \in Dots :
            /\ c.spec = key \o (sep \o x.spec) /\ x.spec \in Seq(Symbols) /\ key \in Seq(Symbols)
    BY <2>1
  <2>3. sep \in Seq(Symbols) /\ Len(sep) >= 1 /\ Len(sep) \in Nat
    <3>1. Len(<<".">>) = 1 /\ Len(<<":", ".">>) = 2 /\ Len(<<"~", ".">>) = 2 /\ Len(<<":", "~", ".">>) = 3
      OBVIOUS
    <3>2. Len(sep) \in {1, 2, 3}
      BY <3>1, Zenon DEF Dots
    <3>4. PICK l : l = Len(sep)
      OBVIOUS
    <3>5. l \in {1, 2, 3}
      BY <3>2, <3>4
    <3>6. l \in Nat /\ l >= 1
      BY <3>5
    <3>3. Len(sep) \in Nat /\ Len(sep) >= 1
      BY <3>4, <3>6
    <3> QED
      BY <3>3, DotsAreWords
  <2>4. sep \o x.spec \in Seq(Symbols) /\ Len(sep \o x.spec) = Len(sep) + Len(x.spec)
    BY <2>2, <2>3, ConcatProperties
  <2>5. Len(c.spec) = Len(key) + Len(sep \o x.spec)
    BY <2>2, <2>4, ConcatProperties
  <2>6. Len(c.spec) + n <= Len(w) /\ Len(key) \in Nat /\ Len(x.spec) \in Nat /\ Len(w) \in Nat
    BY <2>2 DEF Followed
  <2> QED
    <3>1. PICK a, b, d, e, f \in Nat : a = Len(key) /\ b = Len(sep) /\ d = Len(x.spec) /\ e = Len(w) /\ f = Len(c.spec)
      BY <2>3, <2>4, <2>5, <2>6
    <3>2. f = a + (b + d) /\ f + n <= e /\ b >= 1
      BY <3>1, <2>3, <2>4, <2>5, <2>6
    <3>3. d + (n + 1) <= e
      BY <3>2
    <3> QED
      BY <3>1, <3>3
<1>5. ASSUME NEW x \in deeper, NEW k \in DOMAIN x.object, NEW r \in Seq(Symbols), x.spec = k \o r
      PROVE  \E node \in MembersOf(nodes) : w = node[1] \o r /\ node[2] = x.object[k]
  <2>1. PICK c \in calls : \E key \in DOMAIN c.object, sep \in Dots :
            /\ c.spec = key \o (sep \o x.spec) /\ Is("object", c.object[key])
            /\ x.object = c.object[key].object /\ x.spec \in Seq(Symbols) /\ key \in Seq(Symbols)
    BY <1>3
  <2>2. PICK key \in DOMAIN c.object, sep \in Dots :
            /\ c.spec = key \o (sep \o x.spec) /\ Is("object", c.object[key])
            /\ x.object = c.object[key].object /\ x.spec \in Seq(Symbols) /\ key \in Seq(Symbols)
    BY <2>1
  <2>3. sep \in Seq(Symbols) /\ sep \o x.spec \in Seq(Symbols)
    BY <2>2, DotsAreWords, ConcatProperties
  <2>4. PICK node \in nodes : w = node[1] \o (sep \o x.spec) /\ node[2] = c.object[key]
    BY <2>2, <2>3 DEF Followed
  <2>5. node[1] \in Seq(Symbols) /\ x.object \in objs
    BY <1>1, <1>2 DEF NodesOn, CallsOn
  <2>6. k \in Seq(Symbols)
    BY <2>5 DEF Closed
  <2>7. PICK y : y = Member(node, sep, k)
    OBVIOUS
  <2>8. y \in MembersOf(nodes)
    BY <1>1, <2>2, <2>4, <2>7, MembersFound
  <2>9. node[1] \o (sep \o (k \o r)) = (node[1] \o sep \o k) \o r
    <3>1. PICK p \in Seq(Symbols) : p = node[1]
      BY <2>5
    <3>2. Associative(p, sep, k, r)
      BY <2>3, <2>6, Reassociated
    <3> QED
      BY <3>1, <3>2, Zenon DEF Associative
  <2>10. w = y[1] \o r /\ y[2] = x.object[k]
    BY <1>5, <2>2, <2>4, <2>7, <2>9 DEF Member
  <2> QED
    BY <2>8, <2>10
<1>6. ASSUME NEW y \in MembersOf(nodes), NEW r \in Seq(Symbols), w = y[1] \o r
      PROVE  \E x \in deeper : \E k \in DOMAIN x.object : x.spec = k \o r /\ y[2] = x.object[k]
  <2>0. PICK node \in nodes : \E sep \in Dots : \E k \in DOMAIN node[2].object :
            Is("object", node[2]) /\ y = Member(node, sep, k)
    BY <1>1, MembersFound
  <2>1. PICK sep \in Dots, k \in DOMAIN node[2].object :
            Is("object", node[2]) /\ y = Member(node, sep, k)
    BY <2>0
  <2>2. node[1] \in Seq(Symbols) /\ node[2] \in MemberValues(objs) /\ sep \in Seq(Symbols)
    BY <1>1, DotsAreWords DEF NodesOn
  <2>3. k \in Seq(Symbols)
    <3>1. node[2].object \in objs
      BY <2>1, <2>2 DEF MemberValues, Closed
    <3> QED
      BY <3>1 DEF Closed
  <2>4. k \o r \in Seq(Symbols) /\ node[1] \o sep \in Seq(Symbols)
    BY <2>2, <2>3, ConcatProperties
  <2>5. sep \o (k \o r) \in Seq(Symbols)
    BY <2>2, <2>4, ConcatProperties
  <2>6. w = node[1] \o (sep \o (k \o r))
    <3>1. node[1] \o (sep \o (k \o r)) = (node[1] \o sep \o k) \o r
      <4>1. PICK p \in Seq(Symbols) : p = node[1]
        BY <2>2
      <4>2. Associative(p, sep, k, r)
        BY <2>2, <2>3, Reassociated
      <4> QED
        BY <4>1, <4>2, Zenon DEF Associative
    <3> QED
      BY <1>6, <2>1, <3>1 DEF Member
  <2>11. PICK c \in calls : \E key \in DOMAIN c.object :
            c.spec = key \o (sep \o (k \o r)) /\ node[2] = c.object[key]
    BY <2>5, <2>6 DEF Followed
  <2>7. PICK key \in DOMAIN c.object :
            c.spec = key \o (sep \o (k \o r)) /\ node[2] = c.object[key]
    BY <2>11
  <2>8. PICK x : x = [spec |-> k \o r, object |-> c.object[key].object]
    OBVIOUS
  <2>9. x \in SeparatorDot(c)
    <3>1. c \in CallsOn(objs) /\ Is("object", c.object[key])
      BY <1>1, <2>1, <2>7
    <3> QED
      <4>1. Made(c, x)
        BY <3>1, <2>4, <2>7, <2>8 DEF Made
      <4> QED
        BY <3>1, <4>1, DotCalls
  <2>10. x \in deeper
    BY <2>9 DEF deeper
  <2> QED
    BY <2>1, <2>7, <2>8, <2>10 DEF Member
<1> QED
  BY <1>2, <1>4, <1>5, <1>6 DEF Followed, deeper

\* What is left of the word after a name decides as the reference says.
LEMMA ValueDecides ==
    ASSUME NEW val, NEW r \in Seq(Symbols)
    PROVE  HandleSeparator(val, r) <=>
             \/ Starts(r, ":") /\ MatchValue(Tail(r), val)
             \/ Starts(r, "~") /\ MatchPcre(Tail(r), val)
             \/ IsPrefix(<<":", "~">>, r) /\ MatchPcre(Tail(Tail(r)), val)
<1>0. ":" \in Symbols /\ "~" \in Symbols /\ ":" # "~"
  BY DEF Symbols
<1>1. IsPrefix(<<":", "~">>, r) <=> Starts(r, ":") /\ Starts(Tail(r), "~")
  <2>1. <<":", "~">> \in Seq(Symbols) /\ <<":">> \in Seq(Symbols) /\ <<"~">> \in Seq(Symbols)
        /\ <<":", "~">> = <<":">> \o <<"~">>
    BY <1>0
  <2>2. ASSUME IsPrefix(<<":", "~">>, r) PROVE Starts(r, ":") /\ Starts(Tail(r), "~")
    <3>1. PICK t \in Seq(Symbols) : r = <<":", "~">> \o t
      BY <2>1, <2>2, PrefixSplits
    <3>2. (<<":">> \o <<"~">>) \o t = <<":">> \o (<<"~">> \o t)
      BY <2>1, ConcatAssociative
    <3>3. r = <<":">> \o (<<"~">> \o t)
      BY <2>1, <3>1, <3>2
    <3>4. <<"~">> \o t \in Seq(Symbols) /\ Starts(<<"~">> \o t, "~")
      BY <1>0, FirstSymbol
    <3>5. PICK u \in Seq(Symbols) : u = <<"~">> \o t
      BY <3>4
    <3>6. Starts(<<":">> \o u, ":") /\ Tail(<<":">> \o u) = u
      BY <1>0, FirstSymbol
    <3> QED
      BY <3>3, <3>4, <3>5, <3>6
  <2>3. ASSUME Starts(r, ":"), Starts(Tail(r), "~") PROVE IsPrefix(<<":", "~">>, r)
    <3>1. Tail(r) \in Seq(Symbols) /\ r = <<":">> \o Tail(r)
      BY <1>0, <2>3, StartsSplits
    <3>2. PICK u \in Seq(Symbols) : u = Tail(r)
      BY <3>1
    <3>3. Tail(u) \in Seq(Symbols) /\ u = <<"~">> \o Tail(u)
      BY <1>0, <2>3, <3>2, StartsSplits
    <3>4. PICK t \in Seq(Symbols) : t = Tail(u)
      BY <3>3
    <3>5. (<<":">> \o <<"~">>) \o t = <<":">> \o (<<"~">> \o t)
      BY <2>1, ConcatAssociative
    <3>6. r = <<":", "~">> \o t
      BY <2>1, <3>1, <3>2, <3>3, <3>4, <3>5
    <3> QED
      BY <2>1, <3>6, ConcatSplits
  <2> QED
    BY <2>2, <2>3
<1>2. CASE Starts(r, ":")
  <2>1. ~Starts(r, "~")
    BY <1>0, <1>2 DEF Starts
  <2> QED
    BY <1>1, <1>2, <2>1 DEF HandleSeparator, Past
<1>3. CASE ~Starts(r, ":")
  BY <1>1, <1>3 DEF HandleSeparator, Past
<1> QED
  BY <1>2, <1>3

\* The calls and the paths go together at every depth.
LEMMA AlwaysFollowed ==
    ASSUME NEW objs, Closed(objs), NEW object \in objs, NEW w \in Seq(Symbols),
           Counting = {<<k, object[k]>> : k \in DOMAIN object},
           NEW at, at = ClaimCalls(w, object), NEW level, IsLevels(level, Len(w))
    PROVE  \A n \in 0 .. Len(w) : Followed(objs, w, at[n], level[n], n)
<1>2. PICK N \in Nat : N = Len(w)
  OBVIOUS
<1>3. at = [n \in 0 .. N |-> IF n = 0 THEN {[spec |-> w, object |-> object]}
                             ELSE UNION {SeparatorDot(call) : call \in at[n - 1]}]
  BY <1>2, CallsDefined
<1>4. Counting \in SUBSET NodesOn(objs)
  BY DEF NodesOn, MemberValues, Closed
<1> DEFINE S == {n \in 0 .. N : ~Followed(objs, w, at[n], level[n], n)}
<1>6. 0 \notin S
  <2>1. at[0] = {[spec |-> w, object |-> object]}
    BY <1>3
  <2>2. level[0] = Counting
    BY <1>2 DEF IsLevels
  <2>3. at[0] \in SUBSET CallsOn(objs)
    BY <2>1 DEF CallsOn
  <2>4. \A c \in at[0] : c.spec = w /\ c.object = object /\ Len(c.spec) + 0 <= Len(w)
    BY <2>1
  <2>5. ASSUME NEW k \in DOMAIN object, NEW r \in Seq(Symbols), w = k \o r
        PROVE  \E node \in level[0] : w = node[1] \o r /\ node[2] = object[k]
    <3>1. <<k, object[k]>> \in level[0]
      BY <2>2
    <3> QED
      BY <3>1, <2>5
  <2>6. ASSUME NEW node \in level[0], NEW r \in Seq(Symbols), w = node[1] \o r
        PROVE  \E c \in at[0] : \E key \in DOMAIN c.object : c.spec = key \o r /\ node[2] = c.object[key]
    <3>1. PICK k \in DOMAIN object : node = <<k, object[k]>>
      BY <2>2
    <3>2. node[1] = k /\ node[2] = object[k]
      BY <3>1
    <3>3. PICK c \in at[0] : TRUE
      BY <2>1
    <3>4. c.spec = w /\ c.object = object
      BY <2>4
    <3>5. c.spec = k \o r
      BY <2>6, <3>2, <3>4
    <3>6. k \in DOMAIN c.object /\ node[2] = c.object[k]
      BY <3>2, <3>4
    <3> QED
      BY <3>5, <3>6
  <2>7. ASSUME NEW c \in at[0], NEW key \in DOMAIN c.object, NEW r \in Seq(Symbols), c.spec = key \o r
        PROVE  \E node \in level[0] : w = node[1] \o r /\ node[2] = c.object[key]
    <3>1. c.spec = w /\ c.object = object
      BY <2>4
    <3>2. key \in DOMAIN object /\ w = key \o r
      BY <2>7, <3>1
    <3>3. PICK node \in level[0] : w = node[1] \o r /\ node[2] = object[key]
      BY <2>5, <3>2
    <3> QED
      BY <3>1, <3>3
  <2>8. level[0] \in SUBSET NodesOn(objs)
    BY <1>4, <2>2
  <2>9. \A c \in at[0] : Len(c.spec) + 0 <= Len(w)
    BY <2>4
  <2>10. Followed(objs, w, at[0], level[0], 0)
    BY <2>3, <2>6, <2>7, <2>8, <2>9, Zenon DEF Followed
  <2> QED
    BY <2>10
<1>7. ASSUME NEW n \in 0 .. N, n # 0, n - 1 \notin S PROVE n \notin S
  <2>1. n - 1 \in Nat /\ n - 1 \in 0 .. N /\ (n - 1) + 1 = n
    BY <1>7
  <2>2. Followed(objs, w, at[n - 1], level[n - 1], n - 1)
    BY <1>7, <2>1
  <2>3. at[n] = UNION {SeparatorDot(call) : call \in at[n - 1]} /\ level[n] = MembersOf(level[n - 1])
    BY <1>2, <1>3, <1>7 DEF IsLevels
  <2> QED
    BY <2>1, <2>2, <2>3, FollowedDeeper
<1>8. S = {}
  <2> SUFFICES ASSUME S # {} PROVE FALSE
    OBVIOUS
  <2>0. S \in SUBSET Nat
    OBVIOUS
  <2>1. PICK x \in S : \A y \in S : x <= y
    <3> HIDE DEF S
    <3> QED
      BY <2>0, LeastNumber
  <2>2. x \in 0 .. N /\ x # 0
    BY <1>6, <2>1
  <2> HIDE DEF S
  <2>3. x - 1 \notin S
    BY <2>1, <2>2
  <2> QED
    BY <1>7, <2>1, <2>2, <2>3
<1> QED
  BY <1>2, <1>8

\* The search of oidc_authz_match_claim comes to a value that the word
\* describes if and only if there is one, at any depth.
LEMMA SearchMeans ==
    ASSUME NEW objs, Closed(objs), NEW object \in objs, NEW w \in Seq(Symbols),
           Counting = {<<k, object[k]>> : k \in DOMAIN object}
    PROVE  MatchClaim(w, object) <=> \E node \in Nodes(Len(w)) : Means(w, node)
<1>1. PICK N \in Nat : N = Len(w)
  OBVIOUS
<1>2. PICK at : at = ClaimCalls(w, object)
  OBVIOUS
<1>4. Counting \in SUBSET NodesOn(objs)
  BY DEF NodesOn, MemberValues, Closed
<1>5. PICK level : IsLevels(level, N) /\ Nodes(N) = UNION {level[n] : n \in 0 .. N}
  BY <1>4, LevelsDefined
<1>8. \A n \in 0 .. N : Followed(objs, w, at[n], level[n], n)
  BY <1>1, <1>2, <1>5, AlwaysFollowed
<1>9. ASSUME NEW n \in 0 .. N, NEW c \in at[n], NEW key \in Named(c),
             HandleSeparator(c.object[key], After(key, c.spec))
      PROVE  \E node \in level[n] : Means(w, node)
  <2>1. Followed(objs, w, at[n], level[n], n)
    BY <1>8
  <2>2. c \in CallsOn(objs) /\ level[n] \in SUBSET NodesOn(objs)
    BY <2>1 DEF Followed
  <2>3. key \in DOMAIN c.object /\ key \in Seq(Symbols) /\ IsPrefix(key, c.spec) /\ c.spec \in Seq(Symbols)
    BY <2>2 DEF Named, NameMatches, CallsOn, Closed
  <2>4. PICK r \in Seq(Symbols) : r = After(key, c.spec) /\ c.spec = key \o r
    BY <2>3, PrefixSplits
  <2>5. PICK node \in level[n] : w = node[1] \o r /\ node[2] = c.object[key]
    BY <2>1, <2>3, <2>4 DEF Followed
  <2>6. node[1] \in Seq(Symbols)
    BY <2>2 DEF NodesOn
  <2>7. PICK p \in Seq(Symbols) : p = node[1]
    BY <2>6
  <2>8. IsPrefix(p, p \o r) /\ After(p, p \o r) = r
    BY ConcatSplits
  <2>9. IsPrefix(node[1], w) /\ After(node[1], w) = r
    BY <2>5, <2>7, <2>8
  <2> QED
    BY <1>9, <2>4, <2>5, <2>9, ValueDecides DEF Means
<1>10. ASSUME NEW n \in 0 .. N, NEW node \in level[n], Means(w, node)
       PROVE  \E c \in at[n] : \E key \in Named(c) : HandleSeparator(c.object[key], After(key, c.spec))
  <2>1. Followed(objs, w, at[n], level[n], n)
    BY <1>8
  <2>2. node[1] \in Seq(Symbols) /\ at[n] \in SUBSET CallsOn(objs)
    BY <2>1 DEF Followed, NodesOn
  <2>3. IsPrefix(node[1], w)
    BY <1>10 DEF Means
  <2>4. PICK r \in Seq(Symbols) : r = After(node[1], w) /\ w = node[1] \o r
    BY <2>2, <2>3, PrefixSplits
  <2>5. PICK c \in at[n] : \E key \in DOMAIN c.object : c.spec = key \o r /\ node[2] = c.object[key]
    BY <2>1, <2>4 DEF Followed
  <2>6. PICK key \in DOMAIN c.object : c.spec = key \o r /\ node[2] = c.object[key]
    BY <2>5
  <2>7. key \in Seq(Symbols)
    BY <2>2 DEF CallsOn, Closed
  <2>8. IsPrefix(key, c.spec) /\ After(key, c.spec) = r
    <3>1. PICK p \in Seq(Symbols) : p = key
      BY <2>7
    <3>2. IsPrefix(p, p \o r) /\ After(p, p \o r) = r
      BY ConcatSplits
    <3> QED
      BY <2>6, <3>1, <3>2
  <2>9. HandleSeparator(node[2], r)
    BY <1>10, <2>4, ValueDecides DEF Means
  <2> QED
    BY <2>6, <2>8, <2>9 DEF Named, NameMatches
<1>11. MatchClaim(w, object) <=>
         \E n \in 0 .. N : \E c \in at[n] : \E key \in Named(c) :
            HandleSeparator(c.object[key], After(key, c.spec))
  BY <1>1, <1>2 DEF MatchClaim
<1>12. (\E node \in Nodes(Len(w)) : Means(w, node)) <=> \E n \in 0 .. N : \E node \in level[n] : Means(w, node)
  BY <1>1, <1>5
<1> QED
  BY <1>9, <1>10, <1>11, <1>12

\* The search ends: a call that is as deep as the word is long makes no other.
LEMMA SearchEnds ==
    ASSUME NEW objs, Closed(objs), NEW object \in objs, NEW w \in Seq(Symbols),
           Counting = {<<k, object[k]>> : k \in DOMAIN object}
    PROVE  \A call \in ClaimCalls(w, object)[Len(w)] : SeparatorDot(call) = {}
<1>1. PICK N \in Nat : N = Len(w)
  OBVIOUS
<1>2. PICK at : at = ClaimCalls(w, object)
  OBVIOUS
<1>3. Counting \in SUBSET NodesOn(objs)
  BY DEF NodesOn, MemberValues, Closed
<1>4. PICK level : IsLevels(level, N)
  BY <1>3, LevelsDefined
<1>5. PICK calls, nodes : calls = at[N] /\ nodes = level[N]
  OBVIOUS
<1>6. Followed(objs, w, calls, nodes, N)
  <2>1. \A n \in 0 .. Len(w) : Followed(objs, w, at[n], level[n], n)
    BY <1>1, <1>2, <1>4, AlwaysFollowed
  <2> QED
    BY <1>1, <1>5, <2>1
<1>7. Followed(objs, w, UNION {SeparatorDot(call) : call \in calls}, MembersOf(nodes), N + 1)
  BY <1>6, FollowedDeeper
<1>8. ASSUME NEW call \in calls, NEW x \in SeparatorDot(call) PROVE FALSE
  <2>1. x \in UNION {SeparatorDot(c) : c \in calls}
    OBVIOUS
  <2>2. x \in CallsOn(objs) /\ Len(x.spec) + (N + 1) <= Len(w)
    BY <1>7, <2>1 DEF Followed
  <2>3. x.spec \in Seq(Symbols)
    BY <2>2 DEF CallsOn
  <2>4. PICK l \in Nat : l = Len(x.spec)
    BY <2>3
  <2>5. l + (N + 1) <= N
    BY <1>1, <2>2, <2>4
  <2> QED
    BY <2>5
<1> QED
  BY <1>1, <1>2, <1>5, <1>8

-----------------------------------------------------------------------------
(* The verdict                                                               *)

\* The merged claims are the claims that count, and the objects of the
\* sources with the merged one lead nowhere else.
LEMMA MergedCounts ==
    ASSUME sources \in ClaimSources
    PROVE  /\ Counting = {<<k, MergeClaims[k]>> : k \in DOMAIN MergeClaims}
           /\ Closed(Objects \cup {MergeClaims})
<1> DEFINE first == sources.idToken
           second == sources.claims
           third == sources.scope
<1>1. first \in Objects /\ second \in Objects /\ third \in Objects
  BY AuthorizationAssumption
<1>2. Closed(Objects)
  BY AuthorizationAssumption DEF Closed
<1>3. MergeClaims = [k \in DOMAIN first \cup (DOMAIN second \cup DOMAIN third) |->
                        IF k \in DOMAIN first THEN first[k]
                        ELSE IF k \in DOMAIN second THEN second[k] ELSE third[k]]
  BY DEF MergeClaims, Merge
<1>4. PICK m : m = MergeClaims
  OBVIOUS
<1>5. PICK a, b, c : a = first /\ b = second /\ c = third
  OBVIOUS
<1>6. /\ DOMAIN m = DOMAIN a \cup DOMAIN b \cup DOMAIN c
      /\ \A k \in DOMAIN a : m[k] = a[k]
      /\ \A k \in DOMAIN b \ DOMAIN a : m[k] = b[k]
      /\ \A k \in DOMAIN c \ (DOMAIN b \cup DOMAIN a) : m[k] = c[k]
  BY <1>3, <1>4, <1>5
<1>7. Counting = {<<k, a[k]>> : k \in DOMAIN a}
                 \cup {<<k, b[k]>> : k \in DOMAIN b \ DOMAIN a}
                 \cup {<<k, c[k]>> : k \in DOMAIN c \ (DOMAIN b \cup DOMAIN a)}
  BY <1>5 DEF Counting
<1>8. Counting = {<<k, m[k]>> : k \in DOMAIN m}
  <2>1. {<<k, a[k]>> : k \in DOMAIN a} = {<<k, m[k]>> : k \in DOMAIN a}
    BY <1>6
  <2>2. {<<k, b[k]>> : k \in DOMAIN b \ DOMAIN a} = {<<k, m[k]>> : k \in DOMAIN b \ DOMAIN a}
    BY <1>6
  <2>3. {<<k, c[k]>> : k \in DOMAIN c \ (DOMAIN b \cup DOMAIN a)}
          = {<<k, m[k]>> : k \in DOMAIN c \ (DOMAIN b \cup DOMAIN a)}
    BY <1>6
  <2>4. {<<k, m[k]>> : k \in DOMAIN m}
          = {<<k, m[k]>> : k \in DOMAIN a}
            \cup {<<k, m[k]>> : k \in DOMAIN b \ DOMAIN a}
            \cup {<<k, m[k]>> : k \in DOMAIN c \ (DOMAIN b \cup DOMAIN a)}
    BY <1>6
  <2> QED
    BY <1>7, <2>1, <2>2, <2>3, <2>4
<1>9. \A k \in DOMAIN m : \E o \in Objects : k \in DOMAIN o /\ m[k] = o[k]
  BY <1>1, <1>5, <1>6
<1>10. Closed(Objects \cup {m})
  <2>1. DOMAIN m \subseteq Seq(Symbols)
    BY <1>2, <1>9 DEF Closed
  <2>2. ASSUME NEW k \in DOMAIN m, Is("object", m[k]) PROVE m[k].object \in Objects
    BY <1>2, <1>9, <2>2 DEF Closed
  <2> QED
    BY <1>2, <2>1, <2>2 DEF Closed
<1> QED
  BY <1>4, <1>8, <1>10

\* The words of a directive are words.
LEMMA DirectiveWords ==
    ASSUME NEW words \in Directives, NEW i \in DOMAIN words
    PROVE  words[i] \in Seq(Symbols)
BY AuthorizationAssumption

\* What oidc_authz_24_worker answers for the words of a directive.
LEMMA WorkerMeans ==
    ASSUME sources \in ClaimSources, NEW words \in Directives
    PROVE  (Worker(words) = "GRANTED") <=>
             /\ sources.user
             /\ \E i \in DOMAIN words :
                  /\ \A j \in 1 .. i : words[j] # <<>>
                  /\ \E node \in Nodes(Len(words[i])) : Means(words[i], node)
<1>1. PICK m : m = MergeClaims
  OBVIOUS
<1>2. Counting = {<<k, m[k]>> : k \in DOMAIN m} /\ Closed(Objects \cup {m})
  BY <1>1, MergedCounts
<1>3. ASSUME NEW i \in DOMAIN words
      PROVE  MatchClaim(words[i], m) <=> \E node \in Nodes(Len(words[i])) : Means(words[i], node)
  <2>1. PICK w \in Seq(Symbols) : w = words[i]
    BY DirectiveWords
  <2>2. PICK objs : objs = Objects \cup {m}
    OBVIOUS
  <2>3. Closed(objs) /\ m \in objs
    BY <1>2, <2>2
  <2>4. MatchClaim(w, m) <=> \E node \in Nodes(Len(w)) : Means(w, node)
    BY <1>2, <2>3, SearchMeans
  <2> QED
    BY <2>1, <2>4
<1>4. (Worker(words) = "GRANTED") <=>
        /\ sources.user
        /\ \E i \in DOMAIN words : (\A j \in 1 .. i : words[j] # <<>>) /\ MatchClaim(words[i], m)
  BY <1>1 DEF Worker
<1> QED
  BY <1>3, <1>4

\* However deep the claims of a user are nested, oidc_authz_match_claim calls
\* itself at most as often in a row as the word of the directive has
\* characters: each call through oidc_authz_separator_dot has used up a dot
\* of it.
THEOREM RecursionFollowsTheWord ==
    ASSUME sources \in ClaimSources, NEW words \in Directives, NEW i \in DOMAIN words
    PROVE  \A call \in ClaimCalls(words[i], MergeClaims)[Len(words[i])] : SeparatorDot(call) = {}
<1>1. PICK m : m = MergeClaims
  OBVIOUS
<1>2. PICK w \in Seq(Symbols) : w = words[i]
  BY DirectiveWords
<1>3. PICK objs : objs = Objects \cup {m}
  OBVIOUS
<1>4. Counting = {<<k, m[k]>> : k \in DOMAIN m} /\ Closed(objs) /\ m \in objs
  BY <1>1, <1>3, MergedCounts
<1>5. \A call \in ClaimCalls(w, m)[Len(w)] : SeparatorDot(call) = {}
  BY <1>4, SearchEnds
<1> QED
  BY <1>1, <1>2, <1>5

\* What is kept: the sources are some of the sources.
AuthzInv == sources \in ClaimSources /\ AccessByClaim

\* Whatever the claims, however deep they are nested and whatever separators
\* their names contain, "Require claim" (oidc_authz_24_worker with
\* oidc_authz_match_claim, src/handle/authz.c) grants access if and only if
\* a word of the directive describes a claim that counts: the comparison of
\* the names with the word as it goes, without parsing it, neither misses a
\* path nor finds one that is not there.
THEOREM AccessAlwaysByClaim == AuthzSpec => []AccessByClaim
<1>1. AuthzInit => AuthzInv
  BY DEF AuthzInit, AuthzInv, AccessByClaim
<1>2. AuthzInv /\ [AuthzNext]_authzVars => AuthzInv'
  <2> SUFFICES ASSUME AuthzInv, [AuthzNext]_authzVars PROVE AuthzInv'
    OBVIOUS
  <2>1. CASE Require
    <3>1. sources' = sources /\ directive' \in Directives /\ verdict' = Worker(directive')
      BY <2>1 DEF Require
    <3>2. sources \in ClaimSources
      BY DEF AuthzInv
    <3>3. (verdict' = "GRANTED") <=>
             /\ sources.user
             /\ \E i \in DOMAIN directive' :
                  /\ \A j \in 1 .. i : directive'[j] # <<>>
                  /\ \E node \in Nodes(Len(directive'[i])) : Means(directive'[i], node)
      BY <3>1, <3>2, WorkerMeans
    <3>4. Counting' = Counting
      BY <3>1 DEF Counting
    <3> QED
      BY <3>1, <3>2, <3>3, <3>4 DEF AuthzInv, AccessByClaim, Nodes
  <2>2. CASE UNCHANGED authzVars
    <3>1. Counting' = Counting
      BY <2>2 DEF authzVars, Counting
    <3> QED
      BY <2>2, <3>1 DEF authzVars, AuthzInv, AccessByClaim, Nodes
  <2> QED
    BY <2>1, <2>2 DEF AuthzNext
<1>3. AuthzInv => AccessByClaim
  BY DEF AuthzInv
<1> QED
  BY <1>1, <1>2, <1>3, PTL DEF AuthzSpec
=============================================================================
