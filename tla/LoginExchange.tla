---------------------------- MODULE LoginExchange ----------------------------
(***************************************************************************)
(* The protocol side of one login: the authorization request, the          *)
(* authorization response that the browser brings, the exchange of its     *)
(* code at the token endpoint, and the validation of the ID token, in the  *)
(* order of the six response types, down to the parameters that end up in  *)
(* the session (module AuthnFlow has the state cookies around it).         *)
(*                                                                         *)
(* A code or a token is "op" when the OP made it for this login and        *)
(* "other" when it comes from anywhere else: another login, another        *)
(* client, or the imagination of whoever composed the response.  The OP    *)
(* itself follows the specifications; it is external.                      *)
(***************************************************************************)
EXTENDS FiniteSets, Naturals

CONSTANTS LoginSettings     \* settings of the provider that are explored

Params == {"code", "id_token", "access_token", "token_type", "refresh_token", "scope"}
ResponseTypes == {{"code"}, {"id_token"}, {"id_token", "token"}, {"code", "id_token"},
                  {"code", "token"}, {"code", "id_token", "token"}}
AuthMethods == {"unset", "client_secret_basic", "private_key_jwt", "tls_client_auth", "none"}
NoList == {"*"}

\* parsed: the OP's metadata was parsed into the provider, not configured by
\* hand; certBound: OIDCCertBoundAccessTokens; auds: the configured audiences;
\* userinfo: the provider has a userinfo endpoint.
SettingsSpace ==
    [rtype : ResponseTypes, profile : {"oidc10", "fapi20"}, parsed : BOOLEAN,
     certBound : {"off", "auto", "on"}, cert : BOOLEAN, advertised : BOOLEAN,
     dpopMode : {"off", "optional", "required"}, dpopSupported : BOOLEAN,
     auth : AuthMethods, secret : BOOLEAN, keys : BOOLEAN, pkce : {"none", "plain", "S256"},
     requireIss : BOOLEAN, mode : {"unset", "form_post"}, auds : SUBSET {"client", "known", "*"},
     pinned : BOOLEAN, userinfo : BOOLEAN]

ASSUME LoginAssumption == LoginSettings \subseteq SettingsSpace

VARIABLES ls,       \* the settings
          lg        \* the login

loginVars == <<ls, lg>>

LoginSteps == {"start", "sent", "idtoken", "resolve", "retry", "done", "failed"}

\* params: where the parameters come from; challenge: the PKCE challenge was
\* sent; verifier: the state cookie holds its verifier; honest: nobody has
\* interfered and no credential is missing; bound: how the access token is
\* bound to the client; backed: it comes from the token endpoint.
LoginTypeOK ==
    /\ ls \in LoginSettings
    /\ lg \in [pc : LoginSteps, params : [Params -> {"none", "op", "other"}],
               challenge : BOOLEAN, verifier : BOOLEAN, honest : BOOLEAN,
               nonced : BOOLEAN, bound : SUBSET {"dpop", "mtls"}, backed : BOOLEAN]

NoParams == [x \in Params |-> "none"]
NewLogin == [pc |-> "start", params |-> NoParams, challenge |-> FALSE, verifier |-> FALSE,
             honest |-> TRUE, nonced |-> FALSE, bound |-> {}, backed |-> FALSE]

LoginInit == ls \in LoginSettings /\ lg = NewLogin

Fails(st) == [NewLogin EXCEPT !.pc = "failed", !.honest = st.honest]
Has(x) == x \in ls.rtype

-----------------------------------------------------------------------------
(* The profiles (proto/profile.c) and the metadata's part in them            *)

Mtls == ls.auth = "tls_client_auth"

(* oidc_metadata_cert_bound_tokens_enabled, with the mode of the directive   *)
(* or, when that is auto, of the profile.                                    *)
BoundByMetadata ==
    \/ Mtls
    \/ /\ ls.cert /\ ls.certBound # "off"
       /\ ls.certBound = "on" \/ ls.profile = "fapi20" \/ ls.advertised

(* The mode that oidc_metadata_provider_parse leaves in the provider.        *)
CertBound == IF ls.parsed THEN (IF BoundByMetadata THEN "on" ELSE "off") ELSE ls.certBound

(* oidc_proto_profile_dpop_mode_get: FAPI 2.0 requires DPoP unless the       *)
(* tokens are bound to the certificate and the OP does not have DPoP.        *)
DpopModeConfigured == ls.dpopMode

DpopMode ==
    IF ls.profile = "oidc10" THEN ls.dpopMode
    ELSE IF /\ CertBound = "on" \/ (CertBound = "auto" /\ ls.cert)
            /\ ~(ls.parsed /\ ls.dpopSupported)
           THEN ls.dpopMode ELSE "required"

(* oidc_proto_profile_pkce_get *)
Pkce == IF ls.profile = "fapi20" THEN "S256" ELSE ls.pkce

(* oidc_proto_profile_response_require_iss_get *)
RequireIss == ls.profile = "fapi20" \/ ls.requireIss

-----------------------------------------------------------------------------
(* The authorization request                                                *)

(* The methods of proto/auth.c: a shared secret, or a key of the client's.   *)
SecretAuth == IF ls.secret THEN "confidential" ELSE "public"
PrivateKeyAuth == IF ls.keys THEN "confidential" ELSE "error"

(* oidc_proto_token_endpoint_auth: without a method it is the secret, and    *)
(* without that the client is public.                                        *)
ClientAuth ==
    CASE ls.auth \in {"unset", "client_secret_basic"} -> SecretAuth
      [] ls.auth = "none" -> "public"
      [] ls.auth = "tls_client_auth" -> IF ls.cert THEN "confidential" ELSE "public"
      [] ls.auth = "private_key_jwt" -> PrivateKeyAuth

(* oidc_request_authenticate_user, oidc_proto_request_auth_params_set: a     *)
(* nonce always, a PKCE challenge with every response type that has a code.  *)
(* oidc_proto_request_auth_push: a pushed request needs the client's         *)
(* credentials.                                                              *)
AuthRequestPlainCode ==
    /\ lg.pc = "start"
    /\ LET pkce == ls.rtype = {"code"} /\ Pkce # "none" IN
       lg' = IF ls.profile = "fapi20" /\ ClientAuth = "error" THEN Fails([lg EXCEPT !.honest = FALSE])
             ELSE [lg EXCEPT !.pc = "sent", !.nonced = TRUE,
                             !.challenge = Has("code") /\ Pkce # "none", !.verifier = pkce]
    /\ UNCHANGED ls

AuthRequest ==
    /\ lg.pc = "start"
    /\ LET pkce == Has("code") /\ Pkce # "none" IN
       lg' = IF ls.profile = "fapi20" /\ ClientAuth = "error" THEN Fails([lg EXCEPT !.honest = FALSE])
             ELSE [lg EXCEPT !.pc = "sent", !.nonced = TRUE,
                             !.challenge = pkce, !.verifier = pkce]
    /\ UNCHANGED ls

-----------------------------------------------------------------------------
(* The authorization response                                               *)

(* oidc_proto_validate_response_type: the parameters are those that were     *)
(* asked for.                                                                *)
TypeFits(front) ==
    /\ (front["code"] # "none") = Has("code")
    /\ (front["id_token"] # "none") = Has("id_token")
    /\ (front["access_token"] # "none") = Has("token")

(* oidc_proto_validate_response_mode *)
DefaultMode == IF ls.rtype = {"code"} THEN "query" ELSE "fragment"
ModeFits(mode) == mode = (IF ls.mode = "unset" THEN DefaultMode ELSE ls.mode)

(* oidc_proto_validate_issuer_client_id *)
IssuerFits(iss, clientId) ==
    /\ iss = "op" \/ (iss = "none" /\ ~RequireIss)
    /\ clientId # "other"

(* oidc_proto_response_strip_params: what the browser may not bring.         *)
StripRefreshKept(front) ==
    [x \in Params |->
        IF \/ x = "refresh_token" /\ ls.rtype # {"code", "token"}
           \/ x = "scope" /\ ls.rtype \notin {{"id_token"}, {"id_token", "token"}}
           \/ x = "id_token" /\ ls.rtype \in {{"code"}, {"code", "token"}}
           \/ x = "access_token" /\ ls.rtype \in {{"code"}, {"code", "id_token"}}
           \/ x = "token_type" /\ ~Has("token")
        THEN "none" ELSE front[x]]

StripParams(front) ==
    [x \in Params |->
        IF \/ x = "refresh_token"
           \/ x = "scope" /\ ls.rtype \notin {{"id_token"}, {"id_token", "token"}}
           \/ x = "id_token" /\ ls.rtype \in {{"code"}, {"code", "token"}}
           \/ x = "access_token" /\ ls.rtype \in {{"code"}, {"code", "id_token"}}
           \/ x = "token_type" /\ ~Has("token")
        THEN "none" ELSE front[x]]

(* What a browser may bring: what the OP sent, or anything else.             *)
HonestFront ==
    [x \in Params |-> CASE x \in {"refresh_token", "scope"} -> "none"
                        [] x \in {"access_token", "token_type"} -> IF Has("token") THEN "op" ELSE "none"
                        [] OTHER -> IF Has(x) THEN "op" ELSE "none"]

Fronts == {f \in [Params -> {"none", "op", "other"}] :
              /\ f["refresh_token"] # "op" /\ f["scope"] # "op"
              /\ f["token_type"] = f["access_token"]}

(* oidc_proto_response_code, _code_token: the code is resolved.              *)
CodeFlow(st, front) == [st EXCEPT !.pc = "resolve", !.params = StripParams(front)]

(* oidc_proto_response_idtoken, _idtoken_token and the hybrid flows with an  *)
(* ID token: it comes first.                                                 *)
IdTokenFlow(st, front) == [st EXCEPT !.pc = "idtoken", !.params = front]

(* oidc_proto_validate_response_type_mode_issuer, then the flow.             *)
Responded(front, fits) ==
    LET st == [lg EXCEPT !.honest = @ /\ front = HonestFront /\ fits]
    IN  IF ~(fits /\ TypeFits(front)) THEN Fails(st)
        ELSE IF Has("id_token") THEN IdTokenFlow(st, front) ELSE CodeFlow(st, front)

AuthResponse ==
    /\ lg.pc = "sent"
    /\ \E iss \in {"none", "op", "other"}, clientId \in {"none", "other"},
          mode \in {"query", "fragment", "form_post"} :
         lg' \in {Responded(front, IssuerFits(iss, clientId) /\ ModeFits(mode)) : front \in Fronts}
    /\ UNCHANGED ls

-----------------------------------------------------------------------------
(* The ID token                                                             *)

(* A token of this login: signed, or not when it comes from the token        *)
(* endpoint; its hashes are of this login's code and access token.           *)
OurTokens ==
    {t \in [sig : {"op", "none"}, nonce : {"op"}, current : {TRUE},
            aud : SUBSET {"client", "known"}, array : BOOLEAN, azp : {"none", "client"},
            c_hash : {"none", "op"}, at_hash : {"none", "op"}] :
        /\ Has("id_token") => /\ t.sig = "op"
                              /\ Has("code") => t.c_hash = "op"
                              /\ Has("token") => t.at_hash = "op"
        /\ ~Has("code") => t.c_hash = "none"
        /\ t.sig = "none" => ~ls.pinned
        /\ t.aud = (IF NoList = ls.auds THEN {"client"} ELSE ls.auds)
        /\ ~t.array => Cardinality(t.aud) = 1}

(* Any other token.  What the OP made, be it signed or handed out at the     *)
(* token endpoint, has our nonce only if it belongs to this login.           *)
OtherTokens ==
    {t \in [sig : {"op", "none", "forged"}, nonce : {"none", "op", "other"}, current : BOOLEAN,
            aud : {{"client"}, {"known"}, {"client", "known"}, {"client", "unknown"}},
            array : {TRUE}, azp : {"none", "client", "other"},
            c_hash : {"none", "op", "other"}, at_hash : {"none", "op", "other"}] :
        t.sig = "op" \/ ~Has("id_token") => t.nonce # "op"}

(* oidc_proto_idtoken_parse: only in the code flow may a token be unsigned,  *)
(* and not when an algorithm is configured.                                  *)
SignatureOk(t) == t.sig = "op" \/ (t.sig = "none" /\ ~Has("id_token") /\ ~ls.pinned)

(* oidc_proto_idtoken_validate_aud_and_azp *)
AudienceOk(t) ==
    /\ t.azp # "other"
    /\ IF ls.auds = NoList THEN "client" \in t.aud
       ELSE IF t.array THEN ls.auds \subseteq t.aud /\ Cardinality(t.aud) <= Cardinality(ls.auds)
       ELSE t.aud \subseteq ls.auds

(* oidc_proto_validate_hash_value: absent only where it is not required.     *)
HashOk(hash, value, required) == IF hash = "none" THEN ~required ELSE hash = value

(* oidc_proto_idtoken_validate_code, _validate_access_token: c_hash not in   *)
(* "code token", at_hash also with the access token of the code flow.        *)
HashesOk(t, params) ==
    /\ ls.rtype # {"code", "token"}
          => HashOk(t.c_hash, params["code"], Has("code") /\ Has("id_token"))
    /\ ((Has("id_token") /\ Has("token")) \/ (ls.rtype = {"code"} /\ params["access_token"] # "none"))
          => HashOk(t.at_hash, params["access_token"], Has("id_token"))

(* oidc_proto_validate_idtoken *)
IdTokenOk(t, params) ==
    /\ SignatureOk(t)
    /\ lg.nonced => t.nonce = "op"
    /\ t.current
    /\ AudienceOk(t)
    /\ HashesOk(t, params)

AfterIdToken(t) ==
    IF ~IdTokenOk(t, lg.params) THEN Fails(lg)
    ELSE IF ~Has("id_token") THEN [lg EXCEPT !.pc = "done"]
    ELSE [lg EXCEPT !.pc = IF Has("code") THEN "resolve" ELSE "done", !.params = StripParams(lg.params)]

IdToken ==
    /\ lg.pc = "idtoken"
    /\ lg' \in {AfterIdToken(t) : t \in IF lg.params["id_token"] = "op" THEN OurTokens ELSE OtherTokens}
    /\ UNCHANGED ls

-----------------------------------------------------------------------------
(* The token endpoint                                                       *)

(* oidc_proto_token_endpoint_dpop_prepare: without a key there is no proof.  *)
Proof == DpopMode # "off" /\ ls.keys
CannotAsk == ClientAuth = "error" \/ (DpopMode = "required" /\ ~ls.keys)

(* The OP redeems a code for the client and the verifier that it was issued  *)
(* to.  Without PKCE it gives the tokens of another login for its code.      *)
Redeems == lg.params["code"] = "op" \/ ~lg.challenge
VerifierOk == lg.challenge => lg.verifier

(* The OP issues DPoP tokens for a proof if it knows DPoP, or tokens of a    *)
(* type that the module does not know; it may leave each parameter out.      *)
OpType == IF Proof /\ ls.dpopSupported THEN "dpop" ELSE "bearer"
TokenResponses == [id_token : BOOLEAN, access_token : BOOLEAN, type : {OpType, "other", "none"},
                   refresh_token : BOOLEAN]

\* What the specifications ask of it, where it has what the client requires.
Conforming(resp) ==
    /\ resp.id_token /\ resp.access_token /\ resp.type = OpType
    /\ DpopMode = "required" => ls.dpopSupported

(* oidc_proto_token_endpoint_response_parse: another type than DPoP is an    *)
(* error where that is required ...                                          *)
TypeOk(resp) == DpopMode = "required" => resp.type = "dpop"

(* ... and a token of an unknown type is dropped where there is a userinfo   *)
(* endpoint to present it at, and the login goes on.                         *)
Parsed(resp) ==
    IF resp.type = "other" /\ ls.userinfo
      THEN [resp EXCEPT !.access_token = FALSE, !.type = "none"] ELSE resp

(* oidc_proto_validate_code_response: what the front channel did not bring.  *)
CodeResponseFits(resp) ==
    /\ Has("id_token") \/ resp.id_token
    /\ Has("token") \/ (resp.access_token /\ resp.type # "none")

(* oidc_proto_resolve_code_and_validate_response: the parameters that the    *)
(* token response adds or replaces.                                          *)
Resolved(resp) ==
    LET origin == lg.params["code"]
        params == [lg.params EXCEPT
                     !["id_token"] = IF @ = "none" /\ resp.id_token THEN origin ELSE @,
                     !["access_token"] = IF resp.access_token THEN origin ELSE @,
                     !["token_type"] = IF resp.access_token /\ resp.type # "none" THEN origin ELSE @,
                     !["refresh_token"] = IF resp.refresh_token THEN origin ELSE @]
        bound == (IF resp.type = "dpop" THEN {"dpop"} ELSE {}) \cup (IF ls.cert THEN {"mtls"} ELSE {})
    IN  [lg EXCEPT !.pc = IF Has("id_token") THEN "done" ELSE "idtoken", !.params = params,
                   !.bound = IF resp.access_token THEN bound ELSE {}, !.backed = resp.access_token]

(* oidc_proto_token_endpoint_request: any error of the OP ends the login but *)
(* use_dpop_nonce, which is answered once.                                   *)

ResolveCode ==
    /\ lg.pc \in {"resolve", "retry"}
    /\ \/ /\ CannotAsk
          /\ lg' = Fails([lg EXCEPT !.honest = FALSE])
       \/ /\ ~CannotAsk /\ Redeems /\ VerifierOk
          /\ \E resp \in TokenResponses :
               lg' = IF TypeOk(resp) /\ CodeResponseFits(Parsed(resp)) THEN Resolved(Parsed(resp))
                     ELSE Fails([lg EXCEPT !.honest = @ /\ Conforming(resp)])
       \/ /\ ~CannotAsk /\ ~(Redeems /\ VerifierOk)
          /\ lg' = Fails(lg)
       \/ /\ ~CannotAsk /\ lg.pc = "resolve" /\ Proof
          /\ lg' = [lg EXCEPT !.pc = "retry"]
    /\ UNCHANGED ls

LoginAgain ==
    /\ lg.pc \in {"done", "failed"}
    /\ lg' = NewLogin
    /\ UNCHANGED ls

LoginNext == AuthRequest \/ AuthResponse \/ IdToken \/ ResolveCode \/ LoginAgain

LoginSpec == LoginInit /\ [][LoginNext]_loginVars

-----------------------------------------------------------------------------
(* Properties                                                               *)

\* Whatever the browser brings, the ID token, the access token and the
\* refresh token that go into the session are those that the OP issued for
\* this very login: neither the code nor a token of someone else gets in,
\* with any of the six response types and with or without PKCE.  The one
\* exception is the access token of "code token", which nothing vouches for:
\* it stays when the token endpoint gives none, or one of a type that
\* oidc_proto_token_endpoint_response_parse drops.
LoginIsOurs ==
    lg.pc = "done" =>
        /\ lg.params["id_token"] = "op" /\ lg.params["refresh_token"] \in {"none", "op"}
        /\ \/ lg.params["access_token"] \in {"none", "op"}
           \/ ls.rtype = {"code", "token"} /\ ~lg.backed

\* A login that nobody interferes with succeeds with every combination of
\* settings that has the credentials it needs: no check refuses what another
\* part of the module asked the OP for.
HonestSucceeds == lg.pc = "failed" => ~lg.honest

\* auth_openidc.conf: "Under OIDCProfile "FAPI20" access tokens are
\* sender-constrained through either mutual-TLS or DPoP".  So they are where
\* there is a client certificate, or where the binding was resolved from the
\* OP's metadata and the client does not claim to have one (tls_client_auth):
\* no other combination of directives, metadata and credentials gives a FAPI
\* 2.0 login an access token that anyone may use.
ResolvedConstrained ==
    /\ ls.cert \/ (ls.parsed /\ ~Mtls)
    /\ lg.pc = "done" /\ ls.profile = "fapi20" /\ ls.rtype = {"code"}
    => lg.bound # {}

\* Who logs in, and with which tokens, was decided by this client's OP
\* under the constraints that the profile asks for.
LoginSound == LoginIsOurs /\ ResolvedConstrained
=============================================================================
