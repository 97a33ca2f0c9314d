----------------------------- MODULE MCRequests -----------------------------
(* The components that handle requests, in one instance.  They share no    *)
(* state here, so that a behaviour is one of the component `part`, and the *)
(* others stay in one of their initial states.                             *)
EXTENDS Gateway, SessionTokens, OAuthTokens, LoginExchange, LogoutToken, ChunkedCookie,
        KeyRollover, RefreshGrant, TLC

CONSTANTS c1, c2, c3

VARIABLE part

OneMachine == [c \in Callers |-> "m1"]

(* OIDCOAuthTokenIntrospectionInterval: never, always, or after a second. *)
DirIntervals == {-1, 0, 1}

Rfc7662 == [custom |-> FALSE, relative |-> FALSE, mandatory |-> FALSE]

(* The settings of LoginExchange: what constrains a token, combined with   *)
(* each other, and what a response must look like, likewise.               *)
Base ==
    [rtype |-> {"code"}, profile |-> "oidc10", parsed |-> TRUE, certBound |-> "auto", cert |-> FALSE,
     advertised |-> FALSE, dpopMode |-> "off", dpopSupported |-> TRUE, auth |-> "client_secret_basic",
     secret |-> TRUE, keys |-> TRUE, pkce |-> "S256", requireIss |-> FALSE, mode |-> "unset",
     auds |-> NoList, pinned |-> FALSE, userinfo |-> TRUE]

Binding ==
    {[Base EXCEPT !.profile = pr, !.parsed = pa, !.certBound = cb, !.cert = ce, !.advertised = ad,
                  !.dpopMode = dm, !.dpopSupported = ds, !.auth = au, !.keys = ke] :
        pr \in {"oidc10", "fapi20"}, pa \in BOOLEAN, cb \in {"off", "auto", "on"}, ce \in BOOLEAN,
        ad \in BOOLEAN, dm \in {"off", "optional", "required"}, ds \in BOOLEAN,
        au \in {"client_secret_basic", "private_key_jwt", "tls_client_auth"}, ke \in BOOLEAN}

Responses ==
    {[Base EXCEPT !.rtype = rt, !.pkce = pk, !.mode = mo, !.requireIss = ri, !.auds = au, !.pinned = pi,
                  !.userinfo = ui] :
        rt \in ResponseTypes, pk \in {"none", "S256"}, mo \in {"unset", "form_post"}, ri \in BOOLEAN,
        au \in {NoList, {"client"}, {"client", "known"}}, pi \in BOOLEAN, ui \in BOOLEAN}

BothLogins == Binding \cup Responses

PlainGateway ==
    [auth |-> "openid-connect", unauth |-> "auth", unautz |-> "401", prefix |-> "oidc",
     require |-> "valid-user", discovery |-> FALSE]

Parts == {"gateway", "tokens", "oauth", "login", "logout", "jar", "keys", "refresh"}

RequestsInit ==
    /\ part \in Parts
    /\ part # "gateway" => gconf = PlainGateway
    /\ part # "oauth" => modes = {"introspect"} /\ claim = Rfc7662
    /\ part # "login" => ls = Base
    /\ part # "logout" => iat = [t \in LogoutTokens |-> 0]
    /\ part # "refresh" => valid = AccessTTL
    /\ GatewayInit /\ SessionTokensInit /\ OAuthInit /\ LoginInit /\ LogoutInit /\ JarInit
    /\ KeyInit /\ Init
    \* The audience concerns JWTs only, the expiry claim introspection only; an
    \* absolute, optional claim is treated as that of RFC 7662.
    /\ claim.custom => claim.relative \/ claim.mandatory
    /\ modes = {"introspect"} => bearer.aud = {}
    /\ modes # {"introspect"} => claim = [custom |-> TRUE, relative |-> TRUE, mandatory |-> TRUE]

RequestsNext ==
    \/ /\ part = "gateway" /\ GatewayNext
       /\ UNCHANGED <<part, tokenVars, oauthVars, loginVars, logoutVars, jarVars, keyVars, vars>>
    \/ /\ part = "tokens" /\ SessionTokensNext
       /\ UNCHANGED <<part, gatewayVars, oauthVars, loginVars, logoutVars, jarVars, keyVars, vars>>
    \/ /\ part = "oauth" /\ OAuthNext
       /\ UNCHANGED <<part, gatewayVars, tokenVars, loginVars, logoutVars, jarVars, keyVars, vars>>
    \/ /\ part = "login" /\ LoginNext
       /\ UNCHANGED <<part, gatewayVars, tokenVars, oauthVars, logoutVars, jarVars, keyVars, vars>>
    \/ /\ part = "logout" /\ LogoutNext
       /\ UNCHANGED <<part, gatewayVars, tokenVars, oauthVars, loginVars, jarVars, keyVars, vars>>
    \/ /\ part = "jar" /\ JarNext
       /\ UNCHANGED <<part, gatewayVars, tokenVars, oauthVars, loginVars, logoutVars, keyVars, vars>>
    \/ /\ part = "keys" /\ KeyNext
       /\ UNCHANGED <<part, gatewayVars, tokenVars, oauthVars, loginVars, logoutVars, jarVars, vars>>
    \/ /\ part = "refresh" /\ Next
       /\ UNCHANGED <<part, gatewayVars, tokenVars, oauthVars, loginVars, logoutVars, jarVars, keyVars>>

RequestsSpec ==
    RequestsInit
    /\ [][RequestsNext]_<<part, gatewayVars, tokenVars, oauthVars, loginVars, logoutVars, jarVars,
                          keyVars, vars>>

(* The requests, deliveries and verifiers are interchangeable. *)
Symmetric == Permutations(SessionRequests)
=============================================================================
