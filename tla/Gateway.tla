------------------------------- MODULE Gateway -------------------------------
(***************************************************************************)
(* One HTTP request on its way through the hooks that the module has in    *)
(* the server: authentication (oidc_check_user_id), authorization          *)
(* (oidc_authz_24_checker), the content handler, and, when none of them    *)
(* answers, the application, which may make a sub-request or an internal   *)
(* redirect.  What the hooks hand to each other is r->user, the request    *)
(* headers and the request state; a hook that returns OK promises that a   *)
(* later one goes on with it.                                              *)
(*                                                                         *)
(* Header names fall in classes: "oidc" begins with OIDC_, "claim" has the *)
(* configured OIDCClaimPrefix, "listed" is a white-listed claim, "authn"   *)
(* is OIDCAuthNHeader, "other" is everything else.  The client may send    *)
(* any of them.  What the OP or the token endpoint would say, and what is  *)
(* in the session, is chosen where the code asks for it.                   *)
(***************************************************************************)
EXTENDS FiniteSets, Naturals

VARIABLES gconf,    \* the configuration that applies to the request
          q         \* the request

gatewayVars == <<gconf, q>>

HeaderClasses == {"oidc", "claim", "listed", "authn", "other"}
AuthTypes == {"none", "openid-connect", "oauth20", "auth-openidc"}

\* Parameters of the redirect URI, in the order of the dispatch table; "code"
\* stands for an authorization response in the query, "none" for no parameter
\* and "error" and "junk" for what the table does not know.
Hooks == {"code", "logout", "disc", "jwks", "session", "refresh", "request_uri",
          "remove_at_cache", "revoke_session", "dpop", "info", "none", "error", "junk"}

\* What a page of the module is kept under in the request state.
PageKeys == {"DISCOVERY", "AUTHN_POST", "AUTHN_PRESERVE", "HTTP", "HTML"}

\* r->user: none, the empty string, or the name from a session or a token.
Users == {"NULL", "empty", "session", "token"}

Phases == {"receive", "authn", "authz", "content", "app", "done"}

GatewayTypeOK ==
    /\ gconf \in [auth : AuthTypes, unauth : {"auth", "pass", "401"},
                  unautz : {"401", "auth"}, prefix : {"oidc", "claim", "listed"},
                  require : {"valid-user", "claim"}, discovery : BOOLEAN]
    /\ q \in [phase : Phases, redirect : BOOLEAN, hook : Hooks,
              method : {"GET", "POST", "OPTIONS"}, capable : BOOLEAN, bearer : BOOLEAN,
              user : Users, hdr : [HeaderClasses -> {"client", "absent", "module"}],
              cookies : BOOLEAN, rs : SUBSET (PageKeys \cup {"claims"}),
              rc : {"none", "OK", "DECLINED", "reply"},
              basis : {"none", "checked", "unchecked"}, sub : BOOLEAN,
              mainUser : Users]

\* cookies: the cookies that OIDCStripCookies names are still there; basis:
\* whether the session or token behind r->user passed its checks.
NewRequest == [phase |-> "receive", redirect |-> FALSE, hook |-> "none",
               method |-> "GET", capable |-> TRUE, bearer |-> FALSE, user |-> "NULL",
               hdr |-> [h \in HeaderClasses |-> "client"], cookies |-> TRUE,
               rs |-> {}, rc |-> "none", basis |-> "none", sub |-> FALSE,
               mainUser |-> "NULL"]

GatewayInit ==
    /\ gconf \in [auth : AuthTypes, unauth : {"auth", "pass", "401"},
                  unautz : {"401", "auth"}, prefix : {"oidc", "claim", "listed"},
                  require : {"valid-user", "claim"}, discovery : BOOLEAN]
    /\ q = NewRequest

-----------------------------------------------------------------------------
(* Headers and cookies                                                      *)

(* oidc_scrub_headers: the OIDC_ headers and OIDCAuthNHeader always, and     *)
(* what the claims go into: their prefix, or the white list without one.     *)
ScrubbedClasses == {"oidc", "authn", gconf.prefix}

ScrubbedOidcOnly(r) == [r EXCEPT !.hdr = [h \in HeaderClasses |->
                            IF h \in {"oidc", "authn"} THEN "absent" ELSE r.hdr[h]]]

Scrubbed(r) == [r EXCEPT !.hdr = [h \in HeaderClasses |->
                            IF h \in ScrubbedClasses THEN "absent" ELSE r.hdr[h]]]

(* oidc_strip_cookies *)
Stripped(r) == [r EXCEPT !.cookies = FALSE]

(* oidc_util_appinfo_set: headers of these classes are the module's.  Which  *)
(* of them are set when information goes into the environment is left out.   *)
AppInfoSet(r, classes) == [r EXCEPT !.hdr = [h \in HeaderClasses |->
                            IF h \in classes THEN "module" ELSE r.hdr[h]]]

(* oidc_set_app_claims, oidc_util_appinfo_set_all: the claims in headers.    *)
SetAppClaims(r) == AppInfoSet(r, {gconf.prefix})

(* oidc_session_pass_tokens: the tokens, in headers that begin with OIDC_.   *)
SessionPassTokens(r) == AppInfoSet(r, {"oidc"})

(* oidc_idtoken_pass_as, oidc_userinfo_pass_as: as claims, or in one header. *)
IdTokenPassAs(r) == SetAppClaims(AppInfoSet(r, {"oidc"}))
UserinfoPassAs(r) == SetAppClaims(AppInfoSet(r, {"oidc"}))

(* oidc_copy_tokens_to_request_state: what the authorization goes by.        *)
CopyTokensToRequestState(r) == [r EXCEPT !.rs = @ \cup {"claims"}]

-----------------------------------------------------------------------------
(* How a handler ends.  The results are sets, one element for each outcome.  *)

Replies(r) == {[r EXCEPT !.rc = "reply"]}
Okay(r) == {[r EXCEPT !.rc = "OK"]}

(* oidc_util_html_content_prep, oidc_util_http_content_prep: the page waits  *)
(* for the content handler.                                                  *)
Page(r, key) == Okay([r EXCEPT !.user = "empty", !.rs = @ \cup {key}])

(* oidc_util_html_send, oidc_util_http_send: the answer is on its way.       *)
Sent(r) == Okay([r EXCEPT !.user = IF @ = "NULL" THEN "empty" ELSE @])

(* The request is let through without a user; its headers are the client's.  *)
Anonymous(r) == Okay([Scrubbed(r) EXCEPT !.user = "empty"])

(* oidc_request_authenticate_user: discovery, a redirect to the OP or an     *)
(* error, a page that posts the request, a page that preserves POST data.    *)
AuthenticateUser(r) ==
    IF gconf.discovery THEN Page(r, "DISCOVERY")
    ELSE Replies(r) \cup Page(r, "AUTHN_POST")
            \cup (IF r.method = "POST" THEN Page(r, "AUTHN_PRESERVE") ELSE {})

(* oidc_handle_unauthenticated_user *)
HandleUnauthenticatedUser(r) ==
    CASE gconf.unauth = "401" -> Replies(r)
      [] gconf.unauth = "pass" -> Anonymous(r)
      [] gconf.unauth = "auth" -> IF r.capable THEN AuthenticateUser(r) ELSE Replies(r)

(* oidc_session_kill *)
Killed(r) == [r EXCEPT !.user = "NULL", !.basis = "none"]

(* oidc_logout_request: to a URL, or a page of the module.                   *)
LogoutRequest(r) ==
    Replies(Killed(r)) \cup Page(Killed(r), "HTML") \cup Page(Killed(r), "HTTP")

(* oidc_handle_session_refresh_error: logout, authenticate, bad gateway.     *)
HandleSessionRefreshError(r) ==
    LogoutRequest(r) \cup HandleUnauthenticatedUser(Killed(r)) \cup Replies(r)

-----------------------------------------------------------------------------
(* OpenID Connect                                                            *)

(* Its last part: the user's name, then the tokens and the claims.           *)
Passed(r) ==
    UserinfoPassAs(IdTokenPassAs(SessionPassTokens(
        CopyTokensToRequestState(AppInfoSet(r, {"authn"})))))

(* oidc_handle_existing_session: the session is of another host, has lasted  *)
(* too long, cannot be refreshed, or is good.                                *)
HandleExistingSession(r) ==
    LET s == [r EXCEPT !.user = "session", !.basis = "unchecked"] IN
    Replies(s)
    \cup HandleUnauthenticatedUser(Killed(Scrubbed(s)))
    \cup HandleSessionRefreshError(Scrubbed(s))
    \cup Okay([Passed(Scrubbed(s)) EXCEPT !.basis = "checked"])

(* oidc_check_userid_openidc_existing_session: a save that fails is an error, *)
(* and the cookies are stripped whatever the outcome.                         *)
SavedSession(o) == IF o.rc = "OK" THEN Okay(Stripped(o)) \cup Replies(Stripped(o)) ELSE {Stripped(o)}
ExistingSession(r) == UNION {SavedSession(o) : o \in HandleExistingSession(r)}

(* oidc_session_management: logout, the OP's iframe, the RP's page, a check  *)
(* at the OP, or an error.                                                   *)
SessionManagement(r) ==
    LogoutRequest(r) \cup Replies(r) \cup Page(r, "HTML") \cup AuthenticateUser(r)

(* oidc_discovery_response: an error, or the OP is asked.                    *)
DiscoveryResponse(r) ==
    Replies(r) \cup AuthenticateUser(r) \cup {[r EXCEPT !.rc = "OK"]}

(* oidc_handle_redirect_uri_request: the first entry of the table that       *)
(* matches.  hasSession says whether there is a session.                     *)
HandleRedirectUri(r, hasSession) ==
    CASE r.hook = "code" /\ r.method = "GET" -> Replies(r) \cup Page(r, "HTML")
      [] r.hook = "logout" -> LogoutRequest(r) \cup Replies(r) \cup Okay(r)
      [] r.method = "POST" -> Replies(r) \cup Page(r, "HTML") \cup Page(r, "HTTP")
      [] r.hook = "disc" -> DiscoveryResponse(r)
      [] r.hook \in {"jwks", "dpop"} -> Anonymous(r)
      [] r.hook = "session" -> SessionManagement(r)
      [] r.hook = "refresh" -> Replies(r)
      [] r.hook = "request_uri" -> Replies(r) \cup Page(r, "HTTP")
      [] r.hook = "remove_at_cache" -> Replies(r) \cup Okay(r)
      [] r.hook = "revoke_session" -> Replies(r) \cup Okay([r EXCEPT !.user = "empty"])
      [] r.hook = "info" -> IF hasSession THEN HandleExistingSession(r) ELSE Replies(r)
      [] r.hook = "none" -> Page(r, "HTML")
      [] OTHER -> Replies(r)

(* oidc_check_userid_openidc_subreq: r->user is that of the first request;   *)
(* when the request state was lost it is restored from the previous request  *)
(* or, if the session is still there, from the session.                      *)
SubRequestRecycledAnew(r) ==
    {[Stripped(r) EXCEPT !.user = "session", !.rc = "OK", !.rs = r.rs]}

SubRequestRecycled(r) ==
    {[Stripped(r) EXCEPT !.user = r.mainUser, !.rc = "OK", !.rs = rs] :
        rs \in IF "claims" \in r.rs THEN {r.rs} ELSE {r.rs, r.rs \cup {"claims"}}}

(* oidc_check_userid_openidc *)
CheckUseridOpenidc(r) ==
    IF r.sub /\ r.mainUser # "NULL" THEN SubRequestRecycled(r)
    ELSE IF r.redirect THEN UNION {HandleRedirectUri(r, has) : has \in BOOLEAN}
    ELSE ExistingSession(r) \cup HandleUnauthenticatedUser(r)

-----------------------------------------------------------------------------
(* OAuth 2.0                                                                 *)

(* oidc_oauth_pass_info_to_app *)
OauthPassInfoToApp(r) == AppInfoSet(SetAppClaims(AppInfoSet(r, {"authn"})), {"oidc"})

(* oidc_oauth_check_userid from the token on: the token or its claims are    *)
(* refused, or the user and the claims are passed on.                        *)
CheckToken(r) ==
    LET t == [r EXCEPT !.user = "token", !.basis = "checked"] IN
    Replies(r)
    \cup Okay(Stripped(OauthPassInfoToApp(Scrubbed(CopyTokensToRequestState(t)))))

(* oidc_oauth_check_userid *)
OauthCheckUserid(r) ==
    IF r.sub /\ r.mainUser # "NULL"
      THEN Okay([Stripped(r) EXCEPT !.user = r.mainUser])
    ELSE IF ~r.sub /\ r.redirect /\ r.hook = "jwks" THEN Anonymous(r)
    ELSE IF ~r.sub /\ r.redirect /\ r.hook = "remove_at_cache" THEN Replies(r) \cup Okay(r)
    ELSE IF r.bearer THEN CheckToken(r)
    ELSE IF r.method = "OPTIONS" THEN Anonymous(r)
    ELSE Replies(r)

(* oidc_check_mixed_userid_oauth *)
CheckMixed(r) ==
    IF r.bearer THEN OauthCheckUserid(r)
    ELSE IF r.method = "OPTIONS" THEN Anonymous(r)
    ELSE CheckUseridOpenidc(r)

(* oidc_check_user_id *)
CheckUserId(r) ==
    CASE gconf.auth = "none" -> {[r EXCEPT !.rc = "DECLINED"]}
      [] gconf.auth = "openid-connect" -> CheckUseridOpenidc(r)
      [] gconf.auth = "oauth20" -> OauthCheckUserid(r)
      [] gconf.auth = "auth-openidc" -> CheckMixed(r)

-----------------------------------------------------------------------------
(* Authorization.  "Require valid-user" is the server's own.                 *)

(* oidc_authz_skip_to_content_handler *)
SkipToContentHandler(r) == r.rs \cap PageKeys # {}

(* oidc_authz_24_checker: no user is not asked to satisfy the requirement    *)
(* where the configuration passes, a page waits or the method is OPTIONS.    *)
Excused(r) ==
    /\ r.user = "empty"
    /\ gconf.unauth = "pass" \/ SkipToContentHandler(r) \/ r.method = "OPTIONS"

(* oidc_authz_24_worker: does a claim match?  Without claims none does.      *)
MayMatch(r) == r.user # "NULL" /\ "claims" \in r.rs

(* oidc_authz_24_unauthorized_user: denied; with discovery it is the page    *)
(* that is granted.                                                          *)
UnauthorizedUser(r) ==
    IF gconf.auth = "oauth20" \/ gconf.unautz = "401" \/ ~r.capable
      THEN Replies(r)
      ELSE {IF o.rc = "OK" /\ "DISCOVERY" \in o.rs THEN o ELSE [o EXCEPT !.rc = "reply"] :
               o \in AuthenticateUser(r)}

AuthzChecker(r) ==
    CASE gconf.require = "valid-user" -> IF r.user = "NULL" THEN Replies(r) ELSE Okay(r)
      [] gconf.require = "claim" ->
            IF Excused(r) THEN Okay(r)
            ELSE (IF MayMatch(r) THEN Okay(r) ELSE {})
                 \cup (IF r.user = "NULL" THEN Replies(r) ELSE UnauthorizedUser(r))

-----------------------------------------------------------------------------
(* The steps                                                                 *)

Receive ==
    /\ q.phase = "receive"
    /\ \E redirect \in BOOLEAN, hook \in Hooks, method \in {"GET", "POST", "OPTIONS"},
          capable \in BOOLEAN, bearer \in BOOLEAN :
         /\ ~redirect => hook = "none"
         /\ q' = [q EXCEPT !.phase = "authn", !.redirect = redirect, !.hook = hook,
                           !.method = method, !.capable = capable, !.bearer = bearer]
    /\ UNCHANGED gconf

Authenticate ==
    /\ q.phase = "authn"
    /\ \E o \in CheckUserId(q) :
         q' = [o EXCEPT !.phase = IF o.rc = "OK" THEN "authz"
                                  ELSE IF o.rc = "DECLINED" THEN "app" ELSE "done"]
    /\ UNCHANGED gconf

Authorize ==
    /\ q.phase = "authz"
    /\ \E o \in AuthzChecker(q) :
         q' = [o EXCEPT !.phase = IF o.rc = "OK" THEN "content" ELSE "done"]
    /\ UNCHANGED gconf

(* oidc_content_handler: everything at the redirect URI is answered here,    *)
(* elsewhere the page that waits, and DECLINED without one.                  *)
ContentHandlerHtmlOnly ==
    /\ q.phase = "content"
    /\ q' = IF q.redirect \/ q.rs \cap {"HTML", "HTTP"} # {}
              THEN [q EXCEPT !.phase = "done"] ELSE [q EXCEPT !.phase = "app"]
    /\ UNCHANGED gconf

ContentHandler ==
    /\ q.phase = "content"
    /\ q' = IF q.redirect \/ SkipToContentHandler(q)
              THEN [q EXCEPT !.phase = "done"] ELSE [q EXCEPT !.phase = "app"]
    /\ UNCHANGED gconf

(* A request that was let through makes a sub-request (r->main, which shares *)
(* the request state) or an internal redirect (r->prev, whose state may be   *)
(* lost); both carry the headers on.                                         *)
SubRequest ==
    /\ q.phase = "app" /\ gconf.auth # "none" /\ ~q.sub
    /\ \E rs \in {q.rs, {}} :
         q' = [q EXCEPT !.phase = "authn", !.sub = TRUE, !.mainUser = q.user,
                        !.user = "NULL", !.rs = rs, !.rc = "none"]
    /\ UNCHANGED gconf

(* The next request.                                                         *)
NextRequest ==
    /\ q.phase \in {"app", "done"}
    /\ q' = NewRequest
    /\ UNCHANGED gconf

GatewayNext == Receive \/ Authenticate \/ Authorize \/ ContentHandler \/ SubRequest \/ NextRequest

GatewaySpec == GatewayInit /\ [][GatewayNext]_gatewayVars

-----------------------------------------------------------------------------
(* Properties                                                                *)

Served == q.phase = "app" /\ gconf.auth # "none"

\* On whatever way a request gets to the application, the headers that the
\* module uses to tell it about the user are the module's or are absent: no
\* early return leaves those of the client, sub-requests included.
HeadersAreOurs ==
    Served => \A h \in {"oidc", "authn", gconf.prefix} : q.hdr[h] # "client"

\* The application is reached with a user whose session or token passed all
\* checks, or without a user only where OIDCUnAuthAction pass or a CORS
\* preflight allows it; and a claim requirement was then met or excused.  In
\* particular no page that was prepared for the content handler, and no
\* killed session, lets a request slip through.
ReachedByRight ==
    Served =>
        \/ q.user \in {"session", "token"} /\ q.basis = "checked"
                /\ (gconf.require = "claim" => "claims" \in q.rs) /\ ~q.cookies
        \/ q.user = "empty" /\ (gconf.unauth = "pass" \/ q.method = "OPTIONS")

\* A sub-request or an internal redirect that gets through has the user that
\* the first request was let through with.
SameUserInside == Served /\ q.sub => q.user = q.mainUser

\* The application is told who the user is by this module only: the two
\* parts above, for the request itself and for what it causes inside.
IdentityIsOurs == HeadersAreOurs /\ SameUserInside
=============================================================================
