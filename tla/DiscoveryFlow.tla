--------------------------- MODULE DiscoveryFlow ---------------------------
(***************************************************************************)
(* The choice of a provider when OIDCMetadataDir holds several.  A request *)
(* without a session is answered with the discovery page; the page and the *)
(* cookie x_csrf hold the same random token.  The choice comes back to the *)
(* redirect URI, with the token of the page as a parameter and with the    *)
(* cookie that the browser has at that time.  Other sites may send the     *)
(* browser there too ("3rd-party initiated SSO"), without the token.  All  *)
(* tabs share the one cookie, and the answers reach the browser in any     *)
(* order.                                                                  *)
(*                                                                         *)
(* A choice names a host: as an issuer, in an account name (user@host) or  *)
(* as a user identifier; the last two are resolved with WebFinger, whose   *)
(* answer may name any issuer.                                             *)
(***************************************************************************)
EXTENDS Integers, Sequences, SequencesExt

CONSTANTS Tabs,                \* the tabs of a browser
          MaxPage,             \* bound: discovery pages shown
          DiscoverySettings    \* see SettingsType

Issuers == {"op", "new", "unlisted"}    \* "op" is known; the allow-list has the first two
Listed == {"op", "new"}
NoTab == "no tab"

(* A URL: its host relative to the one of the redirect URI, and its path.    *)
UrlHosts == {"own", "below", "sibling", "foreign"}
UrlPaths == {<<"/">>, <<"/", "a">>, <<"/", "a", "a">>, <<"/", "a", "/">>, <<"/", "a", "/", "b">>}

SettingsType ==
    [dir : BOOLEAN,            \* OIDCMetadataDir: several providers, or the one "op"
     listed : BOOLEAN,         \* OIDCDiscoverIssuersAllowed is set
     domain : BOOLEAN,         \* OIDCCookieDomain is set, to the parent domain
     urls : BOOLEAN,           \* OIDCRedirectURLsAllowed is set, and matches every URL
     path : UrlPaths,          \* OIDCCookiePath
     default : BOOLEAN]        \* OIDCDefaultURL is set, to the root

ASSUME DiscoveryAssumption ==
    MaxPage \in Nat /\ DiscoverySettings \subseteq SettingsType /\ NoTab \notin Tabs

VARIABLES dset,     \* the settings
          xcsrf,    \* the cookie x_csrf of the browser, 0 for none
          shown,    \* number of tokens generated
          page,     \* the token in the discovery page that a tab shows, 0 for none
          nav,      \* what a tab waits for
          files,    \* the issuers whose metadata is stored
          called,   \* history: the hosts that were called
          adopted,  \* history: the issuers that were added, and whether the user chose them
          calm      \* history: the tab with the last page, while nothing else was sent

discoveryVars == <<dset, xcsrf, shown, page, nav, files, called, adopted, calm>>

PageTokens == 0 .. MaxPage
Waiting == {"idle", "page", "resolve", "select", "login", "over"}

DiscoveryTypeOK ==
    /\ dset \in DiscoverySettings
    /\ xcsrf \in PageTokens /\ shown \in PageTokens
    /\ page \in [Tabs -> PageTokens]
    /\ nav \in [Tabs -> [pc : Waiting, token : PageTokens, issuer : Issuers, own : BOOLEAN,
                         first : BOOLEAN, valid : BOOLEAN, scopes : BOOLEAN, home : BOOLEAN,
                         clear : BOOLEAN]]
    /\ files \subseteq Issuers /\ called \subseteq Issuers
    /\ adopted \subseteq Issuers \X BOOLEAN
    /\ calm \in Tabs \cup {NoTab}

Idle == [pc |-> "idle", token |-> 0, issuer |-> "op", own |-> FALSE, first |-> FALSE,
         valid |-> FALSE, scopes |-> FALSE, home |-> FALSE, clear |-> FALSE]

DiscoveryInit ==
    /\ dset \in DiscoverySettings
    /\ xcsrf = 0 /\ shown = 0
    /\ page = [t \in Tabs |-> 0]
    /\ nav = [t \in Tabs |-> Idle]
    /\ files = {"op"}
    /\ called = {} /\ adopted = {}
    /\ calm = NoTab

Store == <<files, called, adopted>>

(* The request ends with an error or a page.                                 *)
Over(st) == [st EXCEPT !.pc = "over", !.issuer = "op", !.scopes = FALSE, !.home = FALSE]

-----------------------------------------------------------------------------
(* Where a login may return to: target_link_uri                              *)

(* oidc_util_hostname_endswith, for the host of the redirect URI and for its *)
(* parent domain.                                                            *)
EndsWithOwn == {"own", "below"}
EndsWithParent == {"own", "below", "sibling"}

(* The path starts with OIDCCookiePath, and the rest with a slash.           *)
PathMatchPrefix(path, cookiePath) == IsPrefix(cookiePath, path)

PathMatch(path, cookiePath) ==
    LET n == IF Last(cookiePath) = "/" THEN Len(cookiePath) - 1 ELSE Len(cookiePath) IN
    /\ IsPrefix(cookiePath, path)
    /\ Len(path) > Len(cookiePath) => path[n + 1] = "/"

(* oidc_discovery_target_link_uri_match                                      *)
TargetMatch(url) ==
    /\ url.host \in IF dset.domain THEN EndsWithParent ELSE EndsWithOwn
    /\ PathMatch(url.path, dset.path)

(* oidc_validate_redirect_url with OIDC_REDIRECT_URL_SAME_HOST: the list     *)
(* takes the place of the comparison of hosts; neat stands for a URL without *)
(* the characters and substrings that are refused.                           *)
ValidateRedirectUrl(url) == url.neat /\ (dset.urls \/ url.host = "own")

Urls == [host : UrlHosts, path : UrlPaths, neat : {TRUE}]
            \cup {[host |-> "own", path |-> <<"/", "a">>, neat |-> FALSE]}
NoUrl == [host |-> "none", path |-> <<>>, neat |-> FALSE]
DefaultUrl == [host |-> "own", path |-> <<"/">>, neat |-> TRUE]

(* oidc_discovery_response_target_link_uri_validate: a request without a     *)
(* target_link_uri gets the default, if there is one.                        *)
Target(url) == IF url = NoUrl /\ dset.default THEN DefaultUrl ELSE url
TargetValid(url) == url # NoUrl /\ TargetMatch(url) /\ ValidateRedirectUrl(url)

(* RFC 6265: the session cookie is sent to this URL.                         *)
CookieReaches(url) ==
    /\ url.host \in IF dset.domain THEN EndsWithParent ELSE {"own"}
    /\ \/ url.path = dset.path
       \/ IsPrefix(dset.path, url.path) /\ (Last(dset.path) = "/" \/ url.path[Len(dset.path) + 1] = "/")

-----------------------------------------------------------------------------
(* The discovery page                                                        *)

(* oidc_discovery_request: a new token, in the page and in a cookie; without *)
(* randomness or a list of providers, an error.                              *)
DiscoveryRequest(t) ==
    /\ dset.dir /\ nav[t].pc = "idle" /\ shown < MaxPage
    /\ \E ok \in BOOLEAN :
         /\ shown' = IF ok THEN shown + 1 ELSE shown
         /\ nav' = [nav EXCEPT ![t] = IF ok THEN [Idle EXCEPT !.pc = "page", !.token = shown + 1]
                                            ELSE [Idle EXCEPT !.pc = "over"]]
    /\ page' = [page EXCEPT ![t] = 0]
    /\ calm' = NoTab
    /\ UNCHANGED <<dset, xcsrf, Store>>

(* The page reaches the browser with its cookie, which replaces that of any  *)
(* other page.                                                               *)
ShowPageKeepsCookie(t) ==
    /\ nav[t].pc = "page"
    /\ xcsrf' = IF xcsrf = 0 THEN nav[t].token ELSE xcsrf
    /\ page' = [page EXCEPT ![t] = nav[t].token]
    /\ nav' = [nav EXCEPT ![t] = Idle]
    /\ calm' = IF \A u \in Tabs \ {t} : nav[u].pc = "idle" THEN t ELSE NoTab
    /\ UNCHANGED <<dset, shown, Store>>

ShowPage(t) ==
    /\ nav[t].pc = "page"
    /\ xcsrf' = nav[t].token
    /\ page' = [page EXCEPT ![t] = nav[t].token]
    /\ nav' = [nav EXCEPT ![t] = Idle]
    /\ calm' = IF \A u \in Tabs \ {t} : nav[u].pc = "idle" THEN t ELSE NoTab
    /\ UNCHANGED <<dset, shown, Store>>

-----------------------------------------------------------------------------
(* The choice: oidc_discovery_response                                       *)

(* oidc_discovery_response_csrf_check: 0 stands for NULL.                    *)
CsrfCheckSame(token, cookie) == token = cookie

CsrfCheck(token, cookie) == cookie # 0 /\ token = cookie

(* oidc_discovery_issuer_allowed                                             *)
IssuerAllowed(issuer) == dset.listed => issuer \in Listed

(* oidc_discovery_response_static, oidc_discovery_response_resolve_issuer:   *)
(* the one provider, or the list is asked before the host is.                *)
AfterChoiceUnasked(kind, issuer) ==
    CASE ~dset.dir -> IF kind = "user" \/ (kind = "issuer" /\ issuer = "op") THEN "login" ELSE "over"
      [] dset.dir /\ kind = "issuer" -> "select"
      [] OTHER -> "resolve"

AfterChoice(kind, issuer) ==
    CASE ~dset.dir -> IF kind = "user" \/ (kind = "issuer" /\ issuer = "op") THEN "login" ELSE "over"
      [] dset.dir /\ kind = "issuer" -> "select"
      [] OTHER -> IF IssuerAllowed(issuer) THEN "resolve" ELSE "over"

(* The handler up to its first call: the token, which decides whether the    *)
(* scopes in the request count, the target and the issuer.  Of the targets   *)
(* only their validity and whether the cookie gets there is told apart.      *)
Choice(t, own, token, cookie, targets) ==
    \E kind \in {"issuer", "account", "user"}, issuer \in Issuers,
       to \in {[valid |-> TargetValid(Target(url)), home |-> CookieReaches(Target(url))] : url \in targets} :
        LET valid == CsrfCheck(token, cookie)
            st == [Idle EXCEPT !.pc = AfterChoice(kind, issuer), !.issuer = issuer, !.own = own,
                               !.first = (calm = t), !.valid = valid, !.scopes = valid,
                               !.home = to.home, !.clear = (cookie # 0)]
        IN  nav' = [nav EXCEPT ![t] = IF to.valid /\ st.pc # "over" THEN st ELSE Over(st)]

(* The user chooses on a page, maybe not for the first time; the page holds  *)
(* the scopes of its location and returns to it.                             *)
Submit(t) ==
    /\ nav[t].pc = "idle" /\ page[t] # 0
    /\ Choice(t, TRUE, page[t], xcsrf, {[host |-> "own", path |-> dset.path, neat |-> TRUE]})
    /\ calm' = NoTab
    /\ UNCHANGED <<dset, xcsrf, shown, page, Store>>

(* Another site sends the browser, with the cookie or, where SameSite says   *)
(* so, without.                                                              *)
FollowLink(t) ==
    /\ nav[t].pc = "idle"
    /\ \E cookie \in {0, xcsrf} : Choice(t, FALSE, 0, cookie, Urls \cup {NoUrl})
    /\ page' = [page EXCEPT ![t] = 0]
    /\ calm' = NoTab
    /\ UNCHANGED <<dset, xcsrf, shown, Store>>

(* oidc_proto_webfinger_discovery                                            *)
Webfinger(t) ==
    /\ nav[t].pc = "resolve"
    /\ called' = called \cup {nav[t].issuer}
    /\ \/ \E issuer \in Issuers : nav' = [nav EXCEPT ![t].pc = "select", ![t].issuer = issuer]
       \/ nav' = [nav EXCEPT ![t] = Over(@)]
    /\ UNCHANGED <<dset, xcsrf, shown, page, files, adopted, calm>>

(* oidc_discovery_response_authenticate, with the metadata that is stored,   *)
(* and perhaps due for a download, or that may be downloaded, whether or not *)
(* it can be stored.  The requests that only test a provider end here.       *)
MayDownload(st) == st.issuer \in files \/ st.valid

Authenticate(t) ==
    LET st == nav[t] IN
    /\ st.pc = "select"
    /\ \/ /\ IssuerAllowed(st.issuer) /\ MayDownload(st)
          /\ \/ /\ files' \in {files, files \cup {st.issuer}}
                /\ adopted' = adopted \cup {<<i, st.own>> : i \in {st.issuer} \ files}
                /\ called' \in {called \cup {st.issuer}} \cup {c \in {called} : st.issuer \in files}
                /\ nav' \in {[nav EXCEPT ![t] = s] : s \in {[st EXCEPT !.pc = "login"], Over(st)}}
             \/ /\ called' = called \cup {st.issuer}
                /\ nav' = [nav EXCEPT ![t] = Over(st)]
                /\ UNCHANGED <<files, adopted>>
       \/ /\ ~(IssuerAllowed(st.issuer) /\ MayDownload(st))
          /\ nav' = [nav EXCEPT ![t] = Over(st)]
          /\ UNCHANGED Store
    /\ UNCHANGED <<dset, xcsrf, shown, page, calm>>

(* The answer reaches the browser: a redirect to the OP or an error, and the *)
(* cookie is deleted if there was one.                                       *)
Answer(t) ==
    /\ nav[t].pc \in {"login", "over"}
    /\ xcsrf' = IF nav[t].clear THEN 0 ELSE xcsrf
    /\ nav' = [nav EXCEPT ![t] = Idle]
    /\ UNCHANGED <<dset, shown, page, Store, calm>>

DiscoveryNext ==
    \E t \in Tabs :
        \/ DiscoveryRequest(t) \/ ShowPage(t) \/ Submit(t) \/ FollowLink(t)
        \/ Webfinger(t) \/ Authenticate(t) \/ Answer(t)

DiscoverySpec == DiscoveryInit /\ [][DiscoveryNext]_discoveryVars

-----------------------------------------------------------------------------
(* Properties                                                                *)

\* What another site sends the browser to never makes the module take a new
\* provider, and never sets the scopes of a login, whatever cookies, pages
\* and answers of other tabs are under way.
OnlyByChoice ==
    /\ \A a \in adopted : a[2]
    /\ \A t \in Tabs : (nav[t].pc = "login" /\ nav[t].scopes) => nav[t].own

\* With OIDCDiscoverIssuersAllowed no other host is ever called: neither to
\* resolve a name, nor the issuer that the answer to that call names.
ListedHostsOnly == dset.listed => called \subseteq Listed

\* The first choice on the page that came last, when nothing else was under
\* way, passes the CSRF check.
LastPageWorks == \A t \in Tabs : (nav[t].own /\ nav[t].first) => nav[t].valid

\* A login returns to a URL to which the browser sends the session cookie;
\* a list of allowed URLs without a cookie domain may name other hosts.
ReturnsWithCookie ==
    \A t \in Tabs : (nav[t].pc = "login" /\ (dset.urls => dset.domain)) => nav[t].home

\* The choice of a provider is the user's, within the configured lists, and
\* ends where the session is.
DiscoverySound == OnlyByChoice /\ ListedHostsOnly /\ LastPageWorks /\ ReturnsWithCookie
=============================================================================
