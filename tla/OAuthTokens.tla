----------------------------- MODULE OAuthTokens -----------------------------
(***************************************************************************)
(* The OAuth 2.0 resource server: a bearer token is taken from the         *)
(* request, resolved from the access token cache, by introspection or as a *)
(* JWT that is validated here, and the result is cached for the requests   *)
(* to come, those of other virtual hosts and directories included.         *)
(*                                                                         *)
(* One token.  The authorization server (AS) ends it by revocation or at   *)
(* its expiry; ended counts the time since then.  The AS is external: it   *)
(* answers for a token that has ended with active = false, or an error.    *)
(***************************************************************************)
EXTENDS Integers, FiniteSets, FiniteSetsExt

CONSTANTS
    OAuthRequests,  \* requests that may be under way at once
    Intervals,      \* OIDCOAuthTokenIntrospectionInterval of the directories:
                    \* -1: no cache, 0: until the entry expires
    DefaultTTL,     \* OIDC_OAUTH_CACHE_DEFAULT_EXPIRY_SECONDS
    TokenLife,      \* lifetime of the token at the AS
    RequestLife,    \* bound: time that a request takes
    Audiences       \* OIDCOAuthVerifyAudience values of the virtual hosts

ASSUME OAuthAssumption ==
    /\ Intervals \subseteq Nat \cup {-1}
    /\ {DefaultTTL, TokenLife, RequestLife} \subseteq Nat
    \* One of the configured intervals is the longest.
    /\ \E i \in Intervals : \A j \in Intervals : j <= i
    /\ Audiences # {}

VARIABLES
    modes,      \* how the virtual hosts that share the cache resolve tokens
    claim,      \* how the expiry is read from an introspection result
    bearer,      \* at the AS: [active, left, aud]
    ended,      \* time since the token was revoked or expired
    entry,      \* in the cache: [has, age since "t", left until it expires, by: what that was taken from]
    oq          \* per request

oauthVars == <<modes, claim, bearer, ended, entry, oq>>

(* The parameters of oidc_oauth_parse_and_cache_token_expiry.  A result with *)
(* the "active" member of RFC 7662 has an optional, absolute "exp"; without  *)
(* it, OIDCOAuthTokenExpiryClaim says which claim it is (custom).            *)
Claims == {[custom |-> FALSE, relative |-> FALSE, mandatory |-> FALSE]}
          \cup [custom : {TRUE}, relative : BOOLEAN, mandatory : BOOLEAN]

(* What the AS puts there: nothing, no number, no positive one, or one.      *)
Expiries == {"absent", "malformed", "nonpositive", "number"}

EndedMax == 2 * RequestLife + DefaultTTL + Max(Intervals \cup {0}) + 1
EntryMax == Max({DefaultTTL, TokenLife})
NoToken == [has |-> FALSE, age |-> 0, left |-> 0, by |-> "absent"]

OAuthTypeOK ==
    /\ modes \in {{"introspect"}, {"introspect", "jwt"}}
    /\ claim \in Claims
    /\ bearer \in [active : BOOLEAN, left : 0 .. TokenLife, aud : SUBSET Audiences]
    /\ ended \in 0 .. EndedMax
    /\ entry \in [has : BOOLEAN, age : 0 .. EntryMax, left : 0 .. EntryMax,
                 by : {"absent", "unusable", "absolute", "relative"}]
    /\ oq \in [OAuthRequests -> [pc : {"idle", "lookup", "resolve", "store", "served"}, mode : {"introspect", "jwt"},
                                 interval : Intervals, aud : Audiences, spent : 0 .. RequestLife,
                                 expiry : Expiries, says : 0 .. TokenLife]]

Rested == [pc |-> "idle", mode |-> "introspect", interval |-> CHOOSE i \in Intervals : TRUE,
           aud |-> CHOOSE a \in Audiences : TRUE, spent |-> 0, expiry |-> "absent", says |-> 0]

OAuthInit ==
    /\ modes \in {{"introspect"}, {"introspect", "jwt"}}
    /\ claim \in Claims
    /\ \E a \in SUBSET Audiences : bearer = [active |-> TRUE, left |-> TokenLife, aud |-> a]
    /\ ended = 0
    /\ entry = NoToken
    /\ oq = [r \in OAuthRequests |-> Rested]

-----------------------------------------------------------------------------
(* oidc_oauth_check_userid: a request with the bearer token.                 *)
Receives(r) ==
    /\ oq[r].pc = "idle"
    /\ \E mode \in modes, i \in Intervals, a \in Audiences :
         oq' = [oq EXCEPT ![r] = [Rested EXCEPT !.pc = "lookup", !.mode = mode, !.interval = i, !.aud = a]]
    /\ UNCHANGED <<modes, claim, bearer, ended, entry>>

(* oidc_oauth_validate_jwt_aud: any of the configured values.                *)
AudienceMatches(q) == q.aud \in bearer.aud

\* The freshness that this directory asks for is not looked at.
CachedAnyAge(q) == entry.has /\ q.interval # -1

\* oidc_oauth_get_cached_access_token: not with -1, and fresh enough.
Cached(q) ==
    /\ entry.has /\ q.interval # -1
    /\ q.interval > 0 => entry.age <= q.interval

\* A result that was once validated is taken as it is.
CachedAnswerTrusted(q) == "served"

(* The claims of a JWT that comes from the cache are checked against the     *)
(* configuration of this virtual host.                                       *)
CachedAnswer(q) == IF q.mode = "jwt" /\ ~AudienceMatches(q) THEN "idle" ELSE "served"

LookupToken(r) ==
    LET q == oq[r] IN
    /\ q.pc = "lookup"
    /\ oq' = [oq EXCEPT ![r].pc = IF ~Cached(q) THEN "resolve" ELSE CachedAnswer(q)]
    /\ UNCHANGED <<modes, claim, bearer, ended, entry>>

(* oidc_oauth_validate_access_token, _introspection_active_is_valid:         *)
(* the AS says that the token is active, and when it expires: a relative     *)
(* value is what is left now.  Or it is not reached, or refuses the token.   *)
Told(x) == IF claim.relative /\ x = "number" THEN bearer.left ELSE 0

Introspect(r) ==
    LET q == oq[r] IN
    /\ q.pc = "resolve" /\ q.mode = "introspect"
    /\ \/ bearer.active /\ \E x \in Expiries :
             oq' = [oq EXCEPT ![r] = [q EXCEPT !.pc = "store", !.expiry = x, !.says = Told(x)]]
       \/ oq' = [oq EXCEPT ![r] = Rested]
    /\ UNCHANGED <<modes, claim, bearer, ended, entry>>

(* oidc_oauth_validate_jwt_access_token: the token says when it expires and  *)
(* cannot tell that it was revoked.                                          *)
ValidateJwt(r) ==
    LET q == oq[r] IN
    /\ q.pc = "resolve" /\ q.mode = "jwt"
    /\ oq' = [oq EXCEPT ![r] = IF bearer.left > 0 /\ AudienceMatches(q)
                                 THEN [q EXCEPT !.pc = "store", !.expiry = "number"] ELSE Rested]
    /\ UNCHANGED <<modes, claim, bearer, ended, entry>>

(* oidc_oauth_parse_and_cache_token_expiry: a mandatory claim must be there  *)
(* and be a number; otherwise what cannot be used leaves the default, and a  *)
(* relative number is added to the time at which it is parsed.               *)
Relative(q) == q.mode = "introspect" /\ claim.relative

ExpiryParses(q) ==
    q.mode = "introspect" /\ claim.mandatory => q.expiry \notin {"absent", "malformed"}

BoundBy(q) ==
    CASE q.expiry = "absent" -> "absent"
      [] q.expiry = "number" -> IF Relative(q) THEN "relative" ELSE "absolute"
      [] OTHER -> "unusable"

\* The time that the token has left is not used.
CacheTimeDefault(q) == DefaultTTL

CacheTime(q) ==
    CASE BoundBy(q) = "relative" -> q.says
      [] BoundBy(q) = "absolute" -> bearer.left
      [] OTHER -> DefaultTTL

(* oidc_oauth_introspection_validate_and_cache, and the end of               *)
(* oidc_oauth_validate_jwt_access_token: the result is stored for that time  *)
(* (oidc_oauth_cache_access_token), or refused.                              *)
StoreToken(r) ==
    LET q == oq[r] left == CacheTime(q) IN
    /\ q.pc = "store" /\ ExpiryParses(q)
    /\ entry' = IF q.interval = -1 THEN entry
                ELSE IF left = 0 THEN NoToken
                ELSE [has |-> TRUE, age |-> 0, by |-> BoundBy(q), left |-> left]
    /\ oq' = [oq EXCEPT ![r] = [q EXCEPT !.pc = "served", !.expiry = "absent", !.says = 0]]
    /\ UNCHANGED <<modes, claim, bearer, ended>>

RefuseToken(r) ==
    /\ oq[r].pc = "store" /\ ~ExpiryParses(oq[r])
    /\ oq' = [oq EXCEPT ![r] = Rested]
    /\ UNCHANGED <<modes, claim, bearer, ended, entry>>

EndOAuthRequest(r) ==
    /\ oq[r].pc = "served"
    /\ oq' = [oq EXCEPT ![r] = Rested]
    /\ UNCHANGED <<modes, claim, bearer, ended, entry>>

(* oidc_revoke_at_cache_remove *)
RemoveFromCache ==
    /\ entry.has
    /\ entry' = NoToken
    /\ UNCHANGED <<modes, claim, bearer, ended, oq>>

-----------------------------------------------------------------------------
Revoke ==
    /\ bearer.active
    /\ bearer' = [bearer EXCEPT !.active = FALSE]
    /\ UNCHANGED <<modes, claim, ended, entry, oq>>

OAuthTick ==
    /\ \A r \in OAuthRequests : oq[r].pc = "idle" \/ oq[r].spent < RequestLife
    /\ bearer' = [bearer EXCEPT !.left = Max({@ - 1, 0}), !.active = @ /\ bearer.left > 1]
    /\ ended' = IF bearer.active THEN 0 ELSE Min({ended + 1, EndedMax})
    /\ entry' = IF ~entry.has \/ entry.left <= 1 THEN NoToken
                ELSE [entry EXCEPT !.left = @ - 1, !.age = @ + 1]
    /\ oq' = [r \in OAuthRequests |-> IF oq[r].pc = "idle" THEN oq[r] ELSE [oq[r] EXCEPT !.spent = @ + 1]]
    /\ UNCHANGED <<modes, claim>>

OAuthNext ==
    \/ \E r \in OAuthRequests :
         \/ Receives(r) \/ LookupToken(r) \/ Introspect(r) \/ ValidateJwt(r) \/ StoreToken(r)
         \/ RefuseToken(r) \/ EndOAuthRequest(r)
    \/ RemoveFromCache \/ Revoke \/ OAuthTick

OAuthSpec == OAuthInit /\ [][OAuthNext]_oauthVars

-----------------------------------------------------------------------------
(* Properties                                                                *)

\* Where all tokens are introspected, one that the AS has ended is refused
\* after the configured interval: at once without a cache, after the interval
\* with one, counted from the end of the request that introspected it, and
\* whatever other directories with longer intervals share the cache.  (A
\* virtual host that validates JWTs itself shares what it cannot know to be
\* revoked.)
EndNoticed ==
    \A r \in OAuthRequests :
        LET q == oq[r] IN
        (q.pc = "served" /\ q.interval # 0 /\ ~bearer.active /\ modes = {"introspect"})
            => ended <= 2 * RequestLife + Max({q.interval, 0})

\* The entry does not outlive the token where its expiry was read as an
\* absolute time.  A relative one, which is what OIDCOAuthTokenExpiryClaim
\* has by default, is counted from the moment that the answer is parsed: the
\* entry outlives the token by the time that the answer took, and not more,
\* however often the token is introspected.  Only without a usable expiry is
\* the entry bounded by the default time instead.
EntryEndsWithToken ==
    entry.has => /\ entry.by = "absolute" => entry.left <= bearer.left
                 /\ entry.by = "relative" => entry.left <= bearer.left + RequestLife
                 /\ entry.by \in {"absent", "unusable"} => entry.left <= DefaultTTL

\* A virtual host that validates JWTs never lets one in that was not made
\* for it, one that another virtual host has put in the cache neither.
MadeForThisHost ==
    \A r \in OAuthRequests :
        oq[r].pc \in {"store", "served"} /\ oq[r].mode = "jwt" => AudienceMatches(oq[r])

\* A cached result is used for no longer than, and for nothing but, what
\* it was made for.
ResultsSound == EndNoticed /\ EntryEndsWithToken /\ MadeForThisHost

\* auth_openidc.conf:530, of OIDCOAuthTokenExpiryClaim: "If the claim is
\* optional and not found in the response, the introspection result will not
\* be cached."  oidc_oauth_parse_and_cache_token_expiry leaves the default
\* time in place, for which the result is then stored.
NoExpiryNotCached == claim.custom /\ ~claim.mandatory /\ entry.has => entry.by # "absent"
=============================================================================
