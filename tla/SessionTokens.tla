---------------------------- MODULE SessionTokens ----------------------------
(***************************************************************************)
(* What a request does to the tokens and claims of its session: the access *)
(* token is refreshed before it expires (OIDCRefreshAccessTokenBefore-     *)
(* Expiry), on a 401 of the userinfo endpoint, on demand of the info hook  *)
(* or by the refresh hook; the claims are refreshed from the userinfo      *)
(* endpoint; the session is saved at the end, on some ways only.  Requests *)
(* of one session overlap, and each works on the copy that it loaded.      *)
(*                                                                         *)
(* The grant itself is one step here: RefreshGrant shows that concurrent   *)
(* grants of one refresh token present it once and share the result.       *)
(* Refresh tokens are numbered; the OP accepts the last one only, issues   *)
(* n + 1 for n, and the access token issued with n has the same number.    *)
(* Time is counted in steps, and stored as what is left or has passed.     *)
(***************************************************************************)
EXTENDS Integers, FiniteSetsExt

CONSTANTS
    SessionRequests,  \* the requests of the session
    MaxToken,         \* bound: refresh tokens 0 .. MaxToken
    ResultTTL,        \* OIDC_REFRESH_CACHE_TTL
    RequestTime,      \* bound: the longest request
    TokenTTL,         \* expires_in of an access token
    BeforeExpiry,     \* OIDCRefreshAccessTokenBeforeExpiry, -1 is off
    UserinfoInterval, \* OIDCUserInfoRefreshInterval, -1 is off
    TokenFaults       \* faults that happen, of {"op", "userinfo", "save"}

ASSUME SessionTokensAssumption ==
    /\ {MaxToken, ResultTTL, RequestTime, TokenTTL} \subseteq Nat
    /\ {BeforeExpiry, UserinfoInterval} \subseteq Nat \cup {-1}
    /\ ResultTTL > 0

VARIABLES
    stored,     \* the session in the cache
    liveToken,  \* the refresh token that the OP accepts
    results,    \* per refresh token: time left of the cached result of its grant
    trueLeft,   \* per access token: time until the OP refuses it
    ses         \* per request: where it is, its copy of the session, and how
                \* long the token that it loaded can still be exchanged

tokenVars == <<stored, liveToken, results, trueLeft, ses>>

RefreshTokens == 0 .. MaxToken
AgeMax == Max({UserinfoInterval, 0}) + 1

\* rt: the refresh token, and the access token; left: time until the access
\* token expires as the session has it; claims: they are there; age: time
\* since userinfo_last_refresh; gone: the session was killed.
Sessions == [rt : RefreshTokens, left : 0 .. TokenTTL, claims : BOOLEAN,
             age : 0 .. AgeMax, gone : BOOLEAN]

Kinds == {"app", "info", "peek", "hook"}

\* again, again2: the second attempt at the userinfo endpoint.
TokenSteps == {"idle", "expiry", "userinfo", "again", "interval", "userinfo2", "again2", "grant", "finish"}

SessionTokensTypeOK ==
    /\ stored \in Sessions
    /\ liveToken \in RefreshTokens
    /\ results \in [RefreshTokens -> 0 .. ResultTTL]
    /\ trueLeft \in [RefreshTokens -> 0 .. TokenTTL]
    /\ ses \in [SessionRequests -> [pc : TokenSteps, kind : Kinds, z : Sessions,
                                    save : BOOLEAN, made : SUBSET RefreshTokens, spent : 0 .. RequestTime,
                                    served : BOOLEAN, grace : 0 .. ResultTTL]]

Resting == [pc |-> "idle", kind |-> "app", save |-> FALSE, made |-> {}, spent |-> 0,
            served |-> FALSE, grace |-> 0,
            z |-> [rt |-> 0, left |-> 0, claims |-> FALSE, age |-> 0, gone |-> TRUE]]

SessionTokensInit ==
    /\ stored = [rt |-> 0, left |-> TokenTTL, claims |-> TRUE, age |-> 0, gone |-> FALSE]
    /\ liveToken = 0
    /\ results = [n \in RefreshTokens |-> 0]
    /\ trueLeft = [n \in RefreshTokens |-> IF n = 0 THEN TokenTTL ELSE 0]
    /\ ses = [r \in SessionRequests |-> Resting]

Goes(r, s) == ses' = [ses EXCEPT ![r] = s]
OpSide == <<liveToken, results, trueLeft>>

-----------------------------------------------------------------------------
(* oidc_refresh_token_grant, and what it leaves in the copy of the session:  *)
(* the tokens, and an expiry that is counted from now, also when the tokens  *)
(* come from the cache.                                                      *)
Applied(s, n) == [s EXCEPT !.z = [@ EXCEPT !.rt = n, !.left = TokenTTL], !.save = TRUE]

Granted(s) ==
    LET n == s.z.rt
        t == Applied(s, n + 1)
    IN  IF results[n] > 0 THEN t ELSE [t EXCEPT !.made = @ \cup {n}]

GrantCached(s) == results[s.z.rt] > 0 /\ UNCHANGED OpSide

GrantNewUncached(s) ==
    /\ results[s.z.rt] = 0 /\ s.z.rt = liveToken /\ liveToken < MaxToken
    /\ liveToken' = liveToken + 1
    /\ trueLeft' = [trueLeft EXCEPT ![s.z.rt + 1] = TokenTTL]
    /\ UNCHANGED results
GrantNew(s) ==
    /\ results[s.z.rt] = 0 /\ s.z.rt = liveToken /\ liveToken < MaxToken
    /\ liveToken' = liveToken + 1
    /\ results' = [results EXCEPT ![s.z.rt] = ResultTTL]
    /\ trueLeft' = [trueLeft EXCEPT ![s.z.rt + 1] = TokenTTL]

\* The OP refuses a token that it has replaced, or cannot be reached.
GrantFails(s) ==
    /\ results[s.z.rt] = 0
    /\ s.z.rt # liveToken \/ "op" \in TokenFaults
    /\ UNCHANGED OpSide

-----------------------------------------------------------------------------
(* How a request ends                                                        *)

(* oidc_handle_session_refresh_error: a bad gateway leaves the session as it *)
(* is in the cache, the other actions kill it.  needs_save is reset.         *)
RefreshError(r) ==
    /\ stored' \in {stored, [stored EXCEPT !.gone = TRUE]}
    /\ Goes(r, Resting)

\* The info hook and the refresh hook give up without a kill.
HookError(r) == Goes(r, Resting) /\ UNCHANGED stored

Gives(r) == IF ses[r].pc \in {"expiry", "userinfo", "again"} THEN RefreshError(r) ELSE HookError(r)

-----------------------------------------------------------------------------
(* The steps                                                                 *)

(* At the OP, where it is rotated and then cached, or already in the cache.  *)
Exchangeable(n) == IF n = liveToken THEN ResultTTL ELSE results[n]

(* oidc_check_userid_openidc: the session is loaded.  An info request that   *)
(* does not extend the session skips the refreshes of the authentication.    *)
LoadSession(r) ==
    /\ ses[r].pc = "idle" /\ ~stored.gone
    /\ \E k \in Kinds :
         Goes(r, [Resting EXCEPT !.kind = k, !.z = stored, !.grace = Exchangeable(stored.rt),
                    !.pc = CASE k \in {"app", "info"} -> "expiry"
                             [] k = "peek" -> "interval"
                             [] k = "hook" -> "grant"])
    /\ UNCHANGED <<stored, OpSide>>

(* oidc_refresh_access_token_before_expiry *)
ExpiryDueLate(s) == BeforeExpiry >= 0 /\ s.z.left < BeforeExpiry
ExpiryDue(s) == BeforeExpiry >= 0 /\ s.z.left <= BeforeExpiry

RefreshBeforeExpiry(r) ==
    LET s == ses[r] on(t) == Goes(r, [t EXCEPT !.pc = "userinfo"]) IN
    /\ s.pc = "expiry"
    /\ \/ ~ExpiryDue(s) /\ on(s) /\ UNCHANGED <<stored, OpSide>>
       \/ ExpiryDue(s) /\ GrantCached(s) /\ on(Granted(s)) /\ UNCHANGED stored
       \/ ExpiryDue(s) /\ GrantNew(s) /\ on(Granted(s)) /\ UNCHANGED stored
       \/ ExpiryDue(s) /\ GrantFails(s) /\ Gives(r)

(* oidc_userinfo_refresh_claims with oidc_userinfo_retrieve_claims: claims   *)
(* that are due are asked for; a 401 makes one grant and one more attempt;   *)
(* on any failure the copy has lost its claims, which must not be saved.     *)
ClaimsDue(s) == UserinfoInterval >= 0 /\ s.z.age > UserinfoInterval

WithClaims(s) == [s EXCEPT !.z = [@ EXCEPT !.claims = TRUE, !.age = 0], !.save = TRUE]

After(s) == IF s.kind # "app" /\ s.pc \in {"userinfo", "again"} THEN "interval" ELSE "finish"

Retrieved(r) == Goes(r, [WithClaims(ses[r]) EXCEPT !.pc = After(ses[r])])

UserinfoFailSaved(r) ==
    LET s == ses[r] IN
    /\ s.pc \in {"userinfo", "userinfo2"} /\ ClaimsDue(s)
    /\ "userinfo" \in TokenFaults
    /\ Goes(r, [s EXCEPT !.pc = After(s), !.save = TRUE, !.z = [@ EXCEPT !.claims = FALSE, !.age = 0]])
    /\ UNCHANGED <<stored, OpSide>>

UserinfoFail(r) ==
    LET s == ses[r] IN
    /\ (s.pc \in {"userinfo", "userinfo2"} /\ ClaimsDue(s)) \/ s.pc \in {"again", "again2"}
    /\ "userinfo" \in TokenFaults
    /\ Gives(r) /\ UNCHANGED OpSide

RefreshClaims(r) ==
    LET s == ses[r]
        again(t) == Goes(r, [t EXCEPT !.pc = IF s.pc = "userinfo" THEN "again" ELSE "again2"])
    IN
    /\ s.pc \in {"userinfo", "userinfo2"}
    /\ \/ /\ ~ClaimsDue(s)
          /\ Goes(r, [s EXCEPT !.pc = After(s)]) /\ UNCHANGED <<stored, OpSide>>
       \/ /\ ClaimsDue(s) /\ trueLeft[s.z.rt] > 0
          /\ Retrieved(r) /\ UNCHANGED <<stored, OpSide>>
       \/ /\ ClaimsDue(s) /\ trueLeft[s.z.rt] = 0
          /\ \/ GrantCached(s) /\ again(Granted(s)) /\ UNCHANGED stored
             \/ GrantNew(s) /\ again(Granted(s)) /\ UNCHANGED stored
             \/ GrantFails(s) /\ Gives(r)

\* The second attempt, with the new access token.
RetrieveAgain(r) ==
    /\ ses[r].pc \in {"again", "again2"}
    /\ Retrieved(r) /\ UNCHANGED <<stored, OpSide>>

(* oidc_info_refresh_access_token: with the interval of the request.         *)
InfoInterval(r) ==
    LET s == ses[r]
        on(t) == Goes(r, [t EXCEPT !.pc = IF s.kind = "peek" THEN "finish" ELSE "userinfo2"])
    IN
    /\ s.pc = "interval"
    /\ \/ on(s) /\ UNCHANGED <<stored, OpSide>>
       \/ GrantCached(s) /\ on(Granted(s)) /\ UNCHANGED stored
       \/ GrantNew(s) /\ on(Granted(s)) /\ UNCHANGED stored
       \/ GrantFails(s) /\ Gives(r)

(* oidc_refresh_token_request: on demand.                                    *)
HookGrant(r) ==
    LET s == ses[r] on(t) == Goes(r, [t EXCEPT !.pc = "finish"]) IN
    /\ s.pc = "grant"
    /\ \/ GrantCached(s) /\ on(Granted(s)) /\ UNCHANGED stored
       \/ GrantNew(s) /\ on(Granted(s)) /\ UNCHANGED stored
       \/ GrantFails(s) /\ Gives(r)

(* The session is saved if something was changed, its inactivity timeout     *)
(* (oidc_session_pass_tokens) included, and never by an info request that    *)
(* does not extend it.                                                       *)
SaveSession(r) ==
    LET s == ses[r] IN
    /\ s.pc = "finish" /\ ~s.served
    /\ \/ /\ s.kind # "peek"
          /\ stored' = s.z
          /\ Goes(r, [s EXCEPT !.served = TRUE])
       \/ /\ ~s.save \/ s.kind = "peek"
          /\ UNCHANGED stored
          /\ Goes(r, [s EXCEPT !.served = TRUE])
       \/ "save" \in TokenFaults /\ HookError(r)
    /\ UNCHANGED OpSide

(* The application has answered.                                             *)
EndRequest(r) ==
    /\ ses[r].served
    /\ Goes(r, Resting)
    /\ UNCHANGED <<stored, OpSide>>

Older(z) == [z EXCEPT !.left = Max({@ - 1, 0}), !.age = Min({@ + 1, AgeMax})]

TokensTick ==
    /\ \A r \in SessionRequests : ses[r].pc = "idle" \/ ses[r].spent < RequestTime
    /\ stored' = Older(stored)
    /\ results' = [n \in RefreshTokens |-> Max({results[n] - 1, 0})]
    /\ trueLeft' = [n \in RefreshTokens |-> Max({trueLeft[n] - 1, 0})]
    /\ ses' = [r \in SessionRequests |->
                 IF ses[r].pc = "idle" THEN ses[r]
                 ELSE [ses[r] EXCEPT !.spent = @ + 1, !.z = Older(@), !.grace = Max({@ - 1, 0})]]
    /\ UNCHANGED liveToken

SessionTokensNext ==
    \/ TokensTick
    \/ \E r \in SessionRequests :
         \/ LoadSession(r) \/ RefreshBeforeExpiry(r) \/ RefreshClaims(r) \/ RetrieveAgain(r)
         \/ UserinfoFail(r) \/ InfoInterval(r) \/ HookGrant(r) \/ SaveSession(r) \/ EndRequest(r)

SessionTokensSpec == SessionTokensInit /\ [][SessionTokensNext]_tokenVars

-----------------------------------------------------------------------------
(* Properties                                                                *)

\* When a request has rotated a refresh token and is done with the session,
\* on whatever way, the new token is in the stored session, or its result is
\* in the refresh cache where the next request finds it, or the request went
\* on for longer than OIDC_REFRESH_CACHE_TTL and could not save (a slow
\* userinfo endpoint that then fails, a failing save, or an info request that
\* does not extend the session): only so is it lost.
RotationKept(r) ==
    LET s == ses[r] IN
    \A n \in s.made : \/ stored'.rt > n
                      \/ results'[n] > 0
                      \/ s.spent >= ResultTTL /\ (s.kind = "peek" \/ ~ses'[r].served)

\* A request that saves its copy, be it older than what is stored by then,
\* leaves a refresh token that is live or that can still be exchanged for the
\* next one from the refresh cache, unless it took longer than the token that
\* it loaded could be exchanged.
SaveUsable(r) ==
    LET s == ses[r] IN
    (ses'[r].served /\ stored' = s.z /\ s.grace > 0)
        => stored'.rt = liveToken' \/ results'[stored'.rt] > 0

\* The live refresh token is not lost to the error paths that do not save,
\* nor to requests of the session that save the copy they loaded before
\* another one rotated it.
RotationRecoverable ==
    [][\A r \in SessionRequests :
          (/\ ses[r].pc # "idle" /\ ~ses[r].served /\ ~stored'.gone
           /\ ses'[r].pc = "idle" \/ ses'[r].served)
             => RotationKept(r) /\ SaveUsable(r)]_tokenVars

\* OIDCRefreshAccessTokenBeforeExpiry: the access token that the application
\* gets was good for more than the configured time when it was looked at,
\* less the time that its grant had been in the refresh cache: its expiry is
\* counted from the moment that it was applied (session.c:825), and that
\* error does not grow when it is taken from there again and again.
TokenGoodForApp ==
    \A r \in SessionRequests :
        LET s == ses[r] IN
        (s.kind = "app" /\ s.served /\ BeforeExpiry >= 0)
            => trueLeft[s.z.rt] + s.spent + ResultTTL - 1 > BeforeExpiry

\* The claims that the application gets are no older than
\* OIDCUserInfoRefreshInterval when it gets them.
ClaimsFreshForApp ==
    \A r \in SessionRequests :
        LET s == ses[r] IN
        (s.kind = "app" /\ s.served /\ UserinfoInterval >= 0)
            => s.z.claims /\ s.z.age <= UserinfoInterval + s.spent

\* What a request hands to the application, token and claims, is as good
\* as the settings ask for.
GoodForApp == TokenGoodForApp /\ ClaimsFreshForApp
=============================================================================
