----------------------------- MODULE LogoutToken -----------------------------
(***************************************************************************)
(* Back-channel logout (handle/logout.c): a logout token that arrives more *)
(* than once, at the same time or later, while the clocks of the OP and of *)
(* this host differ.  What the logout itself does to the sessions is in    *)
(* module SessionStore.                                                    *)
(***************************************************************************)
EXTENDS Integers, FiniteSets

CONSTANTS Deliveries,       \* requests to the logout endpoint
          LogoutTokens,     \* tokens that the OP signs
          Slack,            \* OIDCIDTokenIatSlack
          SafetyMargin,     \* the 10 seconds of the cache duration
          DeliveryTime,     \* how long a delivery takes at most
          LogoutEnd,        \* the last instant
          LogoutFaults      \* subset of {"get", "set"}

ASSUME LogoutAssumption ==
    /\ Slack \in Nat /\ SafetyMargin \in Nat /\ LogoutEnd \in Nat
    /\ DeliveryTime \in 0..SafetyMargin - 1
    /\ LogoutFaults \subseteq {"get", "set"}

VARIABLES lnow,
          iat,          \* the time of issue that each token has
          jtis,         \* the jti's in the cache, with the end of the entry
          deliv,        \* the deliveries under way
          acted,        \* tokens that a finished delivery has acted on
          lbroken       \* a call to the cache has failed

logoutVars == <<lnow, iat, jtis, deliv, acted, lbroken>>

NoDelivery == [pc |-> "idle", token |-> "none", late |-> FALSE, age |-> 0]

LogoutTypeOK ==
    /\ lnow \in 0..LogoutEnd
    /\ iat \in [LogoutTokens -> -Slack..LogoutEnd + Slack]
    /\ jtis \in [LogoutTokens -> Int]
    /\ deliv \in [Deliveries -> [pc : {"idle", "lookup", "store", "clean", "refused"},
                                 token : LogoutTokens \cup {"none"}, late : BOOLEAN,
                                 age : 0..DeliveryTime]]
    /\ acted \subseteq LogoutTokens /\ lbroken \in BOOLEAN

\* A clock that is off by no more than the slack when a token is made.
LogoutInit ==
    /\ lnow = 0 /\ acted = {} /\ lbroken = FALSE
    /\ iat \in [LogoutTokens -> -Slack..Slack]
    /\ jtis = [t \in LogoutTokens |-> -1]
    /\ deliv = [d \in Deliveries |-> NoDelivery]

(* oidc_proto_validate_iat: issued just now, give or take the slack.         *)
IatOk(t) == lnow - Slack <= iat[t] /\ iat[t] <= lnow + Slack

(* What oidc_logout_backchannel asks of a token: signed with the algorithm   *)
(* of the provider that its issuer names, for this audience, with the event  *)
(* of a logout and no nonce, with a jti, and a sid or a sub.                 *)
TokenOk(t, shape) == shape = "logout_token" /\ IatOk(t)

(* oidc_logout_backchannel, up to the lookup of the jti.                     *)
Deliver(d, t, shape) ==
    /\ deliv[d].pc = "idle"
    /\ deliv' = [deliv EXCEPT ![d] = [pc |-> IF TokenOk(t, shape) THEN "lookup" ELSE "refused",
                                      token |-> t, late |-> t \in acted, age |-> 0]]
    /\ UNCHANGED <<lnow, iat, jtis, acted, lbroken>>

(* oidc_cache_get_jti: a lookup that fails is taken as "not seen".           *)
LookupJti(d) ==
    /\ deliv[d].pc = "lookup"
    /\ \/ /\ deliv' = [deliv EXCEPT ![d].pc = IF jtis[deliv[d].token] > lnow THEN "refused" ELSE "store"]
          /\ UNCHANGED lbroken
       \/ /\ "get" \in LogoutFaults
          /\ deliv' = [deliv EXCEPT ![d].pc = "store"] /\ lbroken' = TRUE
    /\ UNCHANGED <<lnow, iat, jtis, acted>>

(* The entry outlives every instant at which the token could be accepted.    *)
JtiDurationSlack == Slack + SafetyMargin

JtiDuration == Slack * 2 + SafetyMargin

StoreJti(d) ==
    /\ deliv[d].pc = "store"
    /\ deliv' = [deliv EXCEPT ![d].pc = "clean"]
    /\ \/ jtis' = [jtis EXCEPT ![deliv[d].token] = lnow + JtiDuration] /\ UNCHANGED lbroken
       \/ "set" \in LogoutFaults /\ lbroken' = TRUE /\ UNCHANGED jtis
    /\ UNCHANGED <<lnow, iat, acted>>

(* oidc_logout_cleanup_by_sid, and the answer.                               *)
Cleaned(d) ==
    /\ deliv[d].pc = "clean"
    /\ deliv' = [deliv EXCEPT ![d] = NoDelivery]
    /\ acted' = acted \cup {deliv[d].token}
    /\ UNCHANGED <<lnow, iat, jtis, lbroken>>

AnswerRefused(d) ==
    /\ deliv[d].pc = "refused"
    /\ deliv' = [deliv EXCEPT ![d] = NoDelivery]
    /\ UNCHANGED <<lnow, iat, jtis, acted, lbroken>>

LogoutTick ==
    /\ lnow < LogoutEnd
    /\ \A d \in Deliveries : deliv[d].age < DeliveryTime
    /\ lnow' = lnow + 1
    /\ deliv' = [d \in Deliveries |-> IF deliv[d].pc = "idle" THEN deliv[d]
                                     ELSE [deliv[d] EXCEPT !.age = @ + 1]]
    /\ UNCHANGED <<iat, jtis, acted, lbroken>>

LogoutNext ==
    \/ \E d \in Deliveries :
          \/ \E t \in LogoutTokens, shape \in {"logout_token", "other"} : Deliver(d, t, shape)
          \/ LookupJti(d) \/ StoreJti(d) \/ Cleaned(d) \/ AnswerRefused(d)
    \/ LogoutTick

LogoutSpec == LogoutInit /\ [][LogoutNext]_logoutVars

-----------------------------------------------------------------------------
\* A logout token that has been acted on is never acted on by a delivery
\* that starts later, at whatever time and with whatever difference of the
\* clocks within the slack, unless the cache has failed: a copy of it cannot
\* end the sessions that the user has started since.  (Copies that arrive
\* together may both be acted on, which ends no other session.)
LateCopyRefused == ~lbroken => \A d \in Deliveries : deliv[d].late => deliv[d].pc \in {"lookup", "refused"}

=============================================================================
