----------------------------- MODULE HttpClient -----------------------------
(***************************************************************************)
(* The outgoing calls of one process (http.c): curl handles that are kept  *)
(* in a pool between calls, the options that a call sets on its handle,    *)
(* retries, and the buffer that curl's callback fills.  libcurl and the    *)
(* servers are external.                                                   *)
(***************************************************************************)
EXTENDS Naturals, Sequences, FiniteSets

CONSTANTS HttpThreads,      \* threads that make calls
          Handles,          \* curl handles
          HttpPoolMax,      \* OIDC_HTTP_CURL_POOL_MAX
          Retries,          \* the retries of the timeout setting
          BodyMax,          \* OIDC_CURL_RESPONSE_DATA_SIZE_MAX, in parts
          HttpFaults        \* subset of {"connect", "partial", "timeout", "fork"}

NoHandle == "null"

ASSUME HttpAssumption ==
    /\ Cardinality(Handles) >= Cardinality(HttpThreads) + HttpPoolMax
    /\ NoHandle \notin Handles /\ HttpPoolMax \in Nat /\ Retries \in Nat /\ BodyMax \in Nat
    /\ HttpFaults \subseteq {"connect", "partial", "timeout", "fork"}

VARIABLES hpool,    \* _oidc_http_curl_pool, a stack
          opts,     \* whose options are set on a handle
          poisoned, \* handles whose last transfer failed
          hcall     \* the calls

httpVars == <<hpool, opts, poisoned, hcall>>

NoCall == [pc |-> "idle", handle |-> NoHandle, attempt |-> 0, body |-> <<>>]

HttpTypeOK ==
    /\ hpool \in Seq(Handles) /\ Len(hpool) <= HttpPoolMax
    /\ opts \in [Handles -> SUBSET HttpThreads]
    /\ poisoned \subseteq Handles
    /\ hcall \in [HttpThreads -> [pc : {"idle", "setup", "perform", "ok", "failed", "reset"},
                                  handle : Handles \cup {NoHandle}, attempt : 0..Retries + 1,
                                  body : Seq(0..Retries)]]

HttpInit ==
    /\ hpool = <<>> /\ opts = [h \in Handles |-> {}] /\ poisoned = {}
    /\ hcall = [t \in HttpThreads |-> NoCall]

Pooled == {hpool[i] : i \in DOMAIN hpool}
InUse == {hcall[t].handle : t \in HttpThreads}

(* oidc_http_curl_acquire: the handle on top of the pool, or a new one.      *)
Acquire(t) ==
    /\ hcall[t].pc = "idle"
    /\ \/ /\ hpool # <<>>
          /\ hcall' = [hcall EXCEPT ![t] = [NoCall EXCEPT !.pc = "setup", !.handle = hpool[Len(hpool)]]]
          /\ hpool' = SubSeq(hpool, 1, Len(hpool) - 1)
          /\ UNCHANGED <<opts, poisoned>>
       \/ /\ hpool = <<>>
          /\ \E h \in Handles \ (Pooled \cup InUse) :
               /\ hcall' = [hcall EXCEPT ![t] = [NoCall EXCEPT !.pc = "setup", !.handle = h]]
               /\ opts' = [opts EXCEPT ![h] = {}] /\ poisoned' = poisoned \ {h}
          /\ UNCHANGED hpool

(* oidc_http_request_setup_*, _build_header_list, _pass_cookies: what only   *)
(* this call has, be it a proxy, headers, cookies, credentials or a body.    *)
Options(t) == {t}

(* oidc_http_request: the options of this call are set on top of what the    *)
(* handle has.                                                               *)
SetOptions(t) ==
    /\ hcall[t].pc = "setup"
    /\ opts' = [opts EXCEPT ![hcall[t].handle] = @ \cup Options(t)]
    /\ hcall' = [hcall EXCEPT ![t].pc = "perform"]
    /\ UNCHANGED <<hpool, poisoned>>

(* oidc_http_response_data: each part of a response goes behind what is in   *)
(* the buffer, which has a limit.                                            *)
Fits(body, parts) == Len(body) + parts <= BodyMax
WithParts(body, attempt, parts) == body \o [i \in 1..parts |-> attempt]

(* oidc_http_request_perform_with_retries, one attempt: a timeout ends the   *)
(* call, any other failure is retried.                                       *)
FailedAttempt(t, body) ==
    /\ poisoned' = poisoned \cup {hcall[t].handle}
    /\ hcall' = [hcall EXCEPT ![t].body = body, ![t].attempt = @ + 1,
                              ![t].pc = IF hcall[t].attempt < Retries THEN "perform" ELSE "failed"]

Perform(t) ==
    /\ hcall[t].pc = "perform"
    /\ LET body == hcall[t].body
           attempt == hcall[t].attempt IN
       \/ \E parts \in 1..BodyMax :
             IF Fits(body, parts)
               THEN /\ hcall' = [hcall EXCEPT ![t].pc = "ok", ![t].body = WithParts(body, attempt, parts)]
                    /\ poisoned' = poisoned \ {hcall[t].handle}
               ELSE FailedAttempt(t, body)
       \/ "connect" \in HttpFaults /\ FailedAttempt(t, body)
       \/ /\ "partial" \in HttpFaults /\ Fits(body, 1)
          /\ FailedAttempt(t, WithParts(body, attempt, 1))
       \/ /\ "timeout" \in HttpFaults
          /\ poisoned' = poisoned \cup {hcall[t].handle}
          /\ hcall' = [hcall EXCEPT ![t].pc = "failed"]
    /\ UNCHANGED <<hpool, opts>>

(* oidc_http_curl_release: the handle of a call that succeeded is reset and, *)
(* if there is room, goes back to the pool; any other is destroyed.          *)
ResetNot(t) ==
    /\ hcall[t].pc = "ok"
    /\ hcall' = [hcall EXCEPT ![t].pc = "reset"]
    /\ UNCHANGED <<hpool, opts, poisoned>>

Reset(t) ==
    /\ hcall[t].pc = "ok"
    /\ opts' = [opts EXCEPT ![hcall[t].handle] = {}]
    /\ hcall' = [hcall EXCEPT ![t].pc = "reset"]
    /\ UNCHANGED <<hpool, poisoned>>

ReleaseAny(t) ==
    /\ hcall[t].pc \in {"reset", "failed"}
    /\ hpool' = IF Len(hpool) < HttpPoolMax THEN Append(hpool, hcall[t].handle) ELSE hpool
    /\ hcall' = [hcall EXCEPT ![t] = NoCall]
    /\ UNCHANGED <<opts, poisoned>>

Release(t) ==
    /\ hcall[t].pc \in {"reset", "failed"}
    /\ hpool' = IF hcall[t].pc = "reset" /\ Len(hpool) < HttpPoolMax
                  THEN Append(hpool, hcall[t].handle) ELSE hpool
    /\ hcall' = [hcall EXCEPT ![t] = NoCall]
    /\ UNCHANGED <<opts, poisoned>>

(* oidc_http_curl_pool_child_init: a child forgets the handles that it has   *)
(* inherited; it is only called before there are threads.                    *)
ForgetInherited ==
    /\ "fork" \in HttpFaults /\ \A t \in HttpThreads : hcall[t] = NoCall
    /\ hpool' = <<>>
    /\ UNCHANGED <<opts, poisoned, hcall>>

HttpNext ==
    \/ \E t \in HttpThreads : Acquire(t) \/ SetOptions(t) \/ Perform(t) \/ Reset(t) \/ Release(t)
    \/ ForgetInherited

HttpSpec == HttpInit /\ [][HttpNext]_httpVars

-----------------------------------------------------------------------------
\* A call is made with its own options only: nothing of an earlier call on
\* the same handle (a bearer token, a client certificate, a body) is sent
\* along, whichever thread the pool gives the handle to.
OwnOptionsOnly == \A t \in HttpThreads : hcall[t].pc = "perform" => opts[hcall[t].handle] = {t}

\* A handle is in one place: no two calls use it at once, it is not in the
\* pool while it is used or twice, and one whose transfer failed never comes
\* back.
HandleInOnePlace ==
    /\ \A t, u \in HttpThreads : hcall[t].handle = hcall[u].handle => t = u \/ hcall[t].handle = NoHandle
    /\ Pooled \cap (InUse \cup poisoned) = {}
    /\ \A i, j \in DOMAIN hpool : hpool[i] = hpool[j] => i = j

\* auth_openidc.conf: "The optional <retries> parameter specifies the number
\* of retry attempts in case of connectivity errors."  A call that a retry
\* has saved returns the response to that retry.
RetryGivesResponse ==
    \A t \in HttpThreads : hcall[t].pc = "ok" =>
        \A i \in DOMAIN hcall[t].body : hcall[t].body[i] = hcall[t].attempt

\* A handle serves one call at a time, with the options of that call.
HandlesSafe == OwnOptionsOnly /\ HandleInOnePlace
=============================================================================
