--------------------------- MODULE Authorization ---------------------------
(***************************************************************************)
(* "Require claim": whether the claims of a user match the words of the    *)
(* directive.  A word is a path of claim names, separated by dots, that    *)
(* ends in ":" and a value or in "~" and a regular expression.  Claim      *)
(* names may contain separators ("https://test.com/pay"), so that a word   *)
(* is not parsed: it is compared with the names that the claims have.      *)
(*                                                                         *)
(* Strings are sequences of symbols: "a" a letter, "1" a digit, "true" the *)
(* keyword, and the separators.  Numbers are counted in "1"s: 2 is "11"    *)
(* and <<1, 1>> is "1.1".  A JSON value is a record whose one field is its *)
(* type.                                                                   *)
(***************************************************************************)
EXTENDS Integers, Sequences, SequencesExt

CONSTANTS Directives,     \* the words of each "Require claim"
          Objects,        \* the JSON objects that hold claims, and those inside them
          ClaimSources    \* whether there is a user, and the objects that hold its claims

Symbols == {"a", "1", "true", ":", "~", "."}
Is(type, val) == type \in DOMAIN val

(* A directive is any number of words.  A member of an object has a name and *)
(* a value, which may be an object.                                          *)
ASSUME AuthorizationAssumption ==
    /\ Directives \subseteq Seq(Seq(Symbols))
    /\ \A o \in Objects : /\ DOMAIN o \subseteq Seq(Symbols)
                         /\ \A k \in DOMAIN o : Is("object", o[k]) => o[k].object \in Objects
    /\ \A s \in ClaimSources : /\ s.user \in BOOLEAN
                              /\ {s.scope, s.claims, s.idToken} \subseteq Objects

VARIABLES sources,      \* the user, and the claims from the scope (as an object with that
                        \* one member), from the userinfo endpoint and from the ID token
          directive,    \* the words to match
          verdict       \* the outcome, "none" before

authzVars == <<sources, directive, verdict>>

NoClaims == [k \in {} |-> k]

AuthzInit ==
    /\ sources \in ClaimSources
    /\ directive = <<>>
    /\ verdict = "none"

-----------------------------------------------------------------------------
(* Values                                                                    *)

(* sscanf: the longest prefix that is a number; the rest is ignored.         *)
Ones(spec) == CHOOSE n \in 0 .. Len(spec) :
    (\A i \in 1 .. n : spec[i] = "1") /\ (n < Len(spec) => spec[n + 1] # "1")
MatchInteger(spec, n) == Ones(spec) > 0 /\ Ones(spec) = n
MatchReal(spec, x) ==
    LET i == Ones(spec)
        j == IF i < Len(spec) /\ spec[i + 1] = "." THEN Ones(SubSeq(spec, i + 2, Len(spec))) ELSE 0
    IN  i + j > 0 /\ x = <<i, j>>

(* The handlers of scalars, by type; objects have none.                      *)
MatchScalar(spec, val) ==
    \/ Is("string", val) /\ val.string = spec
    \/ Is("integer", val) /\ MatchInteger(spec, val.integer)
    \/ Is("real", val) /\ MatchReal(spec, val.real)
    \/ Is("literal", val) /\ spec = <<val.literal>>

(* oidc_authz_match_value: an array matches by one of its scalars.           *)
MatchValue(spec, val) ==
    \/ MatchScalar(spec, val)
    \/ Is("array", val) /\ \E i \in DOMAIN val.array : MatchScalar(spec, val.array[i])

(* A regular expression of letters and "any character" matches anywhere in   *)
(* the string.                                                               *)
PcreExec(spec, s) ==
    \E at \in 0 .. Len(s) - Len(spec) :
        \A i \in DOMAIN spec : spec[i] \in {".", s[at + i]}

(* oidc_authz_match_pcre: strings, and the strings of an array.              *)
MatchPcre(spec, val) ==
    \/ Is("string", val) /\ PcreExec(spec, val.string)
    \/ /\ Is("array", val)
       /\ \E i \in DOMAIN val.array :
              Is("string", val.array[i]) /\ PcreExec(spec, val.array[i].string)

-----------------------------------------------------------------------------
(* Names and separators                                                      *)

Starts(spec, sep) == spec # <<>> /\ Head(spec) = sep
Past(spec, sep) == IF Starts(spec, sep) THEN Tail(spec) ELSE spec
After(key, spec) == SubSeq(spec, Len(key) + 1, Len(spec))

(* The name is all of the claim's, not a part of it.                         *)
NameMatchesPart(key, spec) == key # <<>> /\ IsPrefix(Front(key), spec)

NameMatches(key, spec) == IsPrefix(key, spec)

(* A call of oidc_authz_match_claim has what is left of the word and an      *)
(* object.  These are the names of the object that the word begins with.     *)
Named(call) == {key \in DOMAIN call.object : NameMatches(key, call.spec)}

(* oidc_auth_handle_separator: ":", "~" and "." are tried in this order, and *)
(* one whose handler did not match is skipped before the next is looked for. *)
HandleSeparator(val, spec) ==
    LET spec2 == Past(spec, ":")
    IN  \/ Starts(spec, ":") /\ MatchValue(Tail(spec), val)
        \/ Starts(spec2, "~") /\ MatchPcre(Tail(spec2), val)

(* oidc_authz_separator_dot: the calls for the objects inside.               *)
SeparatorDot(call) ==
    LET left(key) == Past(Past(After(key, call.spec), ":"), "~")
    IN  {[spec |-> Tail(left(key)), object |-> call.object[key].object] :
            key \in {k \in Named(call) : Starts(left(k), ".") /\ Is("object", call.object[k])}}

(* oidc_authz_match_claim: the calls that it comes to, by their depth.  Each *)
(* takes a dot from the word, so that they are no deeper than it is long.    *)
ClaimCalls(spec, object) ==
    LET at[n \in 0 .. Len(spec)] ==
            IF n = 0 THEN {[spec |-> spec, object |-> object]}
            ELSE UNION {SeparatorDot(call) : call \in at[n - 1]}
    IN  at

MatchClaim(spec, object) ==
    \E n \in 0 .. Len(spec) : \E call \in ClaimCalls(spec, object)[n] : \E key \in Named(call) :
        HandleSeparator(call.object[key], After(key, call.spec))

-----------------------------------------------------------------------------
(* The request                                                               *)

(* oidc_json_merge: the names of src, and those that only dst has.           *)
Merge(src, dst) == [k \in DOMAIN src \cup DOMAIN dst |-> IF k \in DOMAIN src THEN src[k] ELSE dst[k]]

(* oidc_authz_merge_claims: what comes later replaces what came before.      *)
MergeClaimsFirst == Merge(sources.claims, Merge(sources.idToken, sources.scope))

MergeClaims == Merge(sources.idToken, Merge(sources.claims, sources.scope))

(* oidc_authz_24_worker: one word that matches is enough.  No words stand    *)
(* for an expression that could not be evaluated, too.                       *)
Worker(words) ==
    IF ~sources.user THEN "DENIED_NO_USER"
    ELSE IF \E i \in DOMAIN words : /\ \A j \in 1 .. i : words[j] # <<>>
                                   /\ MatchClaim(words[i], MergeClaims)
           THEN "GRANTED"
    ELSE "DENIED"

Require ==
    /\ verdict = "none"
    /\ directive' \in Directives
    /\ verdict' = Worker(directive')
    /\ UNCHANGED sources

AuthzNext == Require

AuthzSpec == AuthzInit /\ [][AuthzNext]_authzVars

-----------------------------------------------------------------------------
(* What a directive means                                                    *)

(* The claims that count: a name that the ID token has is the ID token's.    *)
Counting ==
    {<<k, sources.idToken[k]>> : k \in DOMAIN sources.idToken}
    \cup {<<k, sources.claims[k]>> : k \in DOMAIN sources.claims \ DOMAIN sources.idToken}
    \cup {<<k, sources.scope[k]>> : k \in DOMAIN sources.scope
                                          \ (DOMAIN sources.claims \cup DOMAIN sources.idToken)}

(* The members of objects, each with the path that leads to it; a separator  *)
(* of a value may stand before the dot, and means nothing there.             *)
Dots == {<<".">>, <<":", ".">>, <<"~", ".">>, <<":", "~", ".">>}
Member(node, sep, k) == <<node[1] \o sep \o k, node[2].object[k]>>
MembersOf(nodes) ==
    UNION {{Member(node, sep, k) : sep \in Dots, k \in DOMAIN node[2].object} :
           node \in {n \in nodes : Is("object", n[2])}}

Nodes(depth) ==
    LET level[n \in 0 .. depth] == IF n = 0 THEN Counting ELSE MembersOf(level[n - 1])
    IN  UNION {level[n] : n \in 0 .. depth}

Means(word, node) ==
    LET rest == After(node[1], word) IN
    /\ IsPrefix(node[1], word)
    /\ \/ Starts(rest, ":") /\ MatchValue(Tail(rest), node[2])
       \/ Starts(rest, "~") /\ MatchPcre(Tail(rest), node[2])
       \/ IsPrefix(<<":", "~">>, rest) /\ MatchPcre(Tail(Tail(rest)), node[2])

\* Access is granted if and only if the user has, in the claims that count,
\* one that a word of the directive describes: all of its path leads to the
\* claim, whatever separators the names contain, and the value matches.
AccessByClaim ==
    verdict # "none" =>
        ((verdict = "GRANTED") <=>
            /\ sources.user
            /\ \E i \in DOMAIN directive :
                 /\ \A j \in 1 .. i : directive[j] # <<>>
                 /\ \E node \in Nodes(Len(directive[i])) : Means(directive[i], node))
=============================================================================
