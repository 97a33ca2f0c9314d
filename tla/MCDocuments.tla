----------------------------- MODULE MCDocuments -----------------------------
(* The configuration and the components under the request handlers, with   *)
(* the choice of a provider and authorization by claims, in one            *)
(* instance.  They share no state here, so that a behaviour is one of the  *)
(* component `part`, and the others stay in one of their initial states.   *)
EXTENDS ProviderMetadata, Configuration, Passphrase, FileCache, RedisPool, Metrics, HttpClient,
        DiscoveryFlow, Authorization, TLC

VARIABLE part

(* Configuration: random passphrases differ from each other and from those  *)
(* that are configured.                                                     *)
GeneratedPassphrases == <<"r1", "r2", "r3">>

(* Discovery: the allow-list with two tabs, and the URLs to return to.      *)
PlainDiscovery ==
    [dir |-> TRUE, listed |-> TRUE, domain |-> FALSE, urls |-> FALSE, path |-> <<"/">>, default |-> TRUE]
DiscoveryCases ==
    {[PlainDiscovery EXCEPT !.listed = l] : l \in BOOLEAN}
    \cup {[PlainDiscovery EXCEPT !.dir = FALSE, !.domain = d, !.urls = u, !.default = ~u] :
             d \in BOOLEAN, u \in BOOLEAN}
    \cup {[PlainDiscovery EXCEPT !.dir = FALSE, !.path = p] : p \in UrlPaths}

(* Authorization: each kind of claim by itself, and claims that are in      *)
(* several places.                                                          *)
Str(s) == [string |-> s]
Obj(keys, vals) == [k \in {keys[i] : i \in DOMAIN keys} |-> vals[CHOOSE i \in DOMAIN keys : keys[i] = k]]
Name == <<"a">>
LongName == <<"a", "a">>
DottedName == <<"a", ".", "a">>
UserClaims ==
    {NoClaims,
     Obj(<<Name>>, <<Str(<<"a">>)>>),
     Obj(<<Name, LongName>>, <<[integer |-> 1], [literal |-> "true"]>>),
     Obj(<<Name>>, <<[object |-> Obj(<<Name>>, <<Str(<<"1">>)>>)]>>),
     Obj(<<Name, DottedName>>, <<[object |-> Obj(<<Name>>, <<[real |-> <<1, 1>>]>>)], Str(<<"a">>)>>),
     Obj(<<Name>>, <<[array |-> <<Str(<<"a">>), [integer |-> 2], [array |-> <<Str(<<"1">>)>>]>>]>>),
     Obj(<<LongName>>, <<[object |-> Obj(<<Name>>, <<[array |-> <<[literal |-> "true"], Str(<<"1", "a">>)>>]>>)]>>),
     Obj(<<Name>>, <<Str(<<"~", "a">>)>>),
     Obj(<<<<>>>>, <<[object |-> Obj(<<<<>>>>, <<[object |-> Obj(<<<<>>>>, <<Str(<<"a">>)>>)]>>)]>>)}
IdTokens == {NoClaims, Obj(<<Name>>, <<[literal |-> "true"]>>)}
Scopes == {NoClaims, Obj(<<Name>>, <<Str(<<"1">>)>>)}
NoSources == [user |-> TRUE, scope |-> NoClaims, claims |-> NoClaims, idToken |-> NoClaims]
AuthzCases ==
    [user : {TRUE}, scope : {NoClaims}, claims : UserClaims, idToken : {NoClaims}]
    \cup [user : BOOLEAN, scope : Scopes, claims : {NoClaims, Obj(<<Name>>, <<Str(<<"a">>)>>)}, idToken : IdTokens]

\* One word of up to five symbols, or two of up to two.
Words(max) == UNION {[1 .. n -> Symbols] : n \in 0 .. max}
AuthzDirectives == {<<>>} \cup {<<one>> : one \in Words(5)} \cup {<<one, two>> : one, two \in Words(2)}

\* The objects of the sources, and those inside them.
Inside(objects) == UNION {{o[k].object : k \in {j \in DOMAIN o : Is("object", o[j])}} : o \in objects}
AuthzObjects == LET one == UNION {{s.scope, s.claims, s.idToken} : s \in AuthzCases}
                IN  one \cup Inside(one) \cup Inside(Inside(one))

Parts == {"metadata", "configuration", "passphrase", "file", "redis", "metrics", "http", "discovery", "authz"}

DocumentsInit ==
    /\ part \in Parts
    /\ part # "redis" => scoped = FALSE
    /\ part # "discovery" => dset = PlainDiscovery
    /\ part # "authz" => sources = NoSources
    /\ MetaInit /\ ConfigInit /\ PassInit /\ FileInit /\ RedisInit /\ MetricsInit /\ HttpInit
    /\ DiscoveryInit /\ AuthzInit

DocumentsNext ==
    \/ /\ part = "metadata" /\ MetaNext
       /\ UNCHANGED <<part, confVars, passVars, fileVars, redisVars, metricVars, httpVars, discoveryVars, authzVars>>
    \/ /\ part = "configuration" /\ ConfigNext
       /\ UNCHANGED <<part, metaVars, passVars, fileVars, redisVars, metricVars, httpVars, discoveryVars, authzVars>>
    \/ /\ part = "passphrase" /\ PassNext
       /\ UNCHANGED <<part, metaVars, confVars, fileVars, redisVars, metricVars, httpVars, discoveryVars, authzVars>>
    \/ /\ part = "file" /\ FileNext
       /\ UNCHANGED <<part, metaVars, confVars, passVars, redisVars, metricVars, httpVars, discoveryVars, authzVars>>
    \/ /\ part = "redis" /\ RedisNext
       /\ UNCHANGED <<part, metaVars, confVars, passVars, fileVars, metricVars, httpVars, discoveryVars, authzVars>>
    \/ /\ part = "metrics" /\ MetricsNext
       /\ UNCHANGED <<part, metaVars, confVars, passVars, fileVars, redisVars, httpVars, discoveryVars, authzVars>>
    \/ /\ part = "http" /\ HttpNext
       /\ UNCHANGED <<part, metaVars, confVars, passVars, fileVars, redisVars, metricVars, discoveryVars, authzVars>>
    \/ /\ part = "discovery" /\ DiscoveryNext
       /\ UNCHANGED <<part, metaVars, confVars, passVars, fileVars, redisVars, metricVars, httpVars, authzVars>>
    \/ /\ part = "authz" /\ AuthzNext
       /\ UNCHANGED <<part, metaVars, confVars, passVars, fileVars, redisVars, metricVars, httpVars, discoveryVars>>

DocumentsSpec ==
    DocumentsInit
    /\ [][DocumentsNext]_<<part, metaVars, confVars, passVars, fileVars, redisVars, metricVars, httpVars,
                           discoveryVars, authzVars>>

(* The workers, requests, children, threads and tabs are interchangeable. *)
Symmetric == Permutations(MetaWorkers)
=============================================================================
