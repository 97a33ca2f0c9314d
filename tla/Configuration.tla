---------------------------- MODULE Configuration ----------------------------
(***************************************************************************)
(* From the directives to a running server: the configuration of the main  *)
(* server and of its virtual hosts is read, merged, completed and checked, *)
(* the process-wide objects are created, and all of it again on a graceful *)
(* restart.                                                                *)
(*                                                                         *)
(* Server 1 is the main server.  httpd is external: it runs post_config    *)
(* twice when it starts, and lets a virtual host without any directive of  *)
(* this module share the main server's configuration object.               *)
(***************************************************************************)
EXTENDS FiniteSets, Naturals

CONSTANTS ServerCount,      \* the main server and its virtual hosts
          WithDirectives,   \* the servers that may have directives
          DirectiveBound,   \* directives in the configuration file
          RestartBound,     \* graceful restarts
          Generated,        \* the passphrase that is generated for a server without one
          ConfigFaults      \* subset of {"value", "mutex", "kdf"}

ASSUME ConfigAssumption ==
    /\ ServerCount \in Nat \ {0}
    /\ WithDirectives \subseteq 1..ServerCount
    /\ DirectiveBound \in Nat
    /\ RestartBound \in Nat
    /\ \A s \in 1..ServerCount : Generated[s] \notin {"", "null"}
    /\ ConfigFaults \subseteq {"value", "mutex", "kdf"}

Servers == 1..ServerCount
Main == 1
Nobody == 0
Origins == Servers \cup {Nobody}

\* A cookie domain is the host of one server, or one that all hosts are in.
Everywhere == ServerCount + 1
Domains == Origins \cup {Everywhere}

ServerMembers == {"redirect_uri", "metadata_dir", "private_keys"}
ProviderMembers == {"metadata_url", "issuer", "authorization_endpoint", "client_id", "dpop"}
OauthMembers == {"oauth_metadata", "oauth_client", "introspection", "verify_keys"}
Members == ServerMembers \cup ProviderMembers \cup OauthMembers

\* Passphrases: two that are configured, the empty one, and those that are
\* generated, one for each server.
Given == {"x", "y", ""}
NoSecret == "null"
Secrets == Given \cup {Generated[s] : s \in Servers} \cup {NoSecret}

VARIABLES cphase,       \* "read", "post", "check", "running", "refused"
          own,          \* what each server's directives say
          conf,         \* the configuration objects
          cursor,       \* the server whose turn it is
          kdf,          \* the cache of derived keys, by passphrase
          statics,      \* the process-wide objects
          restarts,
          written       \* directives so far

confVars == <<cphase, own, conf, cursor, kdf, statics, restarts, written>>

\* by: the server that a setting comes from, by member; a pair of settings
\* is a record of the origins of its parts.  relative: the redirect URI is a
\* path only; otherwise its host is that of the server that it comes from.
Config == [by : [Members -> Origins], secret : [1..2 -> Secrets], key : [1..2 -> Secrets],
           proxy : [host : Origins, credentials : Origins],
           auth : [method : Origins, alg : Origins], relative : BOOLEAN, domain : Domains,
           merged : BOOLEAN, inherited : BOOLEAN]

ConfigTypeOK ==
    /\ cphase \in {"read", "post", "check", "running", "refused"}
    /\ own \in [Servers -> Config] /\ conf \in [Servers -> Config]
    /\ cursor \in 1..ServerCount + 1
    /\ kdf \in [Secrets -> Secrets]
    /\ statics \in [marked : BOOLEAN, refresh_mutex : {"null", "live", "dead"},
                    dir_default : {"null", "live", "dead"}]
    /\ restarts \in 0..RestartBound /\ written \in 0..DirectiveBound

(* oidc_cfg_server_create, with oidc_cfg_provider_init, oidc_cfg_oauth_create *)
Created == [by |-> [m \in Members |-> Nobody], secret |-> [i \in 1..2 |-> NoSecret],
            key |-> [i \in 1..2 |-> NoSecret],
            proxy |-> [host |-> Nobody, credentials |-> Nobody],
            auth |-> [method |-> Nobody, alg |-> Nobody], relative |-> FALSE, domain |-> Nobody,
            merged |-> FALSE, inherited |-> FALSE]

NoKeys == [x \in Secrets |-> NoSecret]

ConfigInit ==
    /\ cphase = "read" /\ cursor = Main /\ kdf = NoKeys /\ restarts = 0 /\ written = 0
    /\ own = [s \in Servers |-> Created] /\ conf = own
    /\ statics = [marked |-> FALSE, refresh_mutex |-> "null", dir_default |-> "null"]

-----------------------------------------------------------------------------
(* Directives                                                               *)

IsSet(s) == own[s] # Created

(* A directive that is accepted changes the server's own object; one with a  *)
(* value that does not parse stops httpd.                                    *)
Accepts(s, c) ==
    /\ cphase = "read" /\ written < DirectiveBound /\ c # own[s]
    /\ own' = [own EXCEPT ![s] = c] /\ written' = written + 1
    /\ UNCHANGED <<cphase, conf, cursor, kdf, statics, restarts>>

SetServerMember(s, m) == m \in ServerMembers \ {"redirect_uri"} /\ Accepts(s, [own[s] EXCEPT !.by[m] = s])
SetProviderMember(s, m) == m \in ProviderMembers /\ Accepts(s, [own[s] EXCEPT !.by[m] = s])
SetOauthMember(s, m) == m \in OauthMembers /\ Accepts(s, [own[s] EXCEPT !.by[m] = s])

SetRedirectUri(s, relative) ==
    Accepts(s, [own[s] EXCEPT !.by = [@ EXCEPT !["redirect_uri"] = s], !.relative = relative])

SetCookieDomain(s, d) == Accepts(s, [own[s] EXCEPT !.domain = d])

(* oidc_cmd_crypto_passphrase_set: the second argument is optional, and      *)
(* without it an earlier one stays.                                          *)
SetPassphrase(s, first, second) ==
    Accepts(s, [own[s] EXCEPT !.secret = [i \in 1..2 |-> IF i = 1 THEN first
                                          ELSE IF second = NoSecret THEN @[2] ELSE second]])

(* oidc_cmd_outgoing_proxy_set *)
SetProxy(s, credentials) ==
    Accepts(s, [own[s] EXCEPT !.proxy = [host |-> s, credentials |-> IF credentials THEN s ELSE @.credentials]])

(* oidc_cfg_endpoint_auth_set: without an algorithm in the directive, that   *)
(* of an earlier one stays.                                                  *)
SetEndpointAuth(s, alg) ==
    Accepts(s, [own[s] EXCEPT !.auth = [method |-> s, alg |-> IF alg THEN s ELSE @.alg]])

Refuse ==
    /\ cphase' = "refused" /\ cursor' = Main /\ kdf' = NoKeys
    /\ conf' = [s \in Servers |-> Created]
    /\ UNCHANGED <<own, restarts, written>>

BadDirective == cphase = "read" /\ "value" \in ConfigFaults /\ Refuse /\ UNCHANGED statics

Directive ==
    \E s \in WithDirectives :
        \/ \E m \in Members : SetServerMember(s, m) \/ SetProviderMember(s, m) \/ SetOauthMember(s, m)
        \/ \E first \in Given, second \in {"x", NoSecret} : first # second /\ SetPassphrase(s, first, second)
        \/ \E b \in BOOLEAN : SetProxy(s, b) \/ SetEndpointAuth(s, b) \/ SetRedirectUri(s, b)
        \/ \E d \in {s, Everywhere} : SetCookieDomain(s, d)

-----------------------------------------------------------------------------
(* Merging                                                                  *)

(* _oidc_cfg_merge_ptr, _oidc_cfg_merge_pos_int *)
Merged(add, base) == IF add # Nobody THEN add ELSE base

(* oidc_cfg_provider_merge: the method and its algorithm are one setting.    *)
MergedAuth(add, base) ==
    [method |-> Merged(add.method, base.method),
     alg |-> IF add.method # Nobody THEN add.alg ELSE Merged(add.alg, base.alg)]

(* _oidc_cfg_merge_outgoing_proxy *)
MergedProxyParts(add, base) ==
    [host |-> Merged(add.host, base.host), credentials |-> Merged(add.credentials, base.credentials)]

MergedProxy(add, base) == IF add.host # Nobody THEN add ELSE base

(* oidc_cfg_server_merge, with _oidc_cfg_merge_crypto_passphrase *)
ServerMerge(base, add) ==
    LET pass == IF add.secret[1] # NoSecret THEN add ELSE base IN
    [by |-> [m \in Members |-> Merged(add.by[m], base.by[m])],
     secret |-> pass.secret, key |-> pass.key,
     proxy |-> MergedProxy(add.proxy, base.proxy), auth |-> MergedAuth(add.auth, base.auth),
     relative |-> IF add.by["redirect_uri"] # Nobody THEN add.relative ELSE base.relative,
     domain |-> Merged(add.domain, base.domain), merged |-> TRUE,
     inherited |-> add.by["redirect_uri"] = Nobody /\ base.by["redirect_uri"] # Nobody]

ReadDone ==
    /\ cphase = "read"
    /\ conf' = [s \in Servers |-> IF s # Main /\ IsSet(s) THEN ServerMerge(own[Main], own[s]) ELSE own[s]]
    /\ cphase' = "post" /\ cursor' = Main
    /\ UNCHANGED <<own, kdf, statics, restarts, written>>

\* The object that a server uses.
Object(s) == IF IsSet(s) THEN s ELSE Main

-----------------------------------------------------------------------------
(* post_config                                                              *)

(* oidc_post_config is called twice when httpd starts; the first time it     *)
(* only leaves a mark in the process pool.                                   *)
PostConfigFirst ==
    /\ cphase = "post" /\ ~statics.marked
    /\ statics' = [statics EXCEPT !.marked = TRUE]
    /\ UNCHANGED <<cphase, own, conf, cursor, kdf, restarts, written>>

(* oidc_cfg_dir_post_config, and oidc_cfg_post_config of one server: what is *)
(* there already is not made again.                                          *)
PostConfigServer ==
    /\ cphase = "post" /\ statics.marked /\ cursor <= ServerCount
    /\ \/ /\ statics' = [statics EXCEPT !.refresh_mutex = IF @ = "null" THEN "live" ELSE @,
                                        !.dir_default = IF @ = "null" THEN "live" ELSE @]
          /\ cursor' = cursor + 1
          /\ UNCHANGED <<cphase, own, conf, kdf, restarts, written>>
       \/ /\ "mutex" \in ConfigFaults /\ Refuse
          /\ statics' = [statics EXCEPT !.refresh_mutex = "null"]

PostConfigDone ==
    /\ cphase = "post" /\ cursor > ServerCount
    /\ cphase' = "check" /\ cursor' = Main /\ kdf' = NoKeys
    /\ UNCHANGED <<own, conf, statics, restarts, written>>

-----------------------------------------------------------------------------
(* Checking                                                                 *)

Has(c, m) == c.by[m] # Nobody

(* oidc_check_config_openid_openidc_provider *)
ProviderComplete(c) ==
    IF Has(c, "metadata_dir") THEN ~Has(c, "metadata_url")
    ELSE /\ Has(c, "metadata_url") \/ (Has(c, "issuer") /\ Has(c, "authorization_endpoint"))
         /\ Has(c, "client_id")

OpenidcConfigured(c) == \E m \in {"metadata_dir", "issuer", "metadata_url"} : Has(c, m)
OauthConfigured(c) == \E m \in OauthMembers : Has(c, m)

(* oidc_check_config_openid_openidc_cookie_domain, of the URI's host         *)
DomainSuits(c) == c.relative \/ c.domain \in {Nobody, Everywhere, c.by["redirect_uri"]}

(* oidc_check_config_openid_openidc *)
OpenidcOk(c) ==
    /\ OpenidcConfigured(c) /\ Has(c, "redirect_uri") /\ ProviderComplete(c) /\ DomainSuits(c)
    /\ Has(c, "dpop") => Has(c, "private_keys")

(* oidc_check_config_oauth: metadata suffice, otherwise tokens are validated *)
(* by introspection or with keys, one of the two.                            *)
OauthOk(c) == Has(c, "oauth_metadata") \/ (Has(c, "introspection") # Has(c, "verify_keys"))

(* oidc_crypto_passphrase_derive_keys_cached: an empty passphrase has no     *)
(* key; a key that was derived for another server is taken from the cache.   *)
KeyOf(secret) == IF secret \in {NoSecret, ""} THEN NoSecret ELSE secret

DeriveKeys(c, cache) ==
    [i \in 1..2 |-> IF c.key[i] # NoSecret THEN c.key[i]
                    ELSE IF cache[c.secret[i]] # NoSecret THEN cache[c.secret[i]] ELSE KeyOf(c.secret[i])]

RememberFirst(cache, secret, keys) ==
    [x \in Secrets |-> IF x = secret[1] THEN keys[IF keys[2] # NoSecret THEN 2 ELSE 1] ELSE cache[x]]

Remember(cache, secret, keys) ==
    [x \in Secrets |-> IF x = secret[1] THEN keys[1] ELSE IF x = secret[2] THEN keys[2] ELSE cache[x]]

(* oidc_config_check_vhost_config: an inherited redirect URI does not make   *)
(* a virtual host a relying party.                                           *)
VhostOkOwnUri(c) ==
    /\ (OpenidcConfigured(c) /\ ~c.inherited) => OpenidcOk(c)
    /\ OauthConfigured(c) => OauthOk(c)

VhostOk(c) ==
    LET intent == Has(c, "redirect_uri") /\ ~c.inherited /\ ~OauthConfigured(c) IN
    /\ OpenidcConfigured(c) \/ intent => OpenidcOk(c)
    /\ OauthConfigured(c) => OauthOk(c)

(* oidc_cfg_check_vhosts: without any merged configuration the main server   *)
(* is checked, otherwise the merged ones are and the others only get their   *)
(* keys.                                                                     *)
AnyMerged == \E s \in Servers : conf[Object(s)].merged

CheckServer ==
    /\ cphase = "check" /\ cursor <= ServerCount /\ (AnyMerged \/ cursor = Main)
    /\ LET o == Object(cursor)
           full == conf[o].merged \/ ~AnyMerged
           secret == IF conf[o].secret[1] = NoSecret /\ full
                       THEN [conf[o].secret EXCEPT ![1] = Generated[cursor]] ELSE conf[o].secret
           keys == DeriveKeys([conf[o] EXCEPT !.secret = secret], kdf)
       IN  \/ /\ full => VhostOk(conf[o])
              /\ conf' = [conf EXCEPT ![o].secret = secret, ![o].key = keys]
              /\ kdf' = IF AnyMerged THEN Remember(kdf, secret, keys) ELSE kdf
              /\ cursor' = cursor + 1
              /\ UNCHANGED <<cphase, own, statics, restarts, written>>
           \/ /\ (full /\ ~VhostOk(conf[o])) \/ "kdf" \in ConfigFaults
              /\ Refuse /\ UNCHANGED statics

CheckDone ==
    /\ cphase = "check" /\ (cursor > ServerCount \/ (~AnyMerged /\ cursor > Main))
    /\ cphase' = "running"
    /\ UNCHANGED <<own, conf, cursor, kdf, statics, restarts, written>>

-----------------------------------------------------------------------------
(* oidc_process_cleanup, oidc_cfg_process_cleanup: a cleanup of the          *)
(* configuration pool, which a graceful restart clears.  What belongs to the *)
(* process pool stays.                                                       *)
CleanupKept == [statics EXCEPT !.refresh_mutex = IF @ = "null" THEN @ ELSE "dead"]

Cleanup == [statics EXCEPT !.refresh_mutex = "null"]

Restart ==
    /\ cphase = "running" /\ restarts < RestartBound
    /\ restarts' = restarts + 1 /\ statics' = Cleanup
    /\ cphase' = "read" /\ cursor' = Main /\ kdf' = NoKeys
    /\ conf' = [s \in Servers |-> Created]
    /\ UNCHANGED <<own, written>>

\* The process ends, and another one is started with a file that is empty.
StartAgain ==
    /\ cphase \in {"running", "refused"}
    /\ cphase' = "read" /\ cursor' = Main /\ kdf' = NoKeys /\ restarts' = 0 /\ written' = 0
    /\ own' = [s \in Servers |-> Created] /\ conf' = own'
    /\ statics' = [marked |-> FALSE, refresh_mutex |-> "null", dir_default |-> "null"]

ConfigNext ==
    \/ Directive \/ BadDirective \/ ReadDone
    \/ PostConfigFirst \/ PostConfigServer \/ PostConfigDone
    \/ CheckServer \/ CheckDone \/ Restart \/ StartAgain

ConfigSpec == ConfigInit /\ [][ConfigNext]_confVars

-----------------------------------------------------------------------------
(* Properties                                                               *)

\* In a running server every passphrase has the key that is derived from it,
\* whichever server it was written for, in whatever order the servers were
\* merged and checked, and also after a restart: otherwise a cookie or a
\* cache entry of one server cannot be read by another one that has the same
\* passphrase.
KeysDerived ==
    cphase = "running" =>
        \A s \in Servers, i \in 1..2 : conf[Object(s)].key[i] = KeyOf(conf[Object(s)].secret[i])

\* Settings that belong together come from one server: the credentials for
\* one server's proxy are not sent to the proxy of another, nor is the
\* algorithm of one server's method used with the method of another.
\* (Within one server an algorithm outlives the directive that named it.)
GroupsWhole ==
    \A s \in Servers :
        /\ conf[s].proxy.credentials \in {conf[s].proxy.host, Nobody}
        /\ conf[s].auth.alg \in {conf[s].auth.method, Nobody}

\* No virtual host with directives of its own runs with half of a relying
\* party or of a resource server, wherever the halves come from: with a
\* provider it has a redirect URI, on a host that its cookies are sent to,
\* and a client too; with any resource server setting it can validate tokens.
Complete(c) ==
    /\ OpenidcConfigured(c) =>
         /\ Has(c, "redirect_uri") /\ (Has(c, "client_id") \/ Has(c, "metadata_dir"))
         /\ c.relative \/ c.domain \in {Nobody, Everywhere, c.by["redirect_uri"]}
    /\ OauthConfigured(c) => \E m \in OauthMembers \ {"oauth_client"} : Has(c, m)

VhostsComplete ==
    cphase = "running" => \A s \in Servers \ {Main} : IsSet(s) => Complete(conf[s])

\* While the server runs, the objects that all its servers share exist,
\* through any number of restarts: nobody uses a destroyed mutex or a list
\* whose memory is gone.
StaticsLive == cphase = "running" => statics.refresh_mutex = "live" /\ statics.dir_default = "live"

\* A server that runs has a whole configuration: derived keys, merged
\* groups, complete virtual hosts and live static objects.
ConfigurationSound == KeysDerived /\ GroupsWhole /\ VhostsComplete /\ StaticsLive
=============================================================================
