# A TLA+ model of mod_auth_openidc

mod_auth_openidc makes an Apache httpd server an OpenID Connect relying party
and an OAuth 2.0 resource server. Its C code is small per request and mostly
sequential; what is hard about it is that many worker processes and threads, on
one or more machines, handle requests of the same browser at the same time, and
meet in a cache, in cookies, in files and at the OpenID Provider (OP).

This directory holds TLA+ modules of those meeting points and of the decisions
that are made between them, TLC configurations that check them on small
instances, and TLAPS proofs. Paths such as `src/cache/shm.c` below are relative
to the root of the repository; `PROJECT.json` gives, for every definition, the
lines that it models.

Run `tlc -config MCShmCache.cfg MCShmCache` for one run, and
`tlapm ShmCacheProofs.tla` for the proofs of a module.

## 1. Inventory

### The parts and how they interact

A request enters `oidc_check_user_id` (`src/mod_auth_openidc.c`). The session
named by the browser's cookie is loaded from the cache. Without a session the
browser is redirected to the OP with a state cookie, after a page on which the
user chooses a provider if there are several. A request for the redirect URI is an
authentication response, a logout or one of a dozen other operations. With a
session, expiry is checked, the access token and the userinfo claims are
refreshed when they are due, the inactivity timeout is extended, the session is
saved if anything changed, and the claims are passed on to the application and
to the authorization checker.

| Part | State it keeps | Operations | Who meets there |
| --- | --- | --- | --- |
| shared-memory cache (`cache/shm.c`) | slots, bucket chains, free list in a segment | get, set, delete, evict, validate | every worker of a machine, under one mutex |
| common cache layer (`cache/common.c`, `cfg/cache.c`) | encryption keys, mutexes | get and set with encryption under the current or the previous passphrase | every caller of the cache |
| file backend (`cache/file.c`) | files | get, set, clean-up | workers of a machine, by system calls only |
| redis backend (`cache/redis.c`), memcache | connections, a pool, a mutex | get, set, reconnect, flush, retry | threads of a process, the server |
| sessions (`session.c`) | session by id, logout index by sid and sub, cookie | load, extract, save, kill, reset | requests of a browser, logout calls |
| logout, revocation (`handle/logout.c`, `handle/revoke.c`) | used logout tokens in the cache | local, front-channel, back-channel logout; revoke by id | browser and OP at the same time |
| token refresh (`handle/refresh.c`) | LOCK, FAILED or a result in the cache, per refresh token | claim, poll, present, store, recover | concurrent requests of one session, the OP |
| userinfo refresh, info and refresh hooks (`handle/userinfo.c`, `handle/info.c`) | timestamps in the session | refresh claims and tokens, save | as above |
| authentication requests (`handle/request.c`, `state.c`) | state cookies in the browser | create, clean up, limit | tabs of one browser |
| authentication responses (`handle/response.c`, `proto/*.c`) | used nonces in the cache | match state, exchange code, check tokens and nonce, start session | tabs, re-sent responses, the OP |
| discovery (`handle/discovery.c`) | a CSRF cookie shared by all tabs | show the page, take a choice, resolve it with WebFinger | tabs, other sites |
| provider metadata, JWKS (`metadata/*.c`, `proto/jwks.c`) | files and cache entries with refresh intervals | read, refresh, register, key rollover | workers, the OP |
| OAuth 2.0 resource server (`oauth.c`) | introspection results in the cache | validate, introspect | workers, virtual hosts and directories |
| metrics (`metrics.c`) | per-process tables, a shared segment, a flush thread | count, flush, scrape, reset | all threads and children |
| HTTP client and cookies (`http.c`) | cURL handles in a pool; chunked cookies | call with retries; set and get chunked cookies | threads of a process |
| hooks and redirect URI dispatch (`mod_auth_openidc.c`, `handle/content.c`) | user, headers and request state | authenticate, dispatch, authorize, answer | hooks of one request, its sub-requests |
| authorization (`authz.c`, `handle/authz.c`) | - | merge claims, match "Require claim" | - |
| configuration (`cfg/*.c`) | settings per server, static objects | read, merge, check, restart | main server and virtual hosts |
| JOSE, JSON, utilities | - | pure functions over strings, JSON and keys | - |

The hard behaviours are: several requests of one session each working on a copy
of it; read and write of the cache in separate calls; responses that reach the
browser in another order than their requests; replies and answers of the OP that
get lost or are sent again; a worker that dies between claiming and releasing
something; entries that the cache has evicted or that expired in between; a
cache, a pool, a number of cookies or a number of polls at its limit; and long
chains of decisions with an early return in every step. `PROJECT.json` lists
each such place under "hazards", with the line where it bites and the properties
that cover it.

### What makes each part correct

* The cache is a bounded map whose operations are atomic, whose lists always
  form a partition of the slots, that never fails to find room, and whose mutex
  is always given back. A file is read whole or not at all; a Redis connection
  has one user at a time.
* A change of the passphrase, of a key of the OP or of its metadata is not
  noticed by logins under way, and does not take longer to be noticed than the
  intervals that are configured for it.
* A refresh token that the OP rotates is presented once; all requests end, with
  tokens that the OP issued for their own session; a rotated token is not lost.
* A session id belongs to one user; a logout hits sessions of the user it names,
  and hits the one it names, once per logout token; a session in use does not
  time out and an idle one does.
* A response of the OP starts a session once, only in the browser that asked for
  it, with tokens that were made for this login, and is not refused because of
  what other tabs do or because settings contradict each other.
* The application sees the user, the headers and the claims that the module
  vouches for, on every way that a request can take.

## 2. Modules

| Module | Models |
| --- | --- |
| `Cache` | what a cache backend promises: an atomic bounded map with expiry and eviction |
| `ShmCache` | `cache/shm.c` and the mutex of `cache/common.c`, link by link; shown to implement `Cache` |
| `RefreshGrant` | `handle/refresh.c`: concurrent refreshes of one session |
| `SessionStore` | `session.c` and the handlers that load, save and kill sessions |
| `AuthnFlow` | authentication requests and responses, state cookies, code and nonce |
| `Gateway` | the hooks that a request passes, dispatch of the redirect URI, headers |
| `SessionTokens` | what requests do to the tokens and claims of a session they share |
| `OAuthTokens` | bearer tokens: introspection, JWT validation, the cache of results |
| `LoginExchange` | the protocol decisions of a login in all flows |
| `LogoutToken` | back-channel logout tokens and their replay protection |
| `ChunkedCookie` | values split over several cookies |
| `KeyRollover` | verification with cached keys of the OP while it replaces them |
| `ProviderMetadata` | provider and client files, refresh and registration |
| `Configuration` | reading, merging, checking, restarting |
| `Passphrase` | rollover of the crypto passphrase for cookies and cache |
| `FileCache` | the file backend, one system call per step |
| `RedisPool` | connections of the Redis backend |
| `Metrics` | counting, flushing and scraping |
| `HttpClient` | outgoing calls, the pool of cURL handles, retries |
| `DiscoveryFlow` | the choice of a provider, over several tabs |
| `Authorization` | claims and "Require claim" |
| `ShmCacheProofs`, `RefreshGrantProofs`, `SessionStoreProofs`, `AuthnFlowProofs` | theorems about the component of that name |
| `TokenProofs` | theorems about `OAuthTokens`, `KeyRollover` and `SessionTokens` |
| `ProtocolProofs` | theorems about `LogoutToken`, `LoginExchange`, `Gateway` and `Authorization` |
| `HttpProofs` | theorems about `HttpClient`, `ChunkedCookie`, `DiscoveryFlow` and `ProviderMetadata` |
| `ServerProofs` | theorems about `FileCache`, `Passphrase`, `RedisPool`, `Configuration` and `Metrics` |
| `MC...` | instances for TLC: model values, settings, hash functions, symmetry |

In each of them an operator such as `TimedOutAtTimeout`, defined just before
`TimedOut` with the same parameters and used by no other definition, is a
deliberately wrong version of its neighbour. `PROJECT.json` ("mutants") says
which property finds it, which shows that the property depends on that piece of
code.

Several modules have a variable that never changes and holds the settings of the
behaviour (`setting`, `config`, `gconf`, `ls`, `dset`, `modes`, `scoped`): one
run then checks a component under every combination of directives that matters to it.

### Cache and ShmCache

The segment is `free_head`, `bucket`, and per slot `section_key`, `access`,
`expires`, `next` and `value`, with the names of `oidc_cache_shm_header_t` and
`oidc_cache_shm_entry_t`. Links are the code's 1-based indexes, 0 ends a list. A
worker's call is `Call` (key length and value size are checked), `Lock` or
`LockFail`, a walk of `oidc_cache_shm_find` with one step per link (`FindNext`),
then one of `GetHit`, `GetExpired`, `DelHit`, `Miss`, `SetUpdate`, `SetFree` or
an eviction: `EvictStart` scans for the victim, `UnlinkNext` walks the chain of
the victim's own bucket, `EvictInsert` unlinks the victim and reuses its slot.
`Unlock` and `Return` end the call. The clock moves in both directions, as a wall
clock may be set back. Keys that are too long and values that are too big are
elements of their own; the hash is any function.

Walks and updates of one worker are several steps only because other workers
could interfere if the mutex did not exclude them: that it does is part of the
inductive invariant, also with `LockFail`.

`Cache` has one step for the effect of a request, between its call and its
return. `ImplementsCache` maps the occupied slots of `ShmCache` to its entries.
The abstract set never reports that there is no slot, chooses an expired victim
if there is one and otherwise a least recently used one, and a get returns only
entries that expire after its reading of the clock.

Left out: the logging of cache pressure, the size arithmetic of the segment,
SipHash, the failure of an unlock, child_init and destroy.

### RefreshGrant

One session, several requests (`Callers`) on one or several machines, each
refreshing at most once, and the OP. `LockRead`, `Backoff`, `Wake`, `Abort`,
`UseCached` and `Claim` are `oidc_refresh_token_cache_get`, with `refresh_mutex`
held from `LockRead` to the decision. `Send`, the OP's `OpGrants` or `OpRefuses`,
`CacheResult`, `Recheck`, `Recover` and `MarkFailed` are
`oidc_refresh_token_grant_obtain_tokens`, outside the mutex. `Save` stores the
refreshed session. `Pass` and `SaveCopy` are a request that finds its access token
good, refreshes nothing, and saves the copy that it loaded to extend the inactivity
timeout (`mod_auth_openidc.c:585`, saved at 1231), over whatever is stored by then. A refresh token is a number and the OP rotates it at every grant, which
is the hardest case. Time is counted in the half seconds between two polls;
lifetimes are stored as time left, so that no clock bounds the runs. `GrantBound`
and `RequestBound` say how long a grant, and a refresh without its sleeps, may
take. `Faults` switches on an OP that refuses, answers that get lost, a failing
cache, workers that die, and saves of older copies ("older").

There is no property that the stored session always has the refresh token that the
OP accepts, because it is not so: `SaveCopy` puts the replaced one back. What
saves the session then is the refresh cache, which still exchanges the replaced token for
the new one for OIDC_REFRESH_CACHE_TTL seconds; `RotationRecoverable` of
`SessionTokens` says when that is enough. If nobody uses the session in that time, its
live refresh token is lost.

Not modelled: a worker that dies while it holds `refresh_mutex` (that depends on
the mechanism that APR chooses), a failing lock of `refresh_mutex` (its result is
not looked at), and requests whose load of the session precedes a refresh by more
than the lifetime of the refreshed access token.

### SessionStore

Sessions are stored under an id; the index maps the keys of sid and sub to ids.
Every access to the cache is a step: `LoadFound` and `LoadMissing`; `Extract`;
`SaveSid`, `SaveSub`, `SaveSession`; `KillSid`, `KillSubRead`, `KillSub`,
`KillSession`; `Lookup`, `Fetch`, `CleanKey`, `CleanSid`, `CleanSub`,
`CleanSession` for `oidc_logout_cleanup_by_sid`. `Serve`, `ServeEnds`, `Reset`
and `Logout` are what the handlers do with a loaded session. `Reply` gives the
browser its new cookie, in any order. A key is a pair of a user and a browser,
because an OP session is one of a user in a browser; the sub has no browser, and
an id_token without a sid claim makes the sub the sid, as
`oidc_response_save_in_session` does. `owner` and `used` are history variables.

Not modelled: the fallback of sessions to client cookies, the cookie domain check
and token revocation at the OP.

Behaviours of the code that the model has and no property forbids:
a save that comes late brings back a session that was logged out since it was
loaded; the comparison and the deletion of the sub entry are two calls, so that a
login of the same user in between loses its entry; and
`oidc_logout_cleanup_by_sid` deletes the sub entry without comparing. A failing
get in a kill reads as "no entry" and lets the kill delete the sub entry, which is
why the settings that check `SubIndexKept` have no failing get.

### AuthnFlow

An authentication request is a number that stands for its nonce, state parameter
and cookie. A request carries the cookies that the browser had when it was sent
(`req`), and its reply adds and deletes cookies when it arrives (`Arrives`), in
any order with others, or never. `Authenticate` is
`oidc_request_authenticate_user` with the clean-up and the limit of state
cookies; `Match` is `oidc_response_match_state`; `Exchange`, `NonceGet`,
`NonceSet` are `oidc_proto_resolve_code_and_validate_response` and
`oidc_proto_idtoken_validate_nonce` in the order of the response type;
`StartSession` ends `oidc_response_process`. `Events` switches on: a changed
User-Agent, a new passphrase, a failing OP, a failing cache, lost replies, and
ends of sessions.

Not modelled: silent authentication (prompt=none). The check of the iat of an
id_token, which follows the nonce, is made in the step that stores the nonce. The
OP accepts a code once (external). With the response type `id_token` two
overlapping uses of one response are both accepted, because the lookup and the
store of the nonce are two calls; with a code the OP stops the second.

### Gateway

One request `q` on its way through the hooks. `Authenticate` is
`oidc_check_user_id` with everything it dispatches to: the redirect URI with its
operations in the order in which they are recognised, the userinfo and
resource-server types, the unauthenticated actions, the scrubbing of headers;
`Authorize` is `oidc_authz_24_checker` and what follows a refusal;
`ContentHandler` is `oidc_content_handler`; `SubRequest` is an internal request of
the application. The settings (`gconf`) are the AuthType, OIDCUnAuthAction,
OIDCUnAutzAction, the claim prefix, the requirement and discovery. `IdentityIsOurs` and
`ReachedByRight` say that on every way the application sees only what the module
vouches for. Header names are classes of names; that `_` and `-` are alike to some
applications is part of the class. One class is outside: a header that
`OIDCPassUserInfoAs json:<name>` names and that begins neither with OIDC_ nor with
the claim prefix is set but not scrubbed, and is not in the property.

### SessionTokens

Requests of one session, each with the copy that it loaded, as `kind` page view
("app"), info hook or refresh hook: `RefreshBeforeExpiry`, `RefreshClaims` (with
the refresh on a 401), `InfoInterval`, `HookGrant`, `RetrieveAgain` (the
second attempt after a 401), `UserinfoFail` and
`SaveSession`, with the paths that end without a save. `SaveSession` may save a copy that changed
nothing, for the inactivity timeout. `RotationRecoverable` is
about these paths. It holds because the refresh cache keeps the result of a grant, for the 30
seconds of OIDC_REFRESH_CACHE_TTL. A request may take longer than that: the
userinfo call after the grant has a timeout of 30 seconds and is retried after a connectivity error. So nothing is
assumed of `RequestTime` and `ResultTTL`, and the property names the two ways in which a rotated
token is lost: the request has gone on for `ResultTTL` since it began and ends on a
way that does not save (`RotationKept`), or it saves an older copy after the result for the
refresh token in it has left the cache, which `grace` counts from the load (`SaveUsable`). No
shorter request loses one, whatever fails and whoever saves last. `GoodForApp` bounds the age of claims and the remaining
life of the token, with the error that comes from counting the expiry of a cached
result from the time it is applied (`session.c:825`).

### OAuthTokens

One bearer token in several requests that share the result cache: `LookupToken`,
`Introspect`, `ValidateJwt`, `StoreToken`, `RefuseToken`, with a cache entry that is removed on
request, and a token that is revoked or expires. The introspection interval is
per directory (never, always, after a time). `claim` has the parameters of
`oidc_oauth_parse_and_cache_token_expiry`: the absolute, optional `exp` of a result with
the member `active`, or the claim of OIDCOAuthTokenExpiryClaim, relative or absolute,
mandatory or optional; the AS may leave it out, or send something that is no number or not
positive. A relative value (the default) is what the token has left when the AS answers and is
counted from when it is parsed, so the entry outlives the token by the time that lies between,
`RequestLife` at most. `ResultsSound` bounds the time for
which a token that has ended is served, ties the entry's life to the token's in each of these cases, and
keeps the audience check where another virtual host has stored the result.

### LoginExchange and LogoutToken

`LoginExchange` is a login without the cookies around it: `AuthRequest` resolves
the settings (profile, PKCE, DPoP, certificate binding, response mode),
`AuthResponse` takes any response a browser could bring, `IdToken` and
`ResolveCode` are the checks in the order of the response type. Codes and tokens
are the OP's for this login or anything else. `LoginSound` says that nothing else
gets in and that FAPI 2.0 tokens are constrained; `HonestSucceeds` says that the
checks do not refuse what the module itself has asked for. The token endpoint may leave out
any token, and may name a token type that is not supported: where there is a userinfo endpoint
the access token is then dropped and the login goes on (`Parsed`, `proto/token.c:192`). In the flow
"code token" the access token of the response, which nothing vouches for, stays in both
cases; `LoginIsOurs` excepts exactly that (`backed`: the token endpoint gave the access token).

`LogoutToken` delivers logout tokens any number of times with clocks that differ
by the slack. The jti is looked up and stored in two calls: copies that arrive
together are both acted on, later ones are not (`LateCopyRefused`). What a logout
does to sessions is in `SessionStore`.

### KeyRollover, ProviderMetadata, Passphrase

`KeyRollover` is `oidc_proto_jwt_verify` with the cached JWKS, the marker that
limits forced downloads and the fallback to an old document, one cache access or
download per step, while the OP replaces its key. `ProviderMetadata` is
`oidc_metadata_get` with the files of the metadata directory, one file access or call per
step. `Passphrase` has the JWT cookies and the cache under the current
and the previous passphrase; the administrator waits for a lifetime between the
steps of a rollover. A delete during a rollover reaches only the entry under the
current passphrase (`cache/common.c:426`), so that a read may bring back the
other one until it expires: `CacheSeamless` says precisely that.

### FileCache, RedisPool, ChunkedCookie, HttpClient, Metrics

`FileCache` has one step per system call, so that two workers, a clean-up and a
crash meet in every order. Between the clean-up's check that a file is
still the one it inspected and its removal, a rename may put a fresh value there,
which is then lost: a cache may lose entries, and no property forbids it.
`RedisPool` has the global and the per-request mode; `ConnectionsSafe` is about
who owns a connection and about the second attempt after the server came back.
`ChunkedCookie` decides from the cookies of the request which to clear, and the
browser may have others by then. `HttpClient` has handles that keep options,
fail, or were inherited by a child. `Metrics` has two children with tables, their
flush threads, pages that read and reset, and integers that start anew.

### Configuration

`Directive`, `ReadDone` (the merge), `PostConfigFirst`, `PostConfigServer`,
`CheckServer`, `Restart`. Settings are classes: a passphrase pair, a group of
settings that belong together (proxy and credentials, method and algorithm), and
single ones. An algorithm of a client authentication method stays when a later
directive of the same server names a method without one, as the code leaves it
(`cfg/cfg.c:351`); what `GroupsWhole` excludes is the algorithm of another server. The checks are those of
`cfg/check.c` for the relying party (redirect URI, provider, client, cookie domain on the host of the redirect
URI, DPoP keys) and for the resource server (metadata suffice; otherwise an introspection
endpoint or keys, not both, and a client id alone is refused). Hosts are those of the servers, and a
cookie domain is one of them or a domain above all of them. httpd is external: it runs post_config twice at the start and lets a
virtual host without directives share the main server's object. A graceful restart
creates the static objects again; children of the old generation keep using
their own. `auth_openidc.conf:42` says that a random passphrase is generated when
none is defined; the code does so for the virtual hosts that it checks and, beside
them, not for the main server (`cfg/check.c:326`), which the model follows.

### DiscoveryFlow

Two tabs with one CSRF cookie: `DiscoveryRequest`, `ShowPage`, `Submit` (a
choice on a page), `FollowLink` (another site sends the browser to the redirect
URI), `Webfinger`, `Authenticate`, `Answer`. The list of allowed issuers, the
cookie domain and path and the list of allowed URLs are settings. `DiscoverySound`
is about taking a new provider and about scopes only: a
WebFinger call and a registration with a provider that is already known happen
also without a valid token. A target URL without a path is accepted whatever the
cookie path is.

### Authorization

`Require` makes `oidc_authz_24_worker` decide about a directive over claims that come
from the scope, the userinfo endpoint and the ID token. The directives are a constant.
`oidc_authz_match_claim` calls itself through `oidc_authz_separator_dot` for the objects
inside an object; `ClaimCalls` has the calls by their depth, each with what is left of the
word, and `MatchClaim` asks whether one of them comes to a value that matches.
`AccessByClaim` compares the verdict with a definition that goes the other way: `Nodes` has
the members of the claims with the whole paths that lead to them, and `Means` compares a word
with one path and one value. Kept from the code: a separator that was skipped before a failed
handler stays skipped, integers are compared by `atoi`-like prefix, arrays in
arrays do not match. Regular expressions consist of letters and ".".

## 3. Runs

"v" marks runs that end in a violation. All runs check for deadlock, except
`documents`, where a server that does not start, a table of inodes or
connections at its bound, and the one decision of `Authorization` end a behaviour.

| Run | Checks | Shows |
| --- | --- | --- |
| `shm_concurrent` | IInv, ImplementsCache | two workers, full segment, failing mutex, refused keys and values: lists whole, calls atomic |
| `shm_chain` | SegmentValid, SlotObtained, ImplementsCache, LockReleased | chains of three: unlinking at head, middle and tail, eviction across buckets, choice of the victim, no endless walk |
| `refresh` | ResultGenuine, EveryoneEnds | slow and failing OP, failing cache, dying workers, saves of older copies: results are genuine, everyone ends |
| `refresh_locked_out` (v) | LockedOut | a caller claims the LOCK over a FAILED value that was stored outside the mutex |
| `session` | OneUserPerId, LogoutHitsItsUser, InactivityWindow, LogoutEnds, SubIndexKept | four settings: two concurrent requests of one browser with two users and failing writes; two browsers, all operations, one request at a time; one session with an inactivity timeout of ten, a slack of one, a maximum duration, failing gets and evictions; the same over a short time with failing index writes |
| `session_sid_is_sub` (v) | SubIndexKept | without a sid claim a kill deletes the shared entry unconditionally |
| `authn` | BoundToBrowser, OneSessionPerCode, ReplayRefused, WithinLimit, InTimeMatched | one response sent any number of times by two browsers, all events, clocks that differ; three requests of tabs, limit one |
| `authn_unlimited` (v) | InTimeMatched | limit 0 with deletion of the oldest deletes every state cookie |
| `requests` | IdentityIsOurs, ReachedByRight, GoodForApp, RotationRecoverable, ResultsSound, LoginSound, HonestSucceeds, LateCopyRefused, CookiesReadBack, KeysBounded, LookupSound, PresentedOnce | the components that handle requests, each on its own |
| `documents` | MetadataUsable, ConfigurationSound, Seamless, ReadsWhole, ConnectionsSafe, MetricsRight, HandlesSafe, DiscoverySound, AccessByClaim | the components below the handlers, discovery and authorization, each on its own |
| `oauth_no_expiry` (v) | NoExpiryNotCached | a result without the optional expiry claim is cached for the default time |
| `http_retry` (v) | RetryGivesResponse | a retry appends to the buffer of the attempt that failed |

`requests` and `documents` are sums of instances: the variable `part` chooses one
component, whose steps alone are taken while the others stay in an initial state.
The states of the run are therefore those of its components added up, not
multiplied, and each component is checked in full. The components share no
variable; where they meet in the code (the refresh grant inside `SessionTokens`,
the logout inside `LogoutToken`, the session behind `AuthnFlow`), the outer module
has one step for what the inner one promises, and the inner module's properties say that
it keeps the promise. Several properties are conjunctions of named parts; the
comment at each part says what it is about.

### Why the bounds are enough

* `shm_concurrent`: with two slots and three keys in two buckets, two of which
  collide, the segment is full after two sets and the next one evicts, in the
  same or in another bucket. Two workers suffice for any conflict over one mutex.
  `shm_chain` needs three slots for a middle of a chain, and one worker, since
  `shm_concurrent` has shown that calls do not overlap. One value is enough
  there: which value is returned is told apart by key and expiry.
* The refresh part of `requests`: three callers are a claimer, a waiter and one
  that loads the session after the first has saved it; four tokens are the first
  and one per grant. `LockTTL = 2` leaves time for a grant of 1 and two polls, and
  `CacheTTL = 8` and `AccessTTL = 4` keep the order of the lifetimes of LOCK (5
  seconds) and result (30 seconds), and let a result outlive every request that
  loaded the old token. Older copies are saved there at any time. `refresh` turns this around: a
  grant may take longer than the LOCK lives.
* `session`: two ids are an old and a new session of a browser; two users
  make a mix-up visible; time stands still in the setting `Race`, where two requests meet, because expiry
  is the subject of `Long` and `Short`. Writes of sessions fail there, writes of index
  entries in `Short`: an index entry that outlives its session, or was
  never stored, occurs without them, through superseded logins. In `Long`, over fifteen ticks with one login,
  the interval of 10 is the smallest with a slack of 1; `SlackCap` 1 stands for the
  cap of 60 seconds. `Sequence` has a second browser so that
  one user has two sessions.
* `authn`: a slack of 1 and a margin of 1 let clocks differ in both
  directions and `MaxTime` lets a stored nonce expire while a state cookie is
  still valid. Three requests against a limit of one with two in flight reach the
  allowed excess of one, and with two requests in all the bound could not be exceeded.
* `requests`: two requests of a session are the one that rotates and the one that
  holds an old copy, with `RequestTime = 2` and `ResultTTL = 1`, so that a request can outlast the refresh
  cache; a bearer token of life 3 outlives an entry of the default 2 and the longest interval, and a relative
  expiry is off by the `RequestLife` of 1; lengths up to 7 with chunks of 2 and at most 3 chunks reach a
  short value, full and partial last chunks and one that is too long; two keys are the
  old and the new one, and a third, 0, is a stranger's; the login settings are all
  combinations of what constrains a token and all of what shapes a response.
* `documents`: two workers and two inodes are a file that is read or cleaned
  while it is replaced (the theorem holds for any number); four connections are two in the pool and two in use;
  `IntMax = 2` lets a counter wrap within four events; one restart after the first
  start has all static objects created, destroyed and created again; words of up to five
  symbols reach a member of a member, a name that contains a separator and a value
  or expression after it.
* History variables (such as `owner`, `used`, `consumed`, `count`, `acted`, `overlapped`,
  `tally`) only record what happened.

Symmetry is used for sets of interchangeable workers, requests, browsers and
users, in runs without liveness properties.

### Fairness

* `ShmCache`: weak fairness of the steps of the worker that holds the mutex,
  which is running C code without a blocking call. Nothing is assumed of workers
  that wait for the mutex.
* `RefreshGrant`: time passes, a worker takes its steps, and a call to the OP
  ends, because the HTTP client has a timeout. Taking the mutex is strongly fair:
  a caller that finds it free again and again gets it.
* The other modules are checked for safety only. That the verification in
  `KeyRollover` ends is shown by a measure that every step decreases
  (`VerdictNears`), which needs no fairness beyond that the request goes on.

### Findings

1. `refresh_locked_out`: the comment on `oidc_refresh_token_grant_obtain_tokens`
   says that a refused refresh token "is locked out of future refresh attempts
   for OIDC_REFRESH_CACHE_TTL seconds". FAILED is stored outside
   `refresh_mutex`; a caller that read an empty entry before (the LOCK of a slow
   grant had expired) overwrites it with its LOCK and presents the token again.
2. `session_sid_is_sub`: the ChangeLog says that killing a session no longer
   deletes the sub index when it points to a surviving session. With an OP that
   sends no sid claim the sub is the session's sid, whose entry
   `oidc_session_save_cache` deletes without comparing.
3. `authn_unlimited`: `auth_openidc.conf` says that
   `OIDCStateMaxNumberOfCookies` 0 means unlimited. With the second parameter
   true, the loop of `oidc_state_cookies_delete_oldest` compares with 0 and
   deletes the state cookies of all other tabs.
4. `http_retry`: `auth_openidc.conf` promises retry attempts in case of
   connectivity errors. A first attempt that broke off after a part of its
   response leaves that part in the buffer, to which the successful retry appends.
5. `oauth_no_expiry`: `auth_openidc.conf` says of OIDCOAuthTokenExpiryClaim that "If the claim is
   optional and not found in the response, the introspection result will not be
   cached". `oidc_oauth_parse_and_cache_token_expiry` leaves the default of 60 seconds in place
   then, and the result is stored for that time.

## 4. Proofs

All theorems are about the specifications that TLC checks, for every value of the
constants that satisfies the modules' assumptions: any number of workers, slots,
keys, browsers, users, requests and tokens, any clock slack, any set of settings.

**`ShmCacheProofs`**: `Spec` implies always `IInv` (`Invariance`), and from it
`TypeOK` (`TypeCorrect`), `MutualExclusion` (`MutexCorrect`), `UniqueKeys`
(`KeysUnique`) and `SlotObtained` (`SlotAlwaysObtained`), for every hash function.
None of the properties is inductive by itself. That a set on a
full cache obtains a slot depends on the victim being on the chain of its own
bucket, which depends on every slot being on the list it belongs to, which
depends on each unlink changing the link that really precedes the slot. So `IInv`
says:

* the links are sound: the free list has free slots only, a bucket's chain only
  occupied slots of that bucket, no slot is reached by two links, every slot is
  reached by one, and there is no cycle (`LinksSound`);
* a call that walks a chain knows the link before its position (`PrevSound`), and
  the slots that it has passed are not the one it seeks (`PassedSound`);
* a call that unlinks has an occupied victim, and its own key is stored nowhere.

Acyclicity is stated with sets of slots (every nonempty set has a member that no
member links to), which needs no recursion. `WalkComplete` derives from it that a
set of slots that contains the head of a chain and is closed under `next` contains
the whole chain; it gives that a key not found is not there, and that a victim is
always reached. The step lemmas `RemoveLinks`, `SetFreeLinks` and `EvictLinks`
say that each kind of relinking keeps the links sound; `InvStep` combines them,
one step per action.

Two results rest on it. `SegmentImplementsCache` shows that every step of `Spec` is
a step of the abstract `Cache` under the refinement mapping, or leaves it
unchanged. It needs a second invariant, `Stages`: at each step of a call, what
the abstract operation is going to do is already decided (the slot found is that of
the key, the slot not found means that the key is absent, the victim is the one
that the scan chose and remains so while the mutex is held), and the entries seen
through the mapping are those of the slots, one by one. That the abstract cache is full exactly
when the free list is empty is a fact about cardinalities: present keys and occupied
slots are in bijection. `SegmentAlwaysValid` is about the lists as followed link by
link, that is, about a recursive function. No induction theorem of the library is needed: a
least counterexample (a first position where the walk leaves the list) contradicts
the definition of the function at that position, and a walk longer than the
number of slots would repeat one, which the links do not allow.

`HoldingIsBounded` is the part of `LockReleased` that needs no fairness: while a worker holds
the mutex, `StepsLeft` is between 1 and `2 * NSlots + 3`, each of its steps lowers it, and no step
of another worker changes it. The measure is the number of slots that are ahead on the chain that is
walked (`Ahead`), and a whole chain more while the key is still looked for; `ListShrinks` derives from
acyclicity that a slot is not on the list that follows it.

**`RefreshGrantProofs`**: `ResultsGenuine` (`ResultGenuine`) with
`RefreshInvariance` and `RefreshTypeCorrect`. `RefreshInv` follows the token from
the OP to the caller: what the cache holds, what a caller has read and what it has
as a result is the token that the OP issued for the one presented, and a caller
that has started knows which one that was. The faults are all in.

`AlwaysPresentedOnce` (`PresentedOnce`)
holds where nothing fails, so it has a hypothesis, `Smooth`: no faults and no saves of older
copies (with these it is only model-checked, in `requests`), one
machine, a grant shorter than the life of the LOCK (`GrantBound < LockTTL`), a cached
result that outlives two requests (`2 * RequestBound + 2 <= CacheTTL`) and an access
token that outlives one (`RequestBound + 2 <= AccessTTL`). On an instance with three
callers TLC finds a second presentation when `GrantBound = LockTTL`, when the cache
fails or when a worker crashes; the bounds on `CacheTTL` and `AccessTTL` are sufficient and not
shown to be the least. The invariant says that among the requests
that hold the token the OP accepts one at most has passed the lock, and that the
others find the LOCK, or its result, for as long as they run.

`RefreshIsBounded` is the same for `EveryoneEnds`, with all faults: a refresh ends after at most
`3 * LockTTL + 7` steps of its caller, three for each poll and those of a grant that fails; the
OP's answer and the death of the process lower the measure, too. `MutexSound` adds that `refresh_mutex`
is held only by a caller whose next step decides and gives it back, so nobody waits for a sleeper, for the OP or for
a dead process.

**`SessionStoreProofs`**: `OneUser` (`OneUserPerId`) and `LogoutHits`
(`LogoutHitsItsUser`) from `SessionInvariance`. `SessionInv` has one part for each
place where a session id or a copy can be: in the cache (`StoredOwned`), in the
index (`IndexOwned`), in a request (`CopyOwned`), in a logout call (`RefOwned`);
each says that the user is the one of the login that made the id (`KeysOfUser`
for the keys that the copy knows). `Stands` relates the step of a request to what
it has, so that a kill never starts from an empty copy. Ids are never given out
twice, which is why the argument works although entries expire, are evicted, and
come back through late saves.

`WindowKept` (`InactivityWindow`) from `WindowInvariance`: a stored session is in the
window of its last use, or the request that used it last is about to save it,
and the copy of a request is as old as what is stored. The hypothesis `Solo` is one
request at a time and no failing write of a session: with overlapping requests
the last save may be that of an earlier use, and a failed save extends nothing; the
code promises neither. Failing reads, index entries that are not stored and evictions are in.

`LogoutsEnd` (`LogoutEnds`) and `SubsKept` (`SubIndexKept`) from `LogoutInvariance`, for
requests in turn and an OP that sends a sid (`SidSent`): the sid of each live
session in a cookie leads to it, its index entry lives as long as the session, and
the entry of a sub is never older than that of the sid, except between the two
writes of a save. Without a sid the code uses the sub in its place, and
`SubIndexKept` is false: that is the finding `session_sid_is_sub`.

**`AuthnFlowProofs`**: `SessionsBound` (`BoundToBrowser`) and `CodeOnce`
(`OneSessionPerCode`) from `AuthnInvariance`. `Owned` says that a state
cookie is, in the jar, in a request and in a reply, the one of an authentication
request of that browser, and that a response past the match has its state among
its request's cookies. `CodesUsedOnce` says that a code is unused, or in the hands
of one request, or has led to one session. `Bounds` counts the requests that may still
create an authentication request, so that none is created beyond the bound.

Three more invariants give the properties about time and number.
`ReplaysRefused` (`ReplayRefused`): the nonce of an accepted id_token is remembered for as
long as a state cookie and the check of iat would let another copy through, which is where
the margin of the nonce cache entry is used. `AlwaysMatched` (`InTimeMatched`): the state
cookie of a response in time is in the jar, or a reply under way will put it there,
or it was deleted for the limit; the limit 0 with deletion, where the code
deletes every cookie (finding `authn_unlimited`), is excluded by `Limited`.
`AlwaysWithinLimit` (`WithinLimit`): what a jar has beyond the cookies that the last request
to add one left was under way when that request was sent, so the excess is bounded
by the number of requests that overlapped.

**`ProtocolProofs`**: `NoLateCopy` (`LateCopyRefused`). The invariant
relates three times: a token that was admitted came within the slack of its iat
(`InWindow`), so the entry of its jti outlives the window and a delivery
(`Remembered`), so a later copy finds it.

`LoginsAlwaysSound` (`LoginSound`) and `HonestAlwaysSucceeds` (`HonestSucceeds`) from
`LoginInvariance`, for every response type, profile and setting of the module.
The invariant says which parameters are known to be the OP's for this login at each step of
`oidc_response_process`: nothing before an id_token is checked; then the nonce rules out the
id_token of another login and its hashes vouch for the code and the access token
that came with it (`Redeeming`); in the plain code flow all tokens are those of the
code (`BackToken`), so that the nonce of their id_token decides for all of them; an access
token that the token endpoint did not give is one of the response (`backed`).
`Constrained` follows the sender constraint of FAPI 2.0 from the token request to the session. The second theorem is the
converse: with an honest browser the tokens pass each of the checks that the
settings switch on.

`IdentityAlwaysOurs` (`IdentityIsOurs`) and `AlwaysReachedByRight` (`ReachedByRight`) from
`GatewayInvariance`. `PhaseInv` states what each hook relies on: after authentication a request
either has a page of the module waiting for the content handler, or has passed the
checks and has its headers scrubbed, or is one of those that need no user (a CORS preflight, or anonymous requests being passed);
a sub-request has the user of the request that caused it.
The operators that a hook is made of (`HandleExistingSession`, `HandleRedirectUri`, ...) are sets of
outcomes, and one lemma each says what every outcome satisfies.

`AccessAlwaysByClaim` (`AccessByClaim`) holds for directives of any words and claims nested to any
depth, whose names may contain any separators. The state machine has one step, and the work is in what the search
computes. `Followed` relates the calls of depth n with the paths of length n: where a call has come to a name
and has a rest of the word left, a path leads to the same value with the same rest, and the other way round. `FollowedDeeper`
carries it over one dot (a call takes off the name, the separators that were skipped and the dot, a
path appends them; concatenation is associative), `ValueDecides` compares the end of the word. Both `ClaimCalls` and
`Nodes` are recursive functions; that they exist is `Repetition`, and that `Followed` holds at
every depth is `AlwaysFollowed`, each by a least counterexample. `MergedCounts` shows that the merged claims are
those that count. `RecursionFollowsTheWord` says that the code's recursion is bounded by the word of the
directive, not by the claims: a call as deep as the word is long makes no other.

**`HttpProofs`**: `HandlesAlwaysSafe` (`HandlesSafe`) from `HttpInvariance`.
That options do not leak is not inductive by itself: `OptionsPlaced` follows them
from the call that sets them to the reset before the handle is pooled, and
`GoodHandle` says that only a handle that works gets that far. `OnePlace` then
carries over each push and pop of the pool.

`CookiesAlwaysReadBack` (`CookiesReadBack`) from `JarInvariance`: the count cookie and the
chunks below it are always of one value, since a response sets both at once; chunks
of an older, longer value may remain above the count, where nothing reads them.
While requests do not overlap, that value is the last one written.

`DiscoveryAlwaysSound` (`DiscoverySound`) from `DiscoveryInvariance`: `NavSound` says
what a navigation under way in each tab is known to be: only the user's own choice passes the CSRF
check, and only what passes it sets scopes; `CalmSound` says that the
last page shown and the CSRF cookie have one token while nothing else is under way.
A lemma about the cookie path holds for any two paths: the URL that a
login returns to is below the path for which the session cookie is set.

`MetadataAlwaysUsable` (`MetadataUsable`) from `MetaInvariance`: `DocsFresh` bounds how long ago a
document can have been superseded by the age of the file and the time of a download, and uses that
no time passes between the look at the file's date and the use of its content; `ClientsOne` says
that a request registers only while there is no client file and, where one
client is promised, no other request registers; `ClientsKnow` that a request that looks for a client has a document.

**`ServerProofs`**: `ReadsAlwaysWhole` (`ReadsWhole`): no two writers have one
temporary file, so the file that a rename puts under the key is whole, and a reader keeps the file
that it opened whatever happens to the name. `RolloverSeamless`
(`Seamless`): where each cookie and cache entry can be, by the passphrase it was written
with and its age, so that what the previous passphrase wrote has expired when it is
dropped, and a replaced value never comes back. `ConnectionsAlwaysSafe`
(`ConnectionsSafe`): a connection is shared, pooled, or with one request, the mutex is with
the request that uses the shared one, and a call that is not disturbed after the server
has come back is on its way to success.

`ConfigurationAlwaysSound` (`ConfigurationSound`) from `ConfigInvariance`, for any number of
servers: the directives of a server name that server only, and what merging makes of them are whole groups; the
derived key of an object is that of its passphrase or absent, and the process-wide
table of derived keys is true; the servers before the one that the check has come to are
complete; and the static objects exist once the first server has been
configured, and through each restart.

`MetricsAlwaysRight` (`MetricsRight`) from `MetricsInvariance`: the books balance (what was counted is in
a child's table, in the shared text, was reported and reset, or was lost with a crash),
and a thread that stores has the mutex and has read the text as it is (`FlushHolds`). The sum over the
children is a fold, that is, a recursive function on finite sets. That the function exists, has natural numbers
as values, and changes by the change of one table is proved here by a counterexample of
least cardinality, so the theorem holds for any finite set of children.

**`TokenProofs`**: `ResultsAlwaysSound` (`ResultsSound`): how long ago a bearer token can
have ended, by the age of the cached result and the step of each request, and by how much a
relative expiry that a request was told exceeds what the token has left, by the time that the request has spent.
`KeysAlwaysBounded` (`KeysBounded`) and `LookupsAlwaysSound` (`LookupSound`): how old a
withdrawn key can be in the cache and in a request, and that the marker and the requests under way
account for every forced download. `AlwaysGoodForApp` (`GoodForApp`) and
`RotationsKept` (`RotationRecoverable`): what each copy of a session, the stored session and the
refresh cache know about a rotated token, with no assumption on how long requests take; the first needs
that OIDCRefreshAccessTokenBeforeExpiry is shorter than the life of a token. The proof found a step of `SessionTokens`
that was defined by a CASE without a matching arm for one setting; it is an IF now.

The assumptions are named `...Assumption` in the modules: special values are not
ordinary ones (no cURL handle is the null handle, no request the absent holder of
the Redis mutex), bounds are natural numbers, there is at least one slot, `Hash` maps
keys to buckets, the words of directives and the names of claims are sequences of `Symbols` and the
objects inside an object of claims are in `Objects`, the sets of requests and verifiers are finite, a JWT has an
audience, one introspection interval is the longest, results stay in the refresh cache for some time, no tab is the absent tab, the child processes are finitely many and none is the value of the free mutex, a
generated passphrase is not empty, the margin of the nonce cache is positive, and the safety margin of logout tokens is not shorter
than a delivery. TLC evaluates
each of them on the instances. The hypotheses `Smooth`, `Limited`, `Solo` and `SidSent` are not
assumptions of the modules but of single theorems; the runs `session_sid_is_sub` and
`authn_unlimited` show what fails without `SidSent` and without `Limited`.

Only model-checked:

* `PresentedOnce` where requests that refresh nothing save older copies of the session.
* `LockReleased` and `EveryoneEnds`: liveness under fairness is out of the prover's reach. Proved
  are the measures that decrease (above); that a step is enabled again and again, and is therefore taken,
  is what TLC adds.

Every invariant and every action property that a passing run checks is stated by a theorem.

## 5. Not modelled

* The wrappers of cjose, OpenSSL, jansson and cURL (cryptography, encoding, I/O),
  string, URL and HTML helpers, and the layout of pages: pure functions over data
  that the models abstract.
* The syntax of directives and the `.conf` files of the metadata directory, whose settings
  override those of the server one by one; settings of directories.
* jq expressions (`Require claims_expr`, userinfo and claim filters).
* memcache, a thin client of apr_memcache; child_init and destroy of the backends.
* Token revocation at the OP, the iframes of session management, silent
  re-authentication, request objects, the DPoP endpoint.
* A worker that dies while it holds a process-shared mutex: what happens then is
  decided by the mechanism that APR chooses.
* The failure of a lock of `refresh_mutex`, whose result the code does not look
  at, and the size arithmetic of the shared segment.

## 6. What could come next

A composition of `SessionTokens` and `RefreshGrant` over one cache; the precedence of
provider settings; `Require claims_expr`, if jq expressions can be given a meaning small enough to check.
