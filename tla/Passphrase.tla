----------------------------- MODULE Passphrase ------------------------------
(***************************************************************************)
(* OIDCCryptoPassphrase and its rollover.  Two things depend on it: the    *)
(* encrypted JWTs of the module (state cookies, client-side sessions),     *)
(* which util/jwt.c creates and verifies, and the encrypted cache, whose   *)
(* key is a hash over the passphrase, so that a value of the previous one  *)
(* is found under another key (cache/common.c).                            *)
(*                                                                         *)
(* Passphrases are numbered in the order they are used.  The administrator *)
(* begins a rollover by putting a new one first, and ends it by removing   *)
(* the previous one; he waits at least Lifetime, the time that cookies and *)
(* cache entries live, before either.                                      *)
(***************************************************************************)
EXTENDS Naturals, FiniteSets

CONSTANTS
    Lifetime,       \* of a cookie and of a cache entry (OIDCSessionInactivityTimeout)
    MaxPassphrase   \* bound: passphrases

ASSUME PassphraseAssumption == Lifetime \in Nat \ {0} /\ MaxPassphrase \in Nat \ {0}

VARIABLES
    secrets,    \* [first, second]: the configured passphrases, second is 0 if there is one
    since,      \* time since the configuration was changed, up to Lifetime
    cookies,    \* the cookies that browsers hold: [secret, kid, age]
    backend,    \* per passphrase: the entry that the cache has under the key made with it
    latest      \* ghost: the value of the key that was set last, 0 when it was deleted

passVars == <<secrets, since, cookies, backend, latest>>

Passphrases == 1 .. MaxPassphrase
Versions == 1 .. 2
NoEntry == [val |-> 0, age |-> 0]

PassTypeOK ==
    /\ secrets \in [first : Passphrases, second : Passphrases \cup {0}]
    /\ since \in 0 .. Lifetime
    /\ cookies \subseteq [secret : Passphrases, kid : BOOLEAN, age : 0 .. Lifetime]
    /\ backend \in [Passphrases -> [val : Versions \cup {0}, age : 0 .. Lifetime]]
    /\ latest \in Versions \cup {0}

PassInit ==
    /\ secrets = [first |-> 1, second |-> 0]
    /\ since = Lifetime
    /\ cookies = {}
    /\ backend = [n \in Passphrases |-> NoEntry]
    /\ latest = 0

-----------------------------------------------------------------------------
(* Encrypted JWTs                                                            *)

\* The key id is left out.
JwtCreateNoKid == [secret |-> secrets.first, kid |-> FALSE, age |-> 0]

(* oidc_util_jwt_create: with the first passphrase, and a "kid" while there  *)
(* are two.                                                                  *)
JwtCreate == [secret |-> secrets.first, kid |-> secrets.second # 0, age |-> 0]

(* oidc_util_jwt_verify: the key to try.  Decryption with another key than   *)
(* the one it was encrypted with fails.                                      *)
JwtKey(c) == IF secrets.second # 0 /\ ~c.kid THEN secrets.second ELSE secrets.first

JwtVerifies(c) == JwtKey(c) = c.secret

SetCookie ==
    /\ cookies' = cookies \cup {JwtCreate}
    /\ UNCHANGED <<secrets, since, backend, latest>>

-----------------------------------------------------------------------------
(* The cache                                                                 *)

(* oidc_cache_set: under the key of the first passphrase; without a value it *)
(* removes what is there, and nothing under the second one.                  *)
CacheSet ==
    /\ \E v \in Versions \cup {0} :
         /\ v # latest \/ v = 0
         /\ backend' = [backend EXCEPT ![secrets.first] = [val |-> v, age |-> 0]]
         /\ latest' = v
    /\ UNCHANGED <<secrets, since, cookies>>

\* The second try goes first.
CacheGetSecondFirst ==
    IF secrets.second # 0 /\ backend[secrets.second].val # 0
      THEN backend[secrets.second].val ELSE backend[secrets.first].val

(* oidc_cache_get: the first passphrase, then, if nothing was found, the     *)
(* second.  What is under the key of a passphrase decrypts with it.          *)
CacheGet ==
    IF backend[secrets.first].val # 0 \/ secrets.second = 0
      THEN backend[secrets.first].val ELSE backend[secrets.second].val

-----------------------------------------------------------------------------
(* The administrator, and time                                               *)

BeginRollover ==
    /\ secrets.second = 0 /\ since = Lifetime /\ secrets.first < MaxPassphrase
    /\ secrets' = [first |-> secrets.first + 1, second |-> secrets.first]
    /\ since' = 0
    /\ UNCHANGED <<cookies, backend, latest>>

EndRollover ==
    /\ secrets.second # 0 /\ since = Lifetime
    /\ secrets' = [secrets EXCEPT !.second = 0]
    /\ since' = 0
    /\ UNCHANGED <<cookies, backend, latest>>

\* Entries of the cache and cookies expire at Lifetime.
PassTick ==
    LET Older(e) == IF e.val = 0 \/ e.age + 1 >= Lifetime THEN NoEntry ELSE [e EXCEPT !.age = @ + 1] IN
    /\ since' = IF since = Lifetime THEN since ELSE since + 1
    /\ cookies' = {[c EXCEPT !.age = @ + 1] : c \in {d \in cookies : d.age + 1 < Lifetime}}
    /\ backend' = [n \in Passphrases |-> Older(backend[n])]
    /\ latest' = IF \A n \in Passphrases : backend'[n].val # latest THEN 0 ELSE latest
    /\ UNCHANGED secrets

PassNext == SetCookie \/ CacheSet \/ BeginRollover \/ EndRollover \/ PassTick

PassSpec == PassInit /\ [][PassNext]_passVars

-----------------------------------------------------------------------------
(* Properties                                                                *)

\* "for seamless rollover": no cookie that is still valid becomes unreadable,
\* whatever passphrases and key ids it lived through.
CookiesSeamless == \A c \in cookies : JwtVerifies(c)

\* During a rollover a read finds the value that was written last, never one
\* that it replaced, and none that was written is lost.  Where the value was
\* deleted, a read may find the one of the previous passphrase still: the
\* delete does not reach it (common.c:426).
CacheSeamless ==
    /\ latest # 0 => CacheGet = latest
    /\ latest = 0 /\ CacheGet # 0 => secrets.second # 0 /\ backend[secrets.first].val = 0

\* A change of the passphrase is not noticed by what was made before it.
Seamless == CookiesSeamless /\ CacheSeamless
=============================================================================
