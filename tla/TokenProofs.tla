----------------------------- MODULE TokenProofs -----------------------------
(***************************************************************************)
(* What is proved of the three places where tokens, and the keys that sign *)
(* them, are kept for a while: the introspection results of the OAuth 2.0  *)
(* resource server, the cached JWKS document of the OP, and the tokens of  *)
(* a session with its refresh cache.  Each part has an inductive           *)
(* invariant, one lemma per action, the theorem that the invariant always  *)
(* holds, and the properties that follow from it.                          *)
(***************************************************************************)
EXTENDS OAuthTokens, KeyRollover, SessionTokens, FiniteSetTheorems, TLAPS

\* The larger and the smaller of two numbers.
LEMMA MaxTwo ==
    ASSUME NEW a \in Int, NEW b \in Int
    PROVE  Max({a, b}) = IF a >= b THEN a ELSE b
<1> DEFINE P(x) == x \in {a, b} /\ \A y \in {a, b} : x >= y
           m == IF a >= b THEN a ELSE b
<1>1. P(m) /\ \A x : P(x) => x = m
  OBVIOUS
<1>2. Max({a, b}) = CHOOSE x : P(x)
  BY DEF Max
<1> HIDE DEF P, m
<1>3. P(CHOOSE x : P(x))
  BY <1>1, Zenon
<1> QED
  BY <1>1, <1>2, <1>3 DEF m

LEMMA MinTwo ==
    ASSUME NEW a \in Int, NEW b \in Int
    PROVE  Min({a, b}) = IF a <= b THEN a ELSE b
<1> DEFINE P(x) == x \in {a, b} /\ \A y \in {a, b} : x <= y
           m == IF a <= b THEN a ELSE b
<1>1. P(m) /\ \A x : P(x) => x = m
  OBVIOUS
<1>2. Min({a, b}) = CHOOSE x : P(x)
  BY DEF Min
<1> HIDE DEF P, m
<1>3. P(CHOOSE x : P(x))
  BY <1>1, Zenon
<1> QED
  BY <1>1, <1>2, <1>3 DEF m

-----------------------------------------------------------------------------
(* The OAuth 2.0 resource server                                            *)

\* The states of a request, the token and its cache entry.
OStates == [pc : {"idle", "lookup", "resolve", "store", "served"}, mode : {"introspect", "jwt"},
            interval : Intervals, aud : Audiences, spent : 0 .. RequestLife,
            expiry : Expiries, says : 0 .. TokenLife]
Bearers == [active : BOOLEAN, left : 0 .. TokenLife, aud : SUBSET Audiences]
TokenEntries == [has : BOOLEAN, age : 0 .. EntryMax, left : 0 .. EntryMax,
                 by : {"absent", "unusable", "absolute", "relative"}]

\* How long the token may have ended, d, when a request with state q has come
\* this far: no longer than the request was under way since it asked the AS,
\* or than the interval that it accepts and the request that filled the cache.
EndedFor(q, d) ==
    /\ q.pc = "store" => d <= q.spent
    /\ q.pc = "served" /\ q.interval # 0 => d <= RequestLife + Max({q.interval, 0}) + q.spent

\* Where all introspect: what is in the cache was asked for when the token
\* had not ended.
Introspected ==
    modes = {"introspect"} =>
        /\ entry.has => ended <= entry.age + RequestLife
        /\ \A r \in OAuthRequests : EndedFor(oq[r], ended)

\* A token that is good has not ended, requests are of configured modes, and
\* an entry grows old at the cost of what is left of it.
TokenSides ==
    /\ bearer.active => ended = 0
    /\ \A r \in OAuthRequests : oq[r].mode \in modes
    /\ entry.age + entry.left <= EntryMax

\* What the AS told was left of the token was so at some time during the
\* request.
ToldInTime ==
    \A r \in OAuthRequests :
        oq[r].pc = "store" /\ oq[r].mode = "introspect" => oq[r].says <= bearer.left + oq[r].spent

\* The inductive invariant of the resource server.
OAuthInv ==
    OAuthTypeOK /\ TokenSides /\ Introspected /\ ToldInTime /\ EntryEndsWithToken /\ MadeForThisHost

\* The constants are numbers, and the longest interval is one too.
LEMMA OAuthNumbers ==
    /\ DefaultTTL \in Nat /\ TokenLife \in Nat /\ RequestLife \in Nat
    /\ EndedMax \in Nat /\ EntryMax \in Nat /\ DefaultTTL <= EntryMax /\ TokenLife <= EntryMax
    /\ Intervals \subseteq Int
<1>1. DefaultTTL \in Nat /\ TokenLife \in Nat /\ RequestLife \in Nat /\ Intervals \subseteq Nat \cup {-1}
  BY OAuthAssumption
<1>2. EntryMax = IF DefaultTTL >= TokenLife THEN DefaultTTL ELSE TokenLife
  BY <1>1, MaxTwo DEF EntryMax
<1>3. Max(Intervals \cup {0}) \in Nat
  <2> DEFINE S == Intervals \cup {0}
             P(x) == x \in S /\ \A y \in S : x >= y
  <2>1. PICK i \in Intervals : \A j \in Intervals : j <= i
    BY OAuthAssumption
  <2>2. \E x : P(x)
    <3>1. CASE i >= 0
      <4>1. P(i)
        BY <1>1, <2>1, <3>1
      <4> QED
        BY <4>1
    <3>2. CASE ~(i >= 0)
      <4>1. P(0)
        BY <1>1, <2>1, <3>2
      <4> QED
        BY <4>1
    <3> QED
      BY <3>1, <3>2
  <2>3. Max(S) = CHOOSE x : P(x)
    BY DEF Max
  <2>4. \A x : P(x) => x \in Nat
    BY <1>1
  <2> HIDE DEF P
  <2>5. P(CHOOSE x : P(x))
    BY <2>2, Zenon
  <2> QED
    BY <2>3, <2>4, <2>5
<1> QED
  BY <1>1, <1>2, <1>3 DEF EndedMax

\* A request at rest.
LEMMA RestedType == Rested \in OStates /\ Rested.says = 0 /\ Rested.pc = "idle" /\ Rested.mode = "introspect" /\ Rested.spent = 0
<1>1. (CHOOSE i \in Intervals : TRUE) \in Intervals /\ (CHOOSE a \in Audiences : TRUE) \in Audiences
  BY OAuthAssumption
<1>2. 0 \in 0 .. RequestLife /\ 0 \in 0 .. TokenLife
  BY OAuthNumbers
<1> QED
  BY <1>1, <1>2 DEF Rested, OStates, Expiries

\* An empty cache satisfies the invariant.
LEMMA OAuthInitInv == OAuthInit => OAuthInv
<1> SUFFICES ASSUME OAuthInit
             PROVE  OAuthInv
  OBVIOUS
<1>1. /\ modes \in {{"introspect"}, {"introspect", "jwt"}} /\ claim \in Claims /\ ended = 0 /\ entry = NoToken
      /\ oq = [r \in OAuthRequests |-> Rested]
  BY DEF OAuthInit
<1>2. PICK a \in SUBSET Audiences : bearer = [active |-> TRUE, left |-> TokenLife, aud |-> a]
  BY DEF OAuthInit
<1>3. bearer \in Bearers
  BY <1>2, OAuthNumbers DEF Bearers
<1>4. entry \in TokenEntries /\ ~entry.has /\ entry.age = 0 /\ entry.left = 0
  BY <1>1, OAuthNumbers DEF NoToken, TokenEntries
<1>5. OAuthTypeOK
  BY <1>1, <1>3, <1>4, RestedType, OAuthNumbers DEF OAuthTypeOK, OStates, Bearers, TokenEntries
<1>6. TokenSides
  BY <1>1, <1>4, RestedType, OAuthNumbers DEF TokenSides
<1>7. Introspected /\ ToldInTime /\ EntryEndsWithToken /\ MadeForThisHost
  BY <1>1, <1>4, RestedType DEF Introspected, EndedFor, ToldInTime, EntryEndsWithToken, MadeForThisHost
<1> QED
  BY <1>5, <1>6, <1>7 DEF OAuthInv

\* The types of the parts.
LEMMA OAuthTypes ==
    ASSUME OAuthInv
    PROVE  /\ bearer \in Bearers /\ entry \in TokenEntries /\ ended \in Int /\ ended >= 0 /\ ended <= EndedMax
           /\ oq \in [OAuthRequests -> OStates] /\ \A r \in OAuthRequests : oq[r] \in OStates
           /\ bearer.left \in Int /\ bearer.left >= 0 /\ bearer.left <= TokenLife
           /\ entry.age \in Int /\ entry.age >= 0 /\ entry.left \in Int /\ entry.left >= 0
           /\ \A r \in OAuthRequests : /\ oq[r].spent \in Int /\ oq[r].spent >= 0 /\ oq[r].spent <= RequestLife
                                       /\ oq[r].interval \in Int /\ oq[r].interval \in Intervals
                                       /\ oq[r].says \in Int /\ oq[r].says >= 0 /\ oq[r].says <= TokenLife
<1>1. bearer \in Bearers /\ entry \in TokenEntries /\ ended \in 0 .. EndedMax /\ oq \in [OAuthRequests -> OStates]
  BY DEF OAuthInv, OAuthTypeOK, Bearers, TokenEntries, OStates
<1>2. bearer.left \in 0 .. TokenLife /\ entry.age \in 0 .. EntryMax /\ entry.left \in 0 .. EntryMax
  BY <1>1 DEF Bearers, TokenEntries
<1>3. \A r \in OAuthRequests : oq[r] \in OStates
  BY <1>1
<1>4. \A r \in OAuthRequests : /\ oq[r].spent \in 0 .. RequestLife /\ oq[r].interval \in Intervals
                               /\ oq[r].says \in 0 .. TokenLife
  BY <1>3 DEF OStates
<1>5. /\ bearer.left \in Int /\ bearer.left >= 0 /\ bearer.left <= TokenLife
      /\ entry.age \in Int /\ entry.age >= 0 /\ entry.left \in Int /\ entry.left >= 0
  BY <1>2, OAuthNumbers
<1>6. ASSUME NEW r \in OAuthRequests
      PROVE  /\ oq[r].spent \in Int /\ oq[r].spent >= 0 /\ oq[r].spent <= RequestLife
             /\ oq[r].interval \in Int /\ oq[r].interval \in Intervals
             /\ oq[r].says \in Int /\ oq[r].says >= 0 /\ oq[r].says <= TokenLife
  <2>1. oq[r].spent \in 0 .. RequestLife /\ oq[r].interval \in Intervals /\ oq[r].says \in 0 .. TokenLife
    BY <1>4, <1>6
  <2>2. RequestLife \in Nat /\ Intervals \subseteq Int /\ TokenLife \in Nat
    BY OAuthNumbers
  <2>3. oq[r].interval \in Int
    BY <2>1, <2>2
  <2> QED
    BY <2>1, <2>2, <2>3
<1>7. ended \in Int /\ ended >= 0 /\ ended <= EndedMax
  <2>1. ended \in 0 .. EndedMax
    BY <1>1
  <2>2. EndedMax \in Nat
    BY OAuthNumbers
  <2> QED
    BY <2>1, <2>2
<1> QED
  BY <1>1, <1>3, <1>5, <1>6, <1>7

\* An interval of -1 counts as 0.
LEMMA MaxInterval ==
    ASSUME NEW i \in Int
    PROVE  Max({i, 0}) \in Int /\ Max({i, 0}) >= 0 /\ Max({i, 0}) >= i
  BY MaxTwo

\* A step of request r, which takes it to s and may fill the cache.
LEMMA RequestStep ==
    ASSUME OAuthInv, NEW r \in OAuthRequests, NEW s \in OStates, oq' = [oq EXCEPT ![r] = s],
           UNCHANGED <<modes, claim, bearer, ended>>, s.mode \in modes,
           s.pc = "store" /\ s.mode = "introspect" => s.says <= bearer.left + s.spent,
           s.pc \in {"store", "served"} /\ s.mode = "jwt" => AudienceMatches(s),
           modes = {"introspect"} => EndedFor(s, ended),
           entry' \in TokenEntries, entry'.age + entry'.left <= EntryMax,
           entry'.has => /\ entry'.by = "absolute" => entry'.left <= bearer.left
                         /\ entry'.by = "relative" => entry'.left <= bearer.left + RequestLife
                         /\ entry'.by \in {"absent", "unusable"} => entry'.left <= DefaultTTL,
           modes = {"introspect"} /\ entry'.has => ended <= entry'.age + RequestLife
    PROVE  OAuthInv'
<1>1. /\ oq' \in [OAuthRequests -> OStates] /\ oq'[r] = s
      /\ \A u \in OAuthRequests \ {r} : oq'[u] = oq[u]
  BY OAuthTypes
<1>2. OAuthTypeOK'
  BY <1>1 DEF OAuthInv, OAuthTypeOK, OStates, TokenEntries
<1>3. TokenSides'
  BY <1>1 DEF OAuthInv, TokenSides
<1>4. Introspected'
  BY <1>1 DEF OAuthInv, Introspected, EndedFor
<1>5. EntryEndsWithToken'
  BY DEF EntryEndsWithToken
<1>6. MadeForThisHost'
  BY <1>1 DEF OAuthInv, MadeForThisHost, AudienceMatches
<1>7. ToldInTime'
  BY <1>1 DEF OAuthInv, ToldInTime
<1> QED
  BY <1>2, <1>3, <1>4, <1>5, <1>6, <1>7 DEF OAuthInv

\* The same where the cache is left alone.
LEMMA OnlyRequestStep ==
    ASSUME OAuthInv, NEW r \in OAuthRequests, NEW s \in OStates, oq' = [oq EXCEPT ![r] = s],
           UNCHANGED <<modes, claim, bearer, ended, entry>>, s.mode \in modes,
           s.pc = "store" /\ s.mode = "introspect" => s.says <= bearer.left + s.spent,
           s.pc \in {"store", "served"} /\ s.mode = "jwt" => AudienceMatches(s),
           modes = {"introspect"} => EndedFor(s, ended)
    PROVE  OAuthInv'
  BY RequestStep, OAuthTypes DEF OAuthInv, TokenSides, Introspected, EntryEndsWithToken

\* A request with the token comes in, or ends.
LEMMA ReceiveStep ==
    ASSUME OAuthInv, NEW r \in OAuthRequests, Receives(r) \/ EndOAuthRequest(r) \/ RefuseToken(r)
    PROVE  OAuthInv'
<1>1. UNCHANGED <<modes, claim, bearer, ended, entry>> /\ "introspect" \in modes
  BY DEF Receives, EndOAuthRequest, RefuseToken, OAuthInv, OAuthTypeOK
<1>2. CASE Receives(r)
  <2>1. PICK mode \in modes, i \in Intervals, a \in Audiences :
          oq' = [oq EXCEPT ![r] = [Rested EXCEPT !.pc = "lookup", !.mode = mode, !.interval = i, !.aud = a]]
    BY <1>2 DEF Receives
  <2> DEFINE s == [Rested EXCEPT !.pc = "lookup", !.mode = mode, !.interval = i, !.aud = a]
  <2>2. mode \in {"introspect", "jwt"}
    BY DEF OAuthInv, OAuthTypeOK
  <2>3. s \in OStates /\ s.pc = "lookup" /\ s.mode = mode
    BY <2>2, RestedType DEF OStates
  <2> HIDE DEF s
  <2> QED
    BY <1>1, <2>1, <2>3, OnlyRequestStep DEF EndedFor, s
<1>3. CASE EndOAuthRequest(r) \/ RefuseToken(r)
  BY <1>1, <1>3, RestedType, OnlyRequestStep DEF EndOAuthRequest, RefuseToken, EndedFor
<1> QED
  BY <1>2, <1>3

\* The cached result is used or not.
LEMMA LookupStep ==
    ASSUME OAuthInv, NEW r \in OAuthRequests, LookupToken(r)
    PROVE  OAuthInv'
<1> DEFINE q == oq[r]
           p == IF ~Cached(q) THEN "resolve" ELSE CachedAnswer(q)
           s == [q EXCEPT !.pc = p]
<1>1. UNCHANGED <<modes, claim, bearer, ended, entry>> /\ q.pc = "lookup" /\ q \in OStates /\ q.mode \in modes
      /\ q.interval \in Int /\ q.spent \in Int /\ q.spent >= 0
  BY OAuthTypes DEF LookupToken, OAuthInv, TokenSides
<1>2. p \in {"resolve", "idle", "served"} /\ (p = "served" => Cached(q) /\ (q.mode = "jwt" => AudienceMatches(q)))
  BY DEF CachedAnswer
<1>3. oq' = [oq EXCEPT ![r] = s]
  BY <1>1, OAuthTypes DEF LookupToken
<1> HIDE DEF p
<1>4. /\ s \in OStates /\ s.pc = p /\ s.mode = q.mode /\ s.interval = q.interval /\ s.aud = q.aud /\ s.spent = q.spent
  BY <1>1, <1>2 DEF OStates
<1> HIDE DEF s
<1>5. ASSUME modes = {"introspect"}
      PROVE  EndedFor(s, ended)
  <2> SUFFICES ASSUME p = "served", q.interval # 0
               PROVE  ended <= RequestLife + Max({q.interval, 0}) + q.spent
    BY <1>2, <1>4 DEF EndedFor
  <2>1. entry.has /\ q.interval > 0 /\ entry.age <= q.interval
    BY <1>1, <1>2, OAuthNumbers, OAuthTypes, OAuthAssumption DEF Cached
  <2>2. ended <= entry.age + RequestLife
    BY <1>5, <2>1 DEF OAuthInv, Introspected
  <2>3. Max({q.interval, 0}) >= q.interval /\ Max({q.interval, 0}) \in Int
    BY <1>1, MaxInterval
  <2> QED
    BY <1>1, <2>1, <2>2, <2>3, OAuthTypes, OAuthNumbers
<1>6. s.pc \in {"store", "served"} /\ s.mode = "jwt" => AudienceMatches(s)
  BY <1>2, <1>4 DEF AudienceMatches
<1>7. s.pc # "store"
  BY <1>2, <1>4
<1> QED
  BY <1>1, <1>3, <1>4, <1>5, <1>6, <1>7, OnlyRequestStep

\* The AS is asked, or the JWT is validated.
LEMMA ResolveStep ==
    ASSUME OAuthInv, NEW r \in OAuthRequests, Introspect(r) \/ ValidateJwt(r)
    PROVE  OAuthInv'
<1> DEFINE q == oq[r]
<1>1. UNCHANGED <<modes, claim, bearer, ended, entry>> /\ q.pc = "resolve" /\ q \in OStates /\ q.mode \in modes
      /\ q.spent \in Int /\ q.spent >= 0 /\ "introspect" \in modes
  BY OAuthTypes DEF Introspect, ValidateJwt, OAuthInv, TokenSides, OAuthTypeOK
<1>2. CASE oq' = [oq EXCEPT ![r] = Rested]
  BY <1>1, <1>2, RestedType, OnlyRequestStep DEF EndedFor
<1>3. ASSUME NEW x \in Expiries, NEW n \in 0 .. TokenLife, n <= bearer.left,
             oq' = [oq EXCEPT ![r] = [q EXCEPT !.pc = "store", !.expiry = x, !.says = n]],
             q.mode = "introspect" => bearer.active, q.mode = "jwt" => AudienceMatches(q)
      PROVE  OAuthInv'
  <2> DEFINE s == [q EXCEPT !.pc = "store", !.expiry = x, !.says = n]
  <2>1. s \in OStates /\ s.pc = "store" /\ s.mode = q.mode /\ s.aud = q.aud /\ s.spent = q.spent /\ s.says = n
    BY <1>1 DEF OStates
  <2>2. oq' = [oq EXCEPT ![r] = s]
    BY <1>3
  <2> HIDE DEF s
  <2>3. modes = {"introspect"} => EndedFor(s, ended)
    BY <1>1, <1>3, <2>1 DEF EndedFor, OAuthInv, TokenSides
  <2>4. s.mode = "jwt" => AudienceMatches(s)
    BY <1>3, <2>1 DEF AudienceMatches
  <2>5. s.says <= bearer.left + s.spent
    <3>1. n \in Int /\ n <= bearer.left /\ bearer.left \in Int
      BY <1>3, OAuthTypes, OAuthNumbers
    <3> HIDE DEF q
    <3> QED
      BY <1>1, <2>1, <3>1
  <2> QED
    BY <1>1, <2>1, <2>2, <2>3, <2>4, <2>5, OnlyRequestStep
<1>4. CASE Introspect(r)
  <2> SUFFICES ASSUME bearer.active, q.mode = "introspect", NEW x \in Expiries,
                      oq' = [oq EXCEPT ![r] = [q EXCEPT !.pc = "store", !.expiry = x, !.says = Told(x)]]
               PROVE  OAuthInv'
    BY <1>2, <1>4 DEF Introspect
  <2>1. Told(x) \in 0 .. TokenLife /\ Told(x) <= bearer.left
    BY OAuthTypes, OAuthNumbers DEF Told
  <2> QED
    BY <1>3, <2>1
<1>5. CASE ValidateJwt(r)
  <2> SUFFICES ASSUME q.mode = "jwt", AudienceMatches(q),
                      oq' = [oq EXCEPT ![r] = [q EXCEPT !.pc = "store", !.expiry = "number"]]
               PROVE  OAuthInv'
    BY <1>2, <1>5 DEF ValidateJwt
  <2> DEFINE s == [q EXCEPT !.pc = "store", !.expiry = "number"]
  <2>1. s \in OStates /\ s.pc = "store" /\ s.mode = "jwt" /\ s.aud = q.aud
    BY <1>1 DEF OStates, Expiries
  <2>2. modes # {"introspect"} /\ oq' = [oq EXCEPT ![r] = s]
    BY <1>1
  <2> HIDE DEF s
  <2>3. AudienceMatches(s)
    BY <2>1 DEF AudienceMatches
  <2> QED
    BY <1>1, <2>1, <2>2, <2>3, OnlyRequestStep
<1> QED
  BY <1>4, <1>5

\* The result is stored with the lifetime that the AS has told or the default.
LEMMA OAuthStoreStep ==
    ASSUME OAuthInv, NEW r \in OAuthRequests, StoreToken(r)
    PROVE  OAuthInv'
<1> DEFINE q == oq[r]
           left == CacheTime(q)
           s == [q EXCEPT !.pc = "served", !.expiry = "absent", !.says = 0]
<1>1. UNCHANGED <<modes, claim, bearer, ended>> /\ q.pc = "store" /\ q \in OStates /\ q.mode \in modes
      /\ q.interval \in Int /\ q.spent \in Int /\ q.spent >= 0 /\ q.spent <= RequestLife
      /\ q.says \in Int /\ q.says >= 0 /\ q.says <= TokenLife
  BY OAuthTypes DEF StoreToken, OAuthInv, TokenSides
<1>2. oq' = [oq EXCEPT ![r] = s]
  BY <1>1, OAuthTypes DEF StoreToken
<1>3. /\ s \in OStates /\ s.pc = "served" /\ s.mode = q.mode /\ s.interval = q.interval /\ s.aud = q.aud /\ s.spent = q.spent
  <2>1. 0 \in 0 .. TokenLife /\ "absent" \in Expiries
    BY OAuthNumbers DEF Expiries
  <2> QED
    BY <1>1, <2>1 DEF OStates
<1> HIDE DEF s
<1>4. modes = {"introspect"} => ended <= q.spent /\ ended <= RequestLife
  <2>1. modes = {"introspect"} => ended <= q.spent
    BY <1>1 DEF OAuthInv, Introspected, EndedFor
  <2>2. ended \in Int
    BY OAuthTypes
  <2> HIDE DEF q
  <2> QED
    BY <1>1, <2>1, <2>2, OAuthNumbers
<1>5. modes = {"introspect"} => EndedFor(s, ended)
  BY <1>1, <1>3, <1>4, MaxInterval, OAuthTypes, OAuthNumbers DEF EndedFor
<1>6. s.mode = "jwt" => AudienceMatches(s)
  BY <1>1, <1>3 DEF OAuthInv, MadeForThisHost, AudienceMatches
<1>7. entry' = IF q.interval = -1 THEN entry
               ELSE IF left = 0 THEN NoToken
               ELSE [has |-> TRUE, age |-> 0, by |-> BoundBy(q), left |-> left]
  BY DEF StoreToken
<1>8. /\ BoundBy(q) \in {"absent", "unusable", "absolute", "relative"}
      /\ BoundBy(q) = "relative" => left = q.says /\ q.mode = "introspect"
      /\ BoundBy(q) = "absolute" => left = bearer.left
      /\ BoundBy(q) \in {"absent", "unusable"} => left = DefaultTTL
  BY DEF BoundBy, CacheTime, Relative
<1>9. q.mode = "introspect" => q.says <= bearer.left + RequestLife
  <2>1. q.mode = "introspect" => q.says <= bearer.left + q.spent
    BY <1>1 DEF OAuthInv, ToldInTime
  <2>2. bearer.left \in Int
    BY OAuthTypes
  <2> HIDE DEF q
  <2> QED
    BY <1>1, <2>1, <2>2, OAuthNumbers
<1> HIDE DEF left
<1>10. left \in 0 .. EntryMax
  <2>1. left \in {q.says, bearer.left, DefaultTTL}
    BY <1>8
  <2> HIDE DEF q
  <2> QED
    BY <1>1, <2>1, OAuthTypes, OAuthNumbers
<1>11. CASE q.interval = -1
  BY <1>1, <1>2, <1>3, <1>5, <1>6, <1>7, <1>11, OnlyRequestStep
<1>12. CASE q.interval # -1 /\ left = 0
  <2>1. entry' \in TokenEntries /\ ~entry'.has /\ entry'.age = 0 /\ entry'.left = 0
    BY <1>7, <1>12, OAuthNumbers DEF NoToken, TokenEntries
  <2>2. entry'.age + entry'.left <= EntryMax
    BY <2>1, OAuthNumbers
  <2> QED
    BY <1>1, <1>2, <1>3, <1>5, <1>6, <2>1, <2>2, RequestStep
<1>13. CASE q.interval # -1 /\ left # 0
  <2>1. PICK by \in {"absent", "unusable", "absolute", "relative"} : by = BoundBy(q)
    BY <1>8
  <2>2. entry' = [has |-> TRUE, age |-> 0, by |-> by, left |-> left] /\ 0 \in 0 .. EntryMax
    BY <1>7, <1>13, <2>1, OAuthNumbers
  <2>3. entry' \in TokenEntries /\ entry'.age = 0 /\ entry'.left = left /\ entry'.by = by
    BY <1>10, <2>2 DEF TokenEntries
  <2>4. /\ by = "absolute" => left <= bearer.left
        /\ by = "relative" => left <= bearer.left + RequestLife
        /\ by \in {"absent", "unusable"} => left <= DefaultTTL
    BY <1>8, <1>9, <2>1, OAuthTypes, OAuthNumbers
  <2>5. entry'.age + entry'.left <= EntryMax
    BY <1>10, <2>3, OAuthNumbers
  <2>6. modes = {"introspect"} => ended <= entry'.age + RequestLife
    BY <1>4, <2>3, OAuthNumbers
  <2> QED
    BY <1>1, <1>2, <1>3, <1>5, <1>6, <2>3, <2>4, <2>5, <2>6, RequestStep
<1> QED
  BY <1>11, <1>12, <1>13

\* The entry is removed or the token is revoked.
LEMMA AsideStep ==
    ASSUME OAuthInv, RemoveFromCache \/ Revoke
    PROVE  OAuthInv'
<1>1. UNCHANGED <<modes, claim, ended, oq>>
  BY DEF RemoveFromCache, Revoke
<1>2. CASE RemoveFromCache
  <2>1. entry' \in TokenEntries /\ ~entry'.has /\ entry'.age = 0 /\ entry'.left = 0 /\ bearer' = bearer
    BY <1>2, OAuthNumbers DEF RemoveFromCache, NoToken, TokenEntries
  <2>2. entry'.age + entry'.left <= EntryMax
    BY <2>1, OAuthNumbers
  <2> QED
    BY <1>1, <2>1, <2>2 DEF OAuthInv, OAuthTypeOK, TokenEntries, TokenSides, Introspected, EndedFor,
       ToldInTime, EntryEndsWithToken, MadeForThisHost, AudienceMatches
<1>3. CASE Revoke
  <2>1. /\ bearer' \in Bearers /\ bearer'.active = FALSE /\ bearer'.left = bearer.left /\ bearer'.aud = bearer.aud
        /\ entry' = entry
    BY <1>3, OAuthTypes DEF Revoke, Bearers
  <2> QED
    BY <1>1, <2>1 DEF OAuthInv, OAuthTypeOK, Bearers, TokenSides, Introspected, EndedFor,
       ToldInTime, EntryEndsWithToken, MadeForThisHost, AudienceMatches
<1> QED
  BY <1>2, <1>3

\* Time goes by for the token, its entry and the requests.
LEMMA OAuthTickStep ==
    ASSUME OAuthInv, OAuthTick
    PROVE  OAuthInv'
<1> DEFINE next(r) == IF oq[r].pc = "idle" THEN oq[r] ELSE [oq[r] EXCEPT !.spent = @ + 1]
<1>1. /\ bearer' = [bearer EXCEPT !.left = Max({@ - 1, 0}), !.active = @ /\ bearer.left > 1]
      /\ ended' = IF bearer.active THEN 0 ELSE Min({ended + 1, EndedMax})
      /\ entry' = IF ~entry.has \/ entry.left <= 1 THEN NoToken
                  ELSE [entry EXCEPT !.left = @ - 1, !.age = @ + 1]
      /\ oq' = [r \in OAuthRequests |-> next(r)]
      /\ modes' = modes /\ claim' = claim
      /\ \A r \in OAuthRequests : oq[r].pc = "idle" \/ oq[r].spent < RequestLife
  BY DEF OAuthTick
<1>2. /\ bearer' \in Bearers /\ bearer'.aud = bearer.aud /\ (bearer'.active => bearer.active)
      /\ bearer'.left \in Int /\ bearer'.left >= 0 /\ bearer'.left >= bearer.left - 1
  <2>1. PICK b \in BOOLEAN : b = (bearer.active /\ bearer.left > 1)
    BY Zenon
  <2>2. Max({bearer.left - 1, 0}) = IF bearer.left - 1 >= 0 THEN bearer.left - 1 ELSE 0
    BY MaxTwo, OAuthTypes
  <2>3. PICK n \in 0 .. TokenLife : n = Max({bearer.left - 1, 0}) /\ n >= bearer.left - 1
    BY <2>2, OAuthTypes, OAuthNumbers
  <2>4. bearer' = [bearer EXCEPT !.left = n, !.active = b]
    BY <1>1, <2>1, <2>3, Zenon
  <2>5. bearer' \in Bearers /\ bearer'.aud = bearer.aud /\ bearer'.active = b /\ bearer'.left = n
    BY <2>4, OAuthTypes DEF Bearers
  <2>6. bearer'.left \in Int /\ bearer'.left >= 0 /\ bearer'.left >= bearer.left - 1
    BY <2>3, <2>5, OAuthNumbers
  <2>7. bearer'.active => bearer.active
    BY <2>1, <2>5, Zenon
  <2> QED
    BY <2>5, <2>6, <2>7
<1>3. /\ ended' \in 0 .. EndedMax /\ ended' <= ended + 1 /\ (bearer.active => ended' = 0)
  <2>1. Min({ended + 1, EndedMax}) = IF ended + 1 <= EndedMax THEN ended + 1 ELSE EndedMax
    BY MinTwo, OAuthTypes, OAuthNumbers
  <2> QED
    BY <1>1, <2>1, OAuthTypes, OAuthNumbers
<1>4. /\ entry' \in TokenEntries /\ entry'.age + entry'.left <= EntryMax
      /\ entry'.has => /\ entry.has /\ entry'.by = entry.by /\ entry'.left = entry.left - 1
                       /\ entry'.age = entry.age + 1 /\ entry.left > 1
  <2>1. CASE ~entry.has \/ entry.left <= 1
    <3>1. entry' = NoToken
      BY <1>1, <2>1
    <3>2. entry' \in TokenEntries /\ ~entry'.has /\ entry'.age = 0 /\ entry'.left = 0
      BY <3>1, OAuthNumbers DEF NoToken, TokenEntries
    <3> QED
      BY <3>2, OAuthNumbers
  <2>2. CASE entry.has /\ ~(entry.left <= 1)
    <3>1. entry' = [entry EXCEPT !.left = @ - 1, !.age = @ + 1]
      BY <1>1, <2>2
    <3>2. entry.age + entry.left <= EntryMax /\ entry.left > 1
      BY <2>2, OAuthTypes DEF OAuthInv, TokenSides
    <3>3. entry.left - 1 \in 0 .. EntryMax /\ entry.age + 1 \in 0 .. EntryMax
          /\ (entry.age + 1) + (entry.left - 1) <= EntryMax
      BY <3>2, OAuthTypes, OAuthNumbers
    <3>4. /\ entry' \in TokenEntries /\ entry'.has = entry.has /\ entry'.by = entry.by
          /\ entry'.left = entry.left - 1 /\ entry'.age = entry.age + 1
      BY <3>1, <3>3, OAuthTypes DEF TokenEntries
    <3> QED
      BY <2>2, <3>2, <3>3, <3>4
  <2> QED
    BY <2>1, <2>2
<1>5. ASSUME NEW r \in OAuthRequests
      PROVE  /\ oq'[r] \in OStates /\ oq'[r].pc = oq[r].pc /\ oq'[r].mode = oq[r].mode
             /\ oq'[r].interval = oq[r].interval /\ oq'[r].aud = oq[r].aud /\ oq'[r].says = oq[r].says
             /\ oq[r].pc # "idle" => oq'[r].spent = oq[r].spent + 1
  <2>1. oq[r] \in OStates /\ oq[r].spent \in Int /\ oq[r].spent >= 0 /\ oq'[r] = next(r)
    BY <1>1, OAuthTypes
  <2>2. CASE oq[r].pc = "idle"
    BY <2>1, <2>2
  <2>3. CASE oq[r].pc # "idle"
    <3>1. oq[r].spent + 1 \in 0 .. RequestLife
      BY <1>1, <2>1, <2>3, OAuthNumbers
    <3>2. oq'[r] = [oq[r] EXCEPT !.spent = @ + 1]
      BY <2>1, <2>3
    <3> QED
      BY <2>1, <3>1, <3>2 DEF OStates
  <2> QED
    BY <2>2, <2>3
<1> HIDE DEF next
<1>6. OAuthTypeOK'
  <2>1. oq' \in [OAuthRequests -> OStates]
    BY <1>1, <1>5
  <2> QED
    BY <1>1, <1>2, <1>3, <1>4, <2>1 DEF OAuthInv, OAuthTypeOK, OStates, TokenEntries, Bearers
<1>7. TokenSides'
  BY <1>1, <1>2, <1>3, <1>4, <1>5 DEF OAuthInv, TokenSides
<1>8. Introspected'
  <2> SUFFICES ASSUME modes = {"introspect"}
               PROVE  /\ entry'.has => ended' <= entry'.age + RequestLife
                      /\ \A r \in OAuthRequests : EndedFor(oq'[r], ended')
    BY <1>1 DEF Introspected, EndedFor
  <2>1. ended' \in Int
    BY <1>3, OAuthNumbers
  <2>2. entry.has => ended <= entry.age + RequestLife
    BY DEF OAuthInv, Introspected
  <2>3. entry'.has => ended' <= entry'.age + RequestLife
    BY <1>3, <1>4, <2>1, <2>2, OAuthTypes, OAuthNumbers
  <2>4. ASSUME NEW r \in OAuthRequests
        PROVE  EndedFor(oq'[r], ended')
    <3>1. EndedFor(oq[r], ended) /\ oq[r].interval \in Int /\ oq[r].spent \in Int /\ ended \in Int
      BY OAuthTypes DEF OAuthInv, Introspected
    <3>2. PICK m \in Int : m = Max({oq[r].interval, 0})
      BY <3>1, MaxInterval
    <3>3. oq[r].pc = "store" => ended' <= oq'[r].spent
      BY <1>3, <1>5, <2>1, <3>1 DEF EndedFor
    <3>4. oq[r].pc = "served" /\ oq[r].interval # 0 => ended <= RequestLife + m + oq[r].spent
      BY <3>1, <3>2 DEF EndedFor
    <3>5. oq[r].pc = "served" /\ oq[r].interval # 0 => ended' <= RequestLife + m + oq'[r].spent
      BY <1>3, <1>5, <2>1, <3>1, <3>4, OAuthNumbers
    <3> QED
      BY <1>5, <3>2, <3>3, <3>5 DEF EndedFor
  <2> QED
    BY <2>3, <2>4
<1>9. EntryEndsWithToken'
  <2> SUFFICES ASSUME entry'.has
               PROVE  /\ entry'.by = "absolute" => entry'.left <= bearer'.left
                      /\ entry'.by = "relative" => entry'.left <= bearer'.left + RequestLife
                      /\ entry'.by \in {"absent", "unusable"} => entry'.left <= DefaultTTL
    BY DEF EntryEndsWithToken
  <2>1. /\ entry'.by = entry.by /\ entry'.left = entry.left - 1
        /\ entry.by = "absolute" => entry.left <= bearer.left
        /\ entry.by = "relative" => entry.left <= bearer.left + RequestLife
        /\ entry.by \in {"absent", "unusable"} => entry.left <= DefaultTTL
    BY <1>4 DEF OAuthInv, EntryEndsWithToken
  <2> QED
    BY <1>2, <2>1, OAuthTypes, OAuthNumbers
<1>11. ToldInTime'
  <2> SUFFICES ASSUME NEW r \in OAuthRequests, oq[r].pc = "store", oq[r].mode = "introspect"
               PROVE  oq'[r].says <= bearer'.left + oq'[r].spent
    BY <1>5 DEF ToldInTime
  <2>1. oq[r].says <= bearer.left + oq[r].spent
    BY DEF OAuthInv, ToldInTime
  <2>2. oq'[r].says = oq[r].says /\ oq'[r].spent = oq[r].spent + 1
    BY <1>5
  <2> QED
    BY <1>2, <2>1, <2>2, OAuthTypes
<1>10. MadeForThisHost'
  BY <1>2, <1>5 DEF OAuthInv, MadeForThisHost, AudienceMatches
<1> QED
  BY <1>6, <1>7, <1>8, <1>9, <1>10, <1>11 DEF OAuthInv

\* Every step of the resource server preserves the invariant.
LEMMA OAuthStep ==
    ASSUME OAuthInv, [OAuthNext]_oauthVars
    PROVE  OAuthInv'
<1>1. CASE UNCHANGED oauthVars
  BY <1>1 DEF oauthVars, OAuthInv, OAuthTypeOK, TokenSides, Introspected, EndedFor,
              ToldInTime, EntryEndsWithToken, MadeForThisHost, AudienceMatches
<1>2. CASE OAuthNext
  BY <1>2, ReceiveStep, LookupStep, ResolveStep, OAuthStoreStep, AsideStep, OAuthTickStep DEF OAuthNext
<1> QED
  BY <1>1, <1>2

\* The invariant of the resource server always holds, for every lifetime and
\* set of intervals that has a longest one.
THEOREM OAuthInvariance == OAuthSpec => []OAuthInv
<1>1. OAuthInv /\ [OAuthNext]_oauthVars => OAuthInv'
  BY OAuthStep
<1> QED
  BY <1>1, OAuthInitInv, PTL DEF OAuthSpec

\* A cached introspection result is never used for longer after the end of
\* the token than OIDCOAuthTokenIntrospectionInterval and two requests take,
\* an entry ends with a token whose expiry was told as a time, outlives it by
\* one request at most where it was told as what is left, and has the default
\* time where it was not told; no host lets in a JWT that was not made for it.
THEOREM ResultsAlwaysSound == OAuthSpec => []ResultsSound
<1>1. ASSUME OAuthInv
      PROVE  ResultsSound
  <2>1. EndNoticed
    <3> SUFFICES ASSUME NEW r \in OAuthRequests, oq[r].pc = "served", oq[r].interval # 0,
                        modes = {"introspect"}
                 PROVE  ended <= 2 * RequestLife + Max({oq[r].interval, 0})
      BY DEF EndNoticed
    <3>1. ended <= RequestLife + Max({oq[r].interval, 0}) + oq[r].spent
      BY <1>1 DEF OAuthInv, Introspected, EndedFor
    <3>2. oq[r].spent \in Int /\ oq[r].spent <= RequestLife /\ oq[r].interval \in Int /\ ended \in Int
      BY <1>1, OAuthTypes
    <3>3. PICK m \in Int : m = Max({oq[r].interval, 0})
      BY <3>2, MaxInterval
    <3>4. ended <= 2 * RequestLife + m
      BY <3>1, <3>2, <3>3, OAuthNumbers
    <3> QED
      BY <3>3, <3>4
  <2> QED
    BY <1>1, <2>1 DEF OAuthInv, ResultsSound
<1> QED
  BY <1>1, OAuthInvariance, PTL

-----------------------------------------------------------------------------
(* The keys of the OP                                                       *)

\* The states of a request that verifies a token.
VStates == [pc : Steps, key : Keys, kid : Keys \cup {NoKid},
            refresh : BOOLEAN, attempted : BOOLEAN, again : BOOLEAN,
            doc : SUBSET Keys, spent : 0 .. FetchBound]

\* A key that is in use or to come was not replaced, and a document is only
\* called settled when the key has been in use for longer than a download.
OpOk ==
    /\ \A k \in Keys : k >= opKey => keyAge[k] = -1
    /\ settled => currentFor = CurrentCap

\* The cached document has keys of the OP, replaced for no longer than its
\* download took and its lifetime has run down; the settled one has the
\* current key.
CachedOk ==
    cached.left > 0 =>
        /\ \A k \in cached.keys : k # 0 /\ keyAge[k] <= FetchBound + RefreshInterval - cached.left
        /\ settled /\ ~faulted => cached.keys = {opKey}

\* The requests that have found no marker and not stored one yet.
Stampers == {v \in Verifiers : vstate[v].pc = "stamp"}

\* Who is about to force a download has found no marker, and there was no
\* time since for one to run out.
MarkerOk ==
    /\ marker = 0 => forcedCount = 0
    /\ forcedCount + Cardinality(Stampers) <= Cardinality(Verifiers)

\* What was fetched is the document of the moment: its key is the current one
\* or was replaced since.
StoreOk(st) ==
    st.pc = "store" =>
        \E k \in 1 .. opKey :
            /\ st.doc = {k} /\ keyAge[k] <= st.spent
            /\ k # opKey => currentFor <= st.spent /\ st.key # opKey

\* What holds of a request with state st, by the step that it has reached.
VerifierOk(st) ==
    /\ StoreOk(st)
    /\ st.key <= opKey
    /\ st.pc = "lookup" => ~st.refresh /\ ~st.again
    /\ st.pc = "accepted" /\ st.key \notin StaticKeys => st.key # 0 /\ keyAge[st.key] < AgeCap
    /\ st.pc = "fallback" /\ ~faulted => marker > 0
    /\ st.pc \in {"throttle", "fallback"} /\ settled /\ ~faulted /\ st.key = opKey => cached.left > 0

\* The inductive invariant of the key lookup.
KeyInv ==
    /\ KeyTypeOK /\ OpOk /\ CachedOk /\ MarkerOk
    /\ \A v \in Verifiers : VerifierOk(vstate[v])

\* The constants are numbers.
LEMMA KeyNumbers ==
    /\ MaxKey \in Nat /\ MaxKey > 0 /\ RefreshInterval \in Nat /\ RefreshInterval > 0
    /\ ForcedInterval \in Nat /\ FetchBound \in Nat
    /\ AgeCap = RefreshInterval + FetchBound /\ AgeCap \in Nat /\ AgeCap > 0
    /\ CurrentCap = FetchBound + 1 /\ CurrentCap \in Nat
    /\ Keys = 0 .. MaxKey /\ Cardinality(Verifiers) \in Nat
<1>1. Cardinality(Verifiers) \in Nat
  BY KeyAssumption, FS_CardinalityType
<1> QED
  BY <1>1, KeyAssumption DEF AgeCap, CurrentCap, Keys

\* A request at rest.
LEMMA IdleType ==
    /\ Idle \in VStates /\ Idle.pc = "idle" /\ Idle.key = 0 /\ Idle.doc = {} /\ Idle.spent = 0
    /\ Idle.refresh = FALSE /\ Idle.again = FALSE
<1>1. 0 \in Keys /\ 0 \in 0 .. FetchBound
  BY KeyNumbers
<1> QED
  BY <1>1 DEF Idle, VStates, Steps

\* An empty cache satisfies the invariant.
LEMMA KeyInitInv == KeyInit => KeyInv
<1> SUFFICES ASSUME KeyInit
             PROVE  KeyInv
  OBVIOUS
<1>1. /\ opKey = 1 /\ keyAge = [k \in Keys |-> -1] /\ currentFor = CurrentCap /\ settled = TRUE
      /\ cached = [keys |-> {}, left |-> 0] /\ marker = 0 /\ forcedCount = 0 /\ faulted = FALSE
      /\ vstate = [v \in Verifiers |-> Idle]
  BY DEF KeyInit
<1>2. KeyTypeOK
  <2>1. vstate \in [Verifiers -> VStates]
    BY <1>1, IdleType
  <2>2. cached \in [keys : SUBSET Keys, left : 0 .. RefreshInterval]
    BY <1>1, KeyNumbers
  <2>3. keyAge \in [Keys -> -1 .. AgeCap]
    BY <1>1, KeyNumbers
  <2>4. opKey \in 1 .. MaxKey /\ currentFor \in 0 .. CurrentCap /\ marker \in 0 .. ForcedInterval
        /\ forcedCount \in 0 .. 2 * Cardinality(Verifiers) + 1
    BY <1>1, KeyNumbers
  <2> QED
    BY <1>1, <2>1, <2>2, <2>3, <2>4 DEF KeyTypeOK, VStates
<1>3. OpOk
  BY <1>1 DEF OpOk
<1>4. CachedOk
  BY <1>1 DEF CachedOk
<1>5. MarkerOk
  <2>1. Stampers = {}
    BY <1>1, IdleType DEF Stampers
  <2>2. Cardinality({}) = 0
    BY FS_EmptySet
  <2> QED
    BY <1>1, <2>1, <2>2, KeyNumbers DEF MarkerOk
<1>6. \A v \in Verifiers : VerifierOk(vstate[v])
  BY <1>1, IdleType DEF VerifierOk, StoreOk
<1> QED
  BY <1>2, <1>3, <1>4, <1>5, <1>6 DEF KeyInv

\* The types of the parts.
LEMMA KeyTypes ==
    ASSUME KeyInv
    PROVE  /\ opKey \in Int /\ opKey >= 1 /\ opKey <= MaxKey /\ opKey \in Keys
           /\ keyAge \in [Keys -> -1 .. AgeCap] /\ currentFor \in Int /\ currentFor >= 0 /\ currentFor <= CurrentCap
           /\ \A k \in Keys : keyAge[k] \in Int /\ keyAge[k] >= -1 /\ keyAge[k] <= AgeCap /\ k \in Int
           /\ settled \in BOOLEAN /\ faulted \in BOOLEAN
           /\ cached.keys \subseteq Keys /\ cached.left \in Int /\ cached.left >= 0 /\ cached.left <= RefreshInterval
           /\ marker \in Int /\ marker >= 0 /\ marker <= ForcedInterval
           /\ forcedCount \in Int /\ forcedCount >= 0
           /\ vstate \in [Verifiers -> VStates] /\ \A v \in Verifiers : vstate[v] \in VStates
<1>1. /\ opKey \in 1 .. MaxKey /\ keyAge \in [Keys -> -1 .. AgeCap] /\ currentFor \in 0 .. CurrentCap
      /\ settled \in BOOLEAN /\ cached \in [keys : SUBSET Keys, left : 0 .. RefreshInterval]
      /\ marker \in 0 .. ForcedInterval /\ forcedCount \in 0 .. 2 * Cardinality(Verifiers) + 1
      /\ faulted \in BOOLEAN /\ vstate \in [Verifiers -> VStates]
  BY DEF KeyInv, KeyTypeOK, VStates
<1>2. \A k \in Keys : keyAge[k] \in Int /\ keyAge[k] >= -1 /\ keyAge[k] <= AgeCap /\ k \in Int
  <2>1. \A k \in Keys : keyAge[k] \in -1 .. AgeCap
    BY <1>1
  <2> QED
    BY <2>1, KeyNumbers
<1>3. opKey \in Int /\ opKey >= 1 /\ opKey <= MaxKey /\ opKey \in Keys
  BY <1>1, KeyNumbers
<1>4. /\ currentFor \in Int /\ currentFor >= 0 /\ currentFor <= CurrentCap
      /\ marker \in Int /\ marker >= 0 /\ marker <= ForcedInterval
  BY <1>1, KeyNumbers
<1>5. cached.keys \subseteq Keys /\ cached.left \in Int /\ cached.left >= 0 /\ cached.left <= RefreshInterval
  BY <1>1, KeyNumbers
<1>6. forcedCount \in Int /\ forcedCount >= 0
  BY <1>1, KeyNumbers
<1> QED
  BY <1>1, <1>2, <1>3, <1>4, <1>5, <1>6

\* No more requests are at the marker than there are.
LEMMA StampersCount ==
    ASSUME KeyInv
    PROVE  /\ IsFiniteSet(Stampers) /\ Cardinality(Stampers) \in Nat
           /\ forcedCount <= Cardinality(Verifiers)
<1>1. Stampers \subseteq Verifiers /\ IsFiniteSet(Verifiers)
  BY KeyAssumption DEF Stampers
<1>2. IsFiniteSet(Stampers) /\ Cardinality(Stampers) \in Nat
  BY <1>1, FS_Subset, FS_CardinalityType
<1> QED
  BY <1>2, KeyTypes, KeyNumbers DEF KeyInv, MarkerOk

\* A step of request v, which takes it to s.
LEMMA VerifierStep ==
    ASSUME KeyInv, NEW v \in Verifiers, NEW s \in VStates, Become(v, s),
           UNCHANGED <<opKey, keyAge, currentFor>>,
           settled' \in BOOLEAN, settled' => currentFor = CurrentCap,
           settled' => settled \/ cached'.left > 0,
           cached' \in [keys : SUBSET Keys, left : 0 .. RefreshInterval],
           cached.left > 0 => cached'.left > 0,
           faulted' \in BOOLEAN, faulted => faulted',
           marker' \in 0 .. ForcedInterval, marker > 0 => marker' > 0,
           forcedCount' \in 0 .. 2 * Cardinality(Verifiers) + 1,
           CachedOk', MarkerOk', VerifierOk(vstate[v])'
    PROVE  KeyInv'
<1>1. /\ vstate' \in [Verifiers -> VStates] /\ vstate'[v] = s
      /\ \A u \in Verifiers \ {v} : vstate'[u] = vstate[u]
  BY KeyTypes DEF Become
<1>2. KeyTypeOK'
  BY <1>1 DEF KeyInv, KeyTypeOK, VStates
<1>3. OpOk'
  BY DEF KeyInv, OpOk, CurrentCap
<1>4. ASSUME NEW u \in Verifiers \ {v}
      PROVE  VerifierOk(vstate[u])'
  <2>1. VerifierOk(vstate[u]) /\ vstate'[u] = vstate[u]
    BY <1>1 DEF KeyInv
  <2> QED
    BY <2>1 DEF VerifierOk, StoreOk, AgeCap
<1> QED
  BY <1>2, <1>3, <1>4 DEF KeyInv

\* The same where cache and marker are left alone and v was and is not at
\* the marker.
LEMMA QuietVerifierStep ==
    ASSUME KeyInv, NEW v \in Verifiers, NEW s \in VStates, Become(v, s),
           UNCHANGED <<opKey, keyAge, currentFor, settled, cached, marker, forcedCount>>,
           faulted' \in BOOLEAN, faulted => faulted',
           vstate[v].pc # "stamp", s.pc # "stamp", VerifierOk(vstate[v])'
    PROVE  KeyInv'
<1>1. vstate'[v] = s /\ \A u \in Verifiers \ {v} : vstate'[u] = vstate[u]
  BY KeyTypes DEF Become
<1>2. Stampers' = Stampers
  BY <1>1 DEF Stampers
<1>3. MarkerOk' /\ CachedOk'
  BY <1>2 DEF KeyInv, MarkerOk, CachedOk
<1>4. /\ cached' \in [keys : SUBSET Keys, left : 0 .. RefreshInterval] /\ marker' \in 0 .. ForcedInterval
      /\ settled' \in BOOLEAN /\ forcedCount' \in 0 .. 2 * Cardinality(Verifiers) + 1
  BY DEF KeyInv, KeyTypeOK
<1>5. settled' => currentFor = CurrentCap
  BY DEF KeyInv, OpOk
<1> QED
  BY <1>3, <1>4, <1>5, VerifierStep

\* How a request goes on with state o, after the document doc: accepted by one
\* of its keys or a static one, refused, or to one more forced refresh.
GoesOn(st, doc, o) ==
    /\ o \in VStates /\ o.key = st.key /\ o.kid = st.kid /\ o.spent = st.spent
    /\ \/ /\ o.pc = "accepted" /\ o.refresh = st.refresh /\ o.again = st.again
          /\ st.key \in doc \cup StaticKeys
       \/ /\ o.pc = "rejected" /\ o.refresh = st.refresh /\ o.again = st.again
          /\ ~(st.key \in doc /\ st.kid \in {NoKid, st.key})
          /\ st.kid # NoKid \/ st.again
          /\ st.refresh \/ st.kid = NoKid \/ st.kid \in doc
       \/ o.pc = "throttle" /\ o.refresh = TRUE /\ ~st.refresh /\ o.again = st.again
       \/ o.pc = "throttle" /\ o.refresh = TRUE /\ o.again = TRUE /\ ~st.again

\* The types of the fields of a request.
LEMMA StateFields ==
    ASSUME NEW st \in VStates
    PROVE  /\ st.pc \in Steps /\ st.key \in Keys /\ st.kid \in Keys \cup {NoKid} /\ st.refresh \in BOOLEAN
           /\ st.attempted \in BOOLEAN /\ st.again \in BOOLEAN /\ st.doc \subseteq Keys
           /\ st.spent \in Int /\ st.spent >= 0 /\ st.spent <= FetchBound /\ st.key \in Int /\ st.key >= 0
<1>1. st.spent \in 0 .. FetchBound /\ st.key \in Keys
  BY DEF VStates
<1> QED
  BY <1>1, KeyNumbers DEF VStates

\* What a request does with a document.
LEMMA ObtainedResult ==
    ASSUME NEW st \in VStates, NEW doc \in SUBSET Keys
    PROVE  GoesOn(st, doc, Obtained(st, doc))
<1> DEFINE m == Matching(st, doc)
           o == Obtained(st, doc)
<1>0. {"accepted", "rejected", "throttle"} \subseteq Steps
  BY DEF Steps
<1>1. m \subseteq doc /\ (st.kid # NoKid => m = doc \cap {st.kid}) /\ (st.kid = NoKid => m = doc)
  BY DEF Matching
<1> HIDE DEF m
<1>2. CASE m = {} /\ ~st.refresh
  <2>1. o = [st EXCEPT !.pc = "throttle", !.refresh = TRUE]
    BY <1>2 DEF Obtained, m
  <2>2. /\ o \in VStates /\ o.key = st.key /\ o.kid = st.kid /\ o.spent = st.spent
        /\ o.pc = "throttle" /\ o.refresh = TRUE /\ o.again = st.again
    BY <1>0, <2>1 DEF VStates
  <2> HIDE DEF o
  <2> QED
    BY <1>2, <2>2 DEF GoesOn, o
<1>3. CASE ~(m = {} /\ ~st.refresh)
  <2>1. o = Verified(st, m)
    BY <1>3 DEF Obtained, m
  <2>2. CASE SignatureVerifies(st, m)
    <3>1. o = [st EXCEPT !.pc = "accepted"]
      BY <2>1, <2>2 DEF Verified
    <3>2. /\ o \in VStates /\ o.key = st.key /\ o.kid = st.kid /\ o.spent = st.spent
          /\ o.pc = "accepted" /\ o.refresh = st.refresh /\ o.again = st.again
      BY <1>0, <3>1 DEF VStates
    <3>3. st.key \in doc \cup StaticKeys
      BY <1>1, <2>2 DEF SignatureVerifies
    <3> HIDE DEF o
    <3> QED
      BY <3>2, <3>3 DEF GoesOn, o
  <2>3. CASE ~SignatureVerifies(st, m) /\ st.kid = NoKid /\ ~st.again
    <3>1. o = [st EXCEPT !.pc = "throttle", !.again = TRUE, !.refresh = TRUE]
      BY <2>1, <2>3 DEF Verified
    <3>2. /\ o \in VStates /\ o.key = st.key /\ o.kid = st.kid /\ o.spent = st.spent
          /\ o.pc = "throttle" /\ o.refresh = TRUE /\ o.again = TRUE
      BY <1>0, <3>1 DEF VStates
    <3> HIDE DEF o
    <3> QED
      BY <2>3, <3>2 DEF GoesOn, o
  <2>4. CASE ~SignatureVerifies(st, m) /\ ~(st.kid = NoKid /\ ~st.again)
    <3>1. o = [st EXCEPT !.pc = "rejected"]
      BY <2>1, <2>4 DEF Verified
    <3>2. /\ o \in VStates /\ o.key = st.key /\ o.kid = st.kid /\ o.spent = st.spent
          /\ o.pc = "rejected" /\ o.refresh = st.refresh /\ o.again = st.again
      BY <1>0, <3>1 DEF VStates
    <3>3. ~(st.key \in doc /\ st.kid \in {NoKid, st.key})
      BY <1>1, <2>4 DEF SignatureVerifies
    <3>4. st.refresh \/ st.kid = NoKid \/ st.kid \in doc
      BY <1>1, <1>3
    <3> HIDE DEF o
    <3> QED
      BY <2>4, <3>2, <3>3, <3>4 DEF GoesOn, o
  <2> QED
    BY <2>2, <2>3, <2>4
<1> QED
  BY <1>2, <1>3

\* What a request does without one.
LEMMA NotObtainedResult ==
    ASSUME NEW st \in VStates
    PROVE  LET o == NotObtained(st) IN
           /\ o \in VStates /\ o.key = st.key /\ o.kid = st.kid /\ o.spent = st.spent
           /\ o.refresh = st.refresh /\ o.again = st.again /\ o.pc \in {"accepted", "rejected"}
           /\ o.pc = "accepted" => st.key \in StaticKeys
<1>0. {"accepted", "rejected"} \subseteq Steps
  BY DEF Steps
<1>1. NotObtained(st) = [st EXCEPT !.pc = "rejected"]
      \/ (NotObtained(st) = [st EXCEPT !.pc = "accepted"] /\ st.key \in StaticKeys)
  BY DEF NotObtained, Verified, SignatureVerifies
<1>2. CASE NotObtained(st) = [st EXCEPT !.pc = "rejected"]
  BY <1>0, <1>2 DEF VStates
<1>3. CASE NotObtained(st) = [st EXCEPT !.pc = "accepted"] /\ st.key \in StaticKeys
  BY <1>0, <1>3 DEF VStates
<1> QED
  BY <1>1, <1>2, <1>3

\* What is known of a request before its step.
LEMMA VerifierKnown ==
    ASSUME KeyInv, NEW v \in Verifiers
    PROVE  vstate[v] \in VStates /\ VerifierOk(vstate[v])
  BY KeyTypes DEF KeyInv

\* A step of one request leaves the others.
LEMMA BecomeFields ==
    ASSUME KeyInv, NEW v \in Verifiers, NEW s, Become(v, s)
    PROVE  vstate'[v] = s /\ \A u \in Verifiers \ {v} : vstate'[u] = vstate[u]
  BY KeyTypes DEF Become

\* A failure is not forgotten.
LEMMA FaultedStays ==
    ASSUME KeyInv, CacheWorks \/ CacheFails
    PROVE  faulted' \in BOOLEAN /\ (faulted => faulted')
<1>1. faulted \in BOOLEAN
  BY KeyTypes
<1>2. CASE faulted' = faulted
  BY <1>1, <1>2, Zenon
<1>3. CASE faulted' = TRUE
  BY <1>3, Zenon
<1> QED
  BY <1>2, <1>3 DEF CacheWorks, CacheFails

\* A token comes in.
LEMMA PresentStep ==
    ASSUME KeyInv, NEW v \in Verifiers, Present(v) \/ Conclude(v)
    PROVE  KeyInv'
<1>1. UNCHANGED <<opKey, keyAge, currentFor, settled, cached, marker, forcedCount, faulted>>
      /\ vstate[v].pc # "stamp" /\ faulted' \in BOOLEAN
  BY KeyTypes DEF Present, Conclude, Env, Op
<1>2. CASE Present(v)
  <2>1. PICK k \in 0 .. opKey : \E kid \in {NoKid, k} \cup (IF k = 0 THEN {opKey} ELSE {}) :
            Become(v, [Idle EXCEPT !.pc = "lookup", !.key = k, !.kid = kid])
    BY <1>2 DEF Present
  <2>2. PICK kid \in {NoKid, k} \cup (IF k = 0 THEN {opKey} ELSE {}) :
            Become(v, [Idle EXCEPT !.pc = "lookup", !.key = k, !.kid = kid])
    BY <2>1
  <2> DEFINE s == [Idle EXCEPT !.pc = "lookup", !.key = k, !.kid = kid]
  <2>3. k \in Keys /\ kid \in Keys \cup {NoKid} /\ k <= opKey /\ "lookup" \in Steps
    BY KeyTypes, KeyNumbers DEF Steps
  <2>4. s \in VStates /\ s.pc = "lookup" /\ s.key = k /\ s.refresh = FALSE /\ s.again = FALSE
    BY <2>3, IdleType DEF VStates
  <2>5. Become(v, s)
    BY <2>2
  <2> HIDE DEF s
  <2>6. vstate'[v] = s
    BY <2>5, BecomeFields
  <2>7. VerifierOk(vstate[v])'
    BY <1>1, <2>3, <2>4, <2>6 DEF VerifierOk, StoreOk
  <2> QED
    BY <1>1, <2>4, <2>5, <2>7, QuietVerifierStep
<1>3. CASE Conclude(v)
  <2>1. Become(v, Idle)
    BY <1>3 DEF Conclude
  <2>2. vstate'[v] = Idle
    BY <2>1, BecomeFields
  <2>3. VerifierOk(vstate[v])'
    BY <1>1, <2>2, IdleType, KeyTypes DEF VerifierOk, StoreOk
  <2> QED
    BY <1>1, <2>1, <2>3, IdleType, QuietVerifierStep
<1> QED
  BY <1>2, <1>3

\* A key of the cached document is accepted in time.
LEMMA CachedInTime ==
    ASSUME KeyInv, cached.left > 0, NEW k \in cached.keys
    PROVE  k # 0 /\ keyAge[k] < AgeCap
<1>1. k # 0 /\ keyAge[k] <= FetchBound + RefreshInterval - cached.left /\ k \in Keys
  BY KeyTypes DEF KeyInv, CachedOk
<1>2. keyAge[k] \in Int /\ cached.left \in Int
  BY <1>1, KeyTypes
<1> QED
  BY <1>1, <1>2, KeyNumbers

\* Going on with the cached document, or without one.
LEMMA FromCacheStep ==
    ASSUME KeyInv, NEW v \in Verifiers, vstate[v].pc \in {"lookup", "fallback"},
           UNCHANGED <<opKey, keyAge, currentFor, settled, cached, marker, forcedCount>>,
           faulted' \in BOOLEAN, faulted => faulted',
           \/ cached.left > 0 /\ Become(v, Obtained(vstate[v], cached.keys))
           \/ Become(v, NotObtained(vstate[v]))
    PROVE  KeyInv'
<1> DEFINE st == vstate[v]
<1>1. st \in VStates /\ st.key <= opKey /\ cached.keys \in SUBSET Keys
  BY VerifierKnown, KeyTypes DEF VerifierOk
<1>2. CASE cached.left > 0 /\ Become(v, Obtained(st, cached.keys))
  <2> DEFINE o == Obtained(st, cached.keys)
  <2>1. GoesOn(st, cached.keys, o)
    BY <1>1, ObtainedResult
  <2> HIDE DEF o
  <2>2. o \in VStates /\ Become(v, o) /\ vstate'[v] = o /\ o.pc \in {"accepted", "rejected", "throttle"}
    BY <1>2, <2>1, BecomeFields DEF GoesOn, o
  <2>3. o.pc = "accepted" /\ o.key \notin StaticKeys => o.key # 0 /\ keyAge[o.key] < AgeCap
    BY <1>2, <2>1, CachedInTime DEF GoesOn
  <2>4. VerifierOk(vstate[v])'
    BY <1>1, <1>2, <2>1, <2>2, <2>3 DEF VerifierOk, StoreOk, GoesOn, AgeCap
  <2> QED
    BY <2>2, <2>4, QuietVerifierStep
<1>3. CASE Become(v, NotObtained(st))
  <2> DEFINE o == NotObtained(st)
  <2>1. o \in VStates /\ o.key = st.key /\ o.pc \in {"accepted", "rejected"}
        /\ (o.pc = "accepted" => st.key \in StaticKeys)
    BY <1>1, NotObtainedResult
  <2> HIDE DEF o
  <2>2. Become(v, o) /\ vstate'[v] = o
    BY <1>3, BecomeFields DEF o
  <2>3. VerifierOk(vstate[v])'
    BY <1>1, <2>1, <2>2 DEF VerifierOk, StoreOk
  <2> QED
    BY <2>1, <2>2, <2>3, QuietVerifierStep
<1> QED
  BY <1>2, <1>3

\* The cached document is used or not, at the first lookup and as a fallback.
LEMMA LookupFallbackStep ==
    ASSUME KeyInv, NEW v \in Verifiers, Lookup(v) \/ Fallback(v)
    PROVE  KeyInv'
<1> DEFINE st == vstate[v]
<1>1. /\ UNCHANGED <<opKey, keyAge, currentFor, settled, cached, marker, forcedCount>>
      /\ faulted' \in BOOLEAN /\ (faulted => faulted') /\ st.pc \in {"lookup", "fallback"}
  <2>1. UNCHANGED <<opKey, keyAge, currentFor, settled, cached, marker, forcedCount>>
        /\ st.pc \in {"lookup", "fallback"}
    BY DEF Lookup, Fallback, Env, Op
  <2>2. CacheWorks \/ CacheFails
    BY DEF Lookup, Fallback
  <2> QED
    BY <2>1, <2>2, FaultedStays
<1>2. CASE Become(v, Download(st))
  <2> DEFINE s == [st EXCEPT !.pc = "fetch", !.refresh = TRUE, !.attempted = FALSE]
  <2>1. st \in VStates /\ st.key <= opKey /\ "fetch" \in Steps
    BY VerifierKnown DEF VerifierOk, Steps
  <2>2. s \in VStates /\ s.pc = "fetch" /\ s.key = st.key
    BY <2>1 DEF VStates
  <2>3. Become(v, s)
    BY <1>2 DEF Download
  <2> HIDE DEF s
  <2>4. vstate'[v] = s
    BY <2>3, BecomeFields
  <2>5. VerifierOk(vstate[v])'
    BY <1>1, <2>1, <2>2, <2>4 DEF VerifierOk, StoreOk
  <2> QED
    BY <1>1, <2>2, <2>3, <2>5, QuietVerifierStep
<1>3. CASE \/ cached.left > 0 /\ Become(v, Obtained(st, cached.keys))
           \/ Become(v, NotObtained(st))
  BY <1>1, <1>3, FromCacheStep
<1> QED
  BY <1>2, <1>3 DEF Lookup, Fallback

\* One request comes to the marker, or leaves it.
LEMMA StampersChange ==
    ASSUME KeyInv, NEW v \in Verifiers, NEW s, Become(v, s)
    PROVE  /\ Stampers' \subseteq Verifiers
           /\ s.pc # "stamp" => Stampers' = Stampers \ {v}
  BY BecomeFields DEF Stampers

\* The marker is looked for.
LEMMA ThrottleStep ==
    ASSUME KeyInv, NEW v \in Verifiers, Throttle(v)
    PROVE  KeyInv'
<1> DEFINE st == [vstate[v] EXCEPT !.attempted = TRUE]
<1>1. UNCHANGED <<opKey, keyAge, currentFor, settled, cached, marker, forcedCount>> /\ st.pc = "throttle"
  BY DEF Throttle, Env, Op
<1>2. CacheWorks \/ CacheFails
  BY DEF Throttle
<1>3. faulted' \in BOOLEAN /\ (faulted => faulted')
  BY <1>2, FaultedStays
<1>4. /\ st \in VStates /\ st.key = vstate[v].key /\ vstate[v].pc = "throttle" /\ VerifierOk(vstate[v])
  <2>1. vstate[v] \in VStates /\ VerifierOk(vstate[v])
    BY VerifierKnown
  <2> QED
    BY <1>1, <2>1 DEF VStates
<1>5. PICK p \in {"fallback", "stamp"} :
         /\ Become(v, [st EXCEPT !.pc = p])
         /\ p = "fallback" /\ ~faulted' => marker > 0
         /\ p = "stamp" => marker = 0
  <2> HIDE DEF st
  <2>1. marker \in Int /\ marker >= 0 /\ marker <= ForcedInterval /\ ForcedInterval \in Int
    BY KeyTypes, KeyNumbers
  <2>2. CASE CacheWorks /\ Become(v, [st EXCEPT !.pc = IF ForcedInterval # 0 /\ marker > 0 THEN "fallback" ELSE "stamp"])
    <3>1. CASE ForcedInterval # 0 /\ marker > 0
      BY <2>2, <3>1
    <3>2. CASE ~(ForcedInterval # 0 /\ marker > 0)
      <4>1. marker = 0
        BY <2>1, <3>2
      <4> QED
        BY <2>2, <3>2, <4>1
    <3> QED
      BY <3>1, <3>2
  <2>3. CASE CacheFails /\ Become(v, [st EXCEPT !.pc = "fallback"])
    BY <2>3 DEF CacheFails
  <2> QED
    BY <2>2, <2>3 DEF Throttle, st
<1> DEFINE s == [st EXCEPT !.pc = p]
<1>6. s \in VStates /\ s.pc = p /\ s.key = vstate[v].key
  <2>1. p \in Steps
    BY DEF Steps
  <2> HIDE DEF st
  <2> QED
    BY <1>4, <2>1 DEF VStates
<1>7. Become(v, s) /\ vstate'[v] = s
  BY <1>5, BecomeFields
<1> HIDE DEF st, s
<1>8. VerifierOk(vstate[v])'
  BY <1>1, <1>3, <1>4, <1>5, <1>6, <1>7 DEF VerifierOk, StoreOk
<1>9. CASE p = "fallback"
  BY <1>1, <1>3, <1>4, <1>6, <1>7, <1>8, <1>9, QuietVerifierStep
<1>10. CASE p = "stamp"
  <2>1. forcedCount = 0
    BY <1>5, <1>10 DEF KeyInv, MarkerOk
  <2>2. Stampers' \subseteq Verifiers /\ IsFiniteSet(Verifiers)
    BY <1>7, StampersChange, KeyAssumption
  <2>3. Cardinality(Stampers') <= Cardinality(Verifiers) /\ Cardinality(Stampers') \in Nat
    BY <2>2, FS_Subset, FS_CardinalityType
  <2>4. MarkerOk'
    BY <1>1, <2>1, <2>3, KeyNumbers DEF MarkerOk
  <2>5. CachedOk'
    BY <1>1, <1>3 DEF KeyInv, CachedOk
  <2>6. /\ cached' \in [keys : SUBSET Keys, left : 0 .. RefreshInterval] /\ marker' \in 0 .. ForcedInterval
        /\ settled' \in BOOLEAN /\ forcedCount' \in 0 .. 2 * Cardinality(Verifiers) + 1
    BY <1>1 DEF KeyInv, KeyTypeOK
  <2>7. settled' => currentFor = CurrentCap
    BY <1>1 DEF KeyInv, OpOk
  <2> QED
    BY <1>1, <1>3, <1>6, <1>7, <1>8, <2>4, <2>5, <2>6, <2>7, VerifierStep
<1> QED
  BY <1>9, <1>10

\* The marker is stored.
LEMMA StampStep ==
    ASSUME KeyInv, NEW v \in Verifiers, Stamp(v)
    PROVE  KeyInv'
<1> DEFINE st == vstate[v]
<1>1. UNCHANGED <<opKey, keyAge, currentFor, settled, cached>> /\ st.pc = "stamp"
  BY DEF Stamp, Env, Op
<1>2. CacheWorks \/ CacheFails
  BY DEF Stamp
<1>3. faulted' \in BOOLEAN /\ (faulted => faulted')
  BY <1>2, FaultedStays
<1>4. /\ st \in VStates /\ VerifierOk(st)
  BY VerifierKnown
<1>5. PICK p \in {"fallback", "fetch"} :
         /\ Become(v, [st EXCEPT !.pc = p])
         /\ p = "fallback" => faulted'
         /\ \/ marker' = ForcedInterval /\ forcedCount' = IF ForcedInterval = 0 THEN 0 ELSE forcedCount + 1
            \/ UNCHANGED <<marker, forcedCount>>
  BY DEF Stamp, CacheFails
<1> DEFINE s == [st EXCEPT !.pc = p]
<1>6. s \in VStates /\ s.pc = p /\ s.key = st.key
  <2>1. p \in Steps
    BY DEF Steps
  <2> QED
    BY <1>4, <2>1 DEF VStates
<1>7. Become(v, s) /\ vstate'[v] = s
  BY <1>5, BecomeFields
<1> HIDE DEF s
<1>8. VerifierOk(vstate[v])'
  BY <1>1, <1>4, <1>5, <1>6, <1>7 DEF VerifierOk, StoreOk
<1>9. /\ Stampers' = Stampers \ {v} /\ v \in Stampers
  BY <1>1, <1>5, <1>6, <1>7, StampersChange DEF Stampers
<1>10. Cardinality(Stampers') = Cardinality(Stampers) - 1 /\ Cardinality(Stampers) \in Nat
  BY <1>9, StampersCount, FS_RemoveElement
<1>11. /\ forcedCount \in Int /\ forcedCount >= 0 /\ forcedCount + Cardinality(Stampers) <= Cardinality(Verifiers)
       /\ (marker = 0 => forcedCount = 0) /\ Cardinality(Verifiers) \in Nat
       /\ marker \in Int /\ marker >= 0 /\ marker <= ForcedInterval /\ ForcedInterval \in Nat
  BY KeyTypes, KeyNumbers DEF KeyInv, MarkerOk
<1>12. MarkerOk' /\ forcedCount' \in 0 .. 2 * Cardinality(Verifiers) + 1 /\ marker' \in 0 .. ForcedInterval
       /\ (marker > 0 => marker' > 0)
  <2>1. CASE marker' = ForcedInterval /\ forcedCount' = IF ForcedInterval = 0 THEN 0 ELSE forcedCount + 1
    <3>1. CASE ForcedInterval = 0
      BY <1>10, <1>11, <2>1, <3>1 DEF MarkerOk
    <3>2. CASE ForcedInterval # 0
      BY <1>10, <1>11, <2>1, <3>2 DEF MarkerOk
    <3> QED
      BY <3>1, <3>2
  <2>2. CASE UNCHANGED <<marker, forcedCount>>
    BY <1>10, <1>11, <2>2 DEF MarkerOk
  <2> QED
    BY <1>5, <2>1, <2>2
<1>13. CachedOk'
  BY <1>1, <1>3 DEF KeyInv, CachedOk
<1>14. cached' \in [keys : SUBSET Keys, left : 0 .. RefreshInterval] /\ settled' \in BOOLEAN
  BY <1>1 DEF KeyInv, KeyTypeOK
<1>15. settled' => currentFor = CurrentCap
  BY <1>1 DEF KeyInv, OpOk
<1> QED
  BY <1>1, <1>3, <1>6, <1>7, <1>8, <1>12, <1>13, <1>14, <1>15, VerifierStep

\* The document is downloaded or not.
LEMMA FetchStep ==
    ASSUME KeyInv, NEW v \in Verifiers, Fetch(v)
    PROVE  KeyInv'
<1> DEFINE st == vstate[v]
<1>1. UNCHANGED <<opKey, keyAge, currentFor, settled, cached, marker, forcedCount>> /\ st.pc = "fetch"
  BY DEF Fetch, Env, Op
<1>2. st \in VStates /\ VerifierOk(st) /\ faulted \in BOOLEAN /\ opKey \in Keys
  BY VerifierKnown, KeyTypes
<1>3. CASE Become(v, [st EXCEPT !.pc = "store", !.doc = {opKey}]) /\ UNCHANGED faulted
  <2> DEFINE s == [st EXCEPT !.pc = "store", !.doc = {opKey}]
  <2>1. s \in VStates /\ s.pc = "store" /\ s.key = st.key /\ s.doc = {opKey} /\ s.spent = st.spent
    <3>1. "store" \in Steps /\ {opKey} \in SUBSET Keys
      BY <1>2 DEF Steps
    <3> QED
      BY <1>2, <3>1 DEF VStates
  <2>2. Become(v, s) /\ vstate'[v] = s
    BY <1>3, BecomeFields
  <2> HIDE DEF s
  <2>3. opKey \in 1 .. opKey /\ keyAge[opKey] <= s.spent
    <3>1. keyAge[opKey] = -1
      BY <1>2, KeyTypes DEF KeyInv, OpOk
    <3> QED
      BY <2>1, <3>1, KeyTypes, StateFields
  <2>4. VerifierOk(vstate[v])'
    BY <1>1, <1>2, <2>1, <2>2, <2>3 DEF VerifierOk, StoreOk
  <2> QED
    BY <1>1, <1>2, <1>3, <2>1, <2>2, <2>4, QuietVerifierStep
<1>4. ASSUME NEW s \in VStates, Become(v, s), faulted' = TRUE, s.key = st.key, s.pc # "stamp", s.pc # "store",
             s.pc # "lookup", s.pc = "accepted" => s.key \in StaticKeys
      PROVE  KeyInv'
  <2>1. vstate'[v] = s
    BY <1>4, BecomeFields
  <2>2. VerifierOk(vstate[v])'
    BY <1>1, <1>2, <1>4, <2>1 DEF VerifierOk, StoreOk
  <2> QED
    BY <1>1, <1>4, <2>2, QuietVerifierStep
<1>5. CASE faulted' = TRUE /\ st.attempted /\ Become(v, [st EXCEPT !.pc = "fallback", !.spent = 0])
  <2> DEFINE s == [st EXCEPT !.pc = "fallback", !.spent = 0]
  <2>1. s \in VStates /\ s.pc = "fallback" /\ s.key = st.key
    <3>1. "fallback" \in Steps /\ 0 \in 0 .. FetchBound
      BY KeyNumbers DEF Steps
    <3> QED
      BY <1>2, <3>1 DEF VStates
  <2>2. Become(v, s)
    BY <1>5
  <2> HIDE DEF s
  <2> QED
    BY <1>4, <1>5, <2>1, <2>2
<1>6. CASE faulted' = TRUE /\ ~st.attempted /\ Become(v, NotObtained([st EXCEPT !.spent = 0]))
  <2> DEFINE y == [st EXCEPT !.spent = 0]
             s == NotObtained(y)
  <2>1. y \in VStates /\ y.key = st.key
    <3>1. 0 \in 0 .. FetchBound
      BY KeyNumbers
    <3> QED
      BY <1>2, <3>1 DEF VStates
  <2>2. s \in VStates /\ s.key = y.key /\ s.pc \in {"accepted", "rejected"} /\ (s.pc = "accepted" => y.key \in StaticKeys)
    BY <2>1, NotObtainedResult
  <2>3. Become(v, s)
    BY <1>6
  <2> HIDE DEF s, y
  <2> QED
    BY <1>4, <1>6, <2>1, <2>2, <2>3
<1> QED
  BY <1>3, <1>5, <1>6 DEF Fetch

\* The downloaded document is cached or not.
LEMMA KeyStoreStep ==
    ASSUME KeyInv, NEW v \in Verifiers, Store(v)
    PROVE  KeyInv'
<1> DEFINE st == vstate[v]
           y == [st EXCEPT !.spent = 0, !.doc = {}]
           o == Obtained(y, st.doc)
<1>1. UNCHANGED <<opKey, keyAge, currentFor, marker, forcedCount>> /\ st.pc = "store"
      /\ \/ /\ CacheWorks /\ cached' = [keys |-> st.doc, left |-> RefreshInterval]
            /\ settled' = (settled \/ currentFor = CurrentCap)
         \/ CacheFails /\ UNCHANGED <<cached, settled>>
  BY DEF Store, Op
<1>2. st \in VStates /\ VerifierOk(st) /\ st.doc \subseteq Keys /\ settled \in BOOLEAN /\ st.spent \in Int
      /\ st.spent <= FetchBound /\ st.spent >= 0
  BY VerifierKnown, KeyTypes, StateFields
<1>3. y \in VStates /\ y.key = st.key /\ y.kid = st.kid
  <2>1. 0 \in 0 .. FetchBound /\ {} \in SUBSET Keys
    BY KeyNumbers
  <2> QED
    BY <1>2, <2>1 DEF VStates
<1>4. GoesOn(y, st.doc, o)
  BY <1>2, <1>3, ObtainedResult
<1>5. Become(v, o)
  BY DEF Store
<1> HIDE DEF o, y
<1>6. vstate'[v] = o /\ o \in VStates /\ o.key = st.key /\ o.pc \in {"accepted", "rejected", "throttle"}
  BY <1>3, <1>4, <1>5, BecomeFields DEF GoesOn
<1>7. PICK k \in 1 .. opKey : /\ st.doc = {k} /\ keyAge[k] <= st.spent
                              /\ k # opKey => currentFor <= st.spent /\ st.key # opKey
  BY <1>1, <1>2 DEF VerifierOk, StoreOk
<1>8. k # 0 /\ k \in Keys /\ keyAge[k] \in Int /\ keyAge[k] <= FetchBound /\ keyAge[k] < AgeCap
  <2>1. k # 0 /\ k \in Keys
    BY KeyTypes, KeyNumbers
  <2>2. keyAge[k] \in Int
    BY <2>1, KeyTypes
  <2> QED
    BY <1>2, <1>7, <2>1, <2>2, KeyNumbers
<1>9. currentFor = CurrentCap => k = opKey
  BY <1>2, <1>7, KeyNumbers
<1>10. faulted' \in BOOLEAN /\ (faulted => faulted')
  BY <1>1, FaultedStays
<1>11. /\ settled' \in BOOLEAN /\ (settled' => currentFor = CurrentCap) /\ (settled' => settled \/ cached'.left > 0)
       /\ cached' \in [keys : SUBSET Keys, left : 0 .. RefreshInterval]
       /\ (cached.left > 0 => cached'.left > 0)
       /\ CachedOk'
       /\ ~faulted' => cached'.left > 0
  <2>1. settled => currentFor = CurrentCap
    BY DEF KeyInv, OpOk
  <2>2. CASE CacheWorks /\ cached' = [keys |-> st.doc, left |-> RefreshInterval]
             /\ settled' = (settled \/ currentFor = CurrentCap)
    <3>1. /\ cached' \in [keys : SUBSET Keys, left : 0 .. RefreshInterval] /\ cached'.left = RefreshInterval
          /\ cached'.keys = {k} /\ cached'.left > 0
      BY <1>2, <1>7, <2>2, KeyNumbers
    <3>2. settled' \in BOOLEAN /\ (settled' => currentFor = CurrentCap)
      BY <1>2, <2>1, <2>2, Zenon
    <3>3. keyAge'[k] <= FetchBound + RefreshInterval - cached'.left
      BY <1>1, <1>8, <3>1, KeyNumbers
    <3>4. CachedOk'
      BY <1>1, <1>8, <1>9, <3>1, <3>2, <3>3 DEF CachedOk
    <3> QED
      BY <3>1, <3>2, <3>4
  <2>3. CASE CacheFails /\ UNCHANGED <<cached, settled>>
    <3>1. cached' \in [keys : SUBSET Keys, left : 0 .. RefreshInterval]
      BY <2>3 DEF KeyInv, KeyTypeOK
    <3>2. faulted' = TRUE
      BY <2>3 DEF CacheFails
    <3>3. CachedOk'
      BY <1>1, <2>3, <3>2 DEF KeyInv, CachedOk
    <3> QED
      BY <1>2, <2>1, <2>3, <3>1, <3>2, <3>3
  <2> QED
    BY <1>1, <2>2, <2>3
<1>12. MarkerOk' /\ marker' \in 0 .. ForcedInterval /\ forcedCount' \in 0 .. 2 * Cardinality(Verifiers) + 1
  <2>1. Stampers' = Stampers
    BY <1>1, <1>5, <1>6, BecomeFields DEF Stampers
  <2> QED
    BY <1>1, <2>1 DEF KeyInv, KeyTypeOK, MarkerOk
<1>13. VerifierOk(vstate[v])'
  <2>1. o.pc = "accepted" /\ o.key \notin StaticKeys => o.key # 0 /\ keyAge'[o.key] < AgeCap
    BY <1>1, <1>3, <1>4, <1>6, <1>7, <1>8 DEF GoesOn
  <2>2. o.key <= opKey'
    BY <1>1, <1>2, <1>6 DEF VerifierOk
  <2> QED
    BY <1>6, <1>11, <2>1, <2>2 DEF VerifierOk, StoreOk, AgeCap
<1> QED
  BY <1>1, <1>5, <1>6, <1>10, <1>11, <1>12, <1>13, VerifierStep

\* The OP replaces its key: what is cached and under way is older than it.
LEMMA RolloverStep ==
    ASSUME KeyInv, Rollover
    PROVE  KeyInv'
<1>1. /\ opKey < MaxKey /\ opKey' = opKey + 1 /\ keyAge' = [keyAge EXCEPT ![opKey] = 0] /\ currentFor' = 0
      /\ settled' = FALSE /\ UNCHANGED <<cached, marker, forcedCount, faulted, vstate>>
  BY DEF Rollover
<1>2. opKey \in Int /\ opKey >= 1 /\ opKey \in Keys
  BY KeyTypes
<1>3. /\ keyAge' \in [Keys -> -1 .. AgeCap] /\ keyAge'[opKey] = 0
      /\ \A k \in Keys \ {opKey} : keyAge'[k] = keyAge[k]
  <2>1. 0 \in -1 .. AgeCap
    BY KeyNumbers
  <2> QED
    BY <1>1, <1>2, <2>1, KeyTypes
<1>4. KeyTypeOK'
  <2>1. opKey' \in 1 .. MaxKey /\ currentFor' \in 0 .. CurrentCap
    BY <1>1, <1>2, KeyNumbers
  <2> QED
    BY <1>1, <1>3, <2>1 DEF KeyInv, KeyTypeOK
<1>5. OpOk'
  <2>1. ASSUME NEW k \in Keys, k >= opKey + 1
        PROVE  keyAge'[k] = -1
    <3>1. k # opKey /\ k >= opKey
      BY <1>2, <2>1, KeyTypes
    <3> QED
      BY <1>3, <3>1 DEF KeyInv, OpOk
  <2> QED
    BY <1>1, <2>1 DEF OpOk
<1>6. CachedOk'
  <2> SUFFICES ASSUME cached.left > 0, NEW k \in cached.keys
               PROVE  k # 0 /\ keyAge'[k] <= FetchBound + RefreshInterval - cached.left
    BY <1>1 DEF CachedOk
  <2>1. k # 0 /\ keyAge[k] <= FetchBound + RefreshInterval - cached.left /\ k \in Keys
    BY KeyTypes DEF KeyInv, CachedOk
  <2>2. CASE k = opKey
    <3>1. cached.left \in Int /\ cached.left <= RefreshInterval
      BY KeyTypes
    <3>2. 0 <= FetchBound + RefreshInterval - cached.left
      BY <3>1, KeyNumbers
    <3> QED
      BY <1>3, <2>1, <2>2, <3>2
  <2>3. CASE k # opKey
    BY <1>3, <2>1, <2>3
  <2> QED
    BY <2>2, <2>3
<1>7. MarkerOk'
  BY <1>1 DEF KeyInv, MarkerOk, Stampers
<1>8. ASSUME NEW v \in Verifiers
      PROVE  VerifierOk(vstate[v])'
  <2> DEFINE st == vstate[v]
  <2>1. st \in VStates /\ VerifierOk(st) /\ st.key \in Keys /\ st.spent \in Int /\ st.spent >= 0 /\ vstate'[v] = st
        /\ st.key \in Int
    BY <1>1, VerifierKnown, StateFields
  <2>2. st.key <= opKey' /\ st.key # opKey'
    BY <1>1, <1>2, <2>1 DEF VerifierOk
  <2>3. st.pc = "store" => \E k \in 1 .. opKey' :
             /\ st.doc = {k} /\ keyAge'[k] <= st.spent
             /\ k # opKey' => currentFor' <= st.spent /\ st.key # opKey'
    <3> SUFFICES ASSUME st.pc = "store"
                 PROVE  \E k \in 1 .. opKey' :
                           /\ st.doc = {k} /\ keyAge'[k] <= st.spent
                           /\ k # opKey' => currentFor' <= st.spent /\ st.key # opKey'
      OBVIOUS
    <3>1. PICK k \in 1 .. opKey : st.doc = {k} /\ keyAge[k] <= st.spent
      BY <2>1 DEF VerifierOk, StoreOk
    <3>2. k \in 1 .. opKey' /\ k \in Keys
      BY <1>1, <1>2, KeyTypes, KeyNumbers
    <3>3. keyAge'[k] <= st.spent
      BY <1>3, <2>1, <3>1, <3>2
    <3> QED
      BY <1>1, <2>1, <2>2, <3>1, <3>2, <3>3
  <2>4. st.pc = "accepted" /\ st.key \notin StaticKeys => st.key # 0 /\ keyAge'[st.key] < AgeCap
    BY <1>3, <2>1, KeyNumbers DEF VerifierOk
  <2> HIDE DEF st
  <2>5. settled' = FALSE /\ faulted' = faulted /\ marker' = marker
    BY <1>1
  <2> QED
    BY <2>1, <2>2, <2>3, <2>4, <2>5 DEF VerifierOk, StoreOk, AgeCap
<1> QED
  BY <1>4, <1>5, <1>6, <1>7, <1>8 DEF KeyInv

\* Time goes by, while downloads only are under way.
LEMMA KeyTickStep ==
    ASSUME KeyInv, KeyTick
    PROVE  KeyInv'
<1> DEFINE next(v) == IF Downloading(v) THEN [vstate[v] EXCEPT !.spent = @ + 1] ELSE vstate[v]
           aged(k) == IF keyAge[k] >= 0 THEN Min({keyAge[k] + 1, AgeCap}) ELSE -1
<1>1. /\ \A v \in Verifiers : vstate[v].pc = "idle" \/ (Downloading(v) /\ vstate[v].spent < FetchBound)
      /\ keyAge' = [k \in Keys |-> aged(k)]
      /\ currentFor' = Min({currentFor + 1, CurrentCap})
      /\ cached' = IF cached.left <= 1 THEN [keys |-> {}, left |-> 0] ELSE [cached EXCEPT !.left = @ - 1]
      /\ marker' = IF marker > 0 THEN marker - 1 ELSE 0
      /\ forcedCount' = IF marker <= 1 THEN 0 ELSE forcedCount
      /\ vstate' = [v \in Verifiers |-> next(v)]
      /\ UNCHANGED <<opKey, settled, faulted>>
  BY DEF KeyTick
<1>2. ASSUME NEW k \in Keys
      PROVE  /\ keyAge'[k] \in -1 .. AgeCap /\ keyAge'[k] <= keyAge[k] + 1 /\ (keyAge[k] = -1 => keyAge'[k] = -1)
             /\ keyAge'[k] \in Int
  <2>1. keyAge[k] \in Int /\ keyAge[k] >= -1 /\ AgeCap \in Nat /\ keyAge'[k] = aged(k)
    BY <1>1, KeyTypes, KeyNumbers
  <2>2. Min({keyAge[k] + 1, AgeCap}) = IF keyAge[k] + 1 <= AgeCap THEN keyAge[k] + 1 ELSE AgeCap
    BY <2>1, MinTwo
  <2> QED
    BY <2>1, <2>2
<1>3. /\ currentFor' \in 0 .. CurrentCap /\ currentFor' <= currentFor + 1 /\ currentFor' \in Int
      /\ (currentFor = CurrentCap => currentFor' = CurrentCap)
  <2>1. currentFor \in Int /\ currentFor >= 0 /\ CurrentCap \in Nat
    BY KeyTypes, KeyNumbers
  <2>2. Min({currentFor + 1, CurrentCap}) = IF currentFor + 1 <= CurrentCap THEN currentFor + 1 ELSE CurrentCap
    BY <2>1, MinTwo
  <2> QED
    BY <1>1, <2>1, <2>2
<1>4. /\ cached' \in [keys : SUBSET Keys, left : 0 .. RefreshInterval]
      /\ cached'.left > 0 => cached.left > 1 /\ cached'.left = cached.left - 1 /\ cached'.keys = cached.keys
  <2>1. cached \in [keys : SUBSET Keys, left : 0 .. RefreshInterval] /\ cached.left \in Int
    BY KeyTypes DEF KeyInv, KeyTypeOK
  <2>2. CASE cached.left <= 1
    <3>1. cached' = [keys |-> {}, left |-> 0]
      BY <1>1, <2>2
    <3> QED
      BY <3>1, KeyNumbers
  <2>3. CASE ~(cached.left <= 1)
    <3>1. cached' = [cached EXCEPT !.left = @ - 1] /\ cached.left - 1 \in 0 .. RefreshInterval
      <4>1. cached.left <= RefreshInterval
        BY KeyTypes
      <4> QED
        BY <1>1, <2>1, <2>3, <4>1, KeyNumbers
    <3> QED
      BY <2>1, <2>3, <3>1
  <2> QED
    BY <2>2, <2>3
<1>5. ASSUME NEW v \in Verifiers
      PROVE  /\ vstate'[v] \in VStates /\ vstate'[v].pc = vstate[v].pc /\ vstate'[v].key = vstate[v].key
             /\ vstate'[v].doc = vstate[v].doc /\ vstate[v].pc \in {"idle", "fetch", "store"}
             /\ vstate[v].pc = "store" => vstate'[v].spent = vstate[v].spent + 1
  <2>1. vstate[v] \in VStates /\ vstate'[v] = next(v) /\ vstate[v].spent \in Int /\ vstate[v].spent >= 0
    BY <1>1, KeyTypes, StateFields
  <2>2. CASE Downloading(v)
    <3>1. vstate[v].pc \in {"fetch", "store"} /\ vstate[v].spent + 1 \in 0 .. FetchBound
      BY <1>1, <2>1, <2>2, KeyNumbers DEF Downloading
    <3>2. vstate'[v] = [vstate[v] EXCEPT !.spent = @ + 1]
      BY <2>1, <2>2
    <3> QED
      BY <2>1, <3>1, <3>2 DEF VStates
  <2>3. CASE ~Downloading(v)
    BY <1>1, <2>1, <2>3 DEF Downloading
  <2> QED
    BY <2>2, <2>3
<1> HIDE DEF next, aged
<1>6. Stampers = {} /\ Stampers' = {} /\ Cardinality({}) = 0
  BY <1>5, FS_EmptySet DEF Stampers
<1>7. MarkerOk' /\ marker' \in 0 .. ForcedInterval /\ forcedCount' \in 0 .. 2 * Cardinality(Verifiers) + 1
  <2>1. /\ marker \in Int /\ marker >= 0 /\ marker <= ForcedInterval /\ ForcedInterval \in Nat
        /\ forcedCount \in Int /\ forcedCount >= 0 /\ Cardinality(Verifiers) \in Nat
        /\ forcedCount + Cardinality(Stampers) <= Cardinality(Verifiers)
    BY KeyTypes, KeyNumbers DEF KeyInv, MarkerOk
  <2>2. forcedCount <= Cardinality(Verifiers)
    BY <1>6, <2>1
  <2>3. CASE marker <= 1
    <3>1. marker' = 0 /\ forcedCount' = 0
      BY <1>1, <2>1, <2>3
    <3> QED
      BY <1>6, <2>1, <3>1 DEF MarkerOk
  <2>4. CASE ~(marker <= 1)
    <3>1. marker' = marker - 1 /\ forcedCount' = forcedCount
      BY <1>1, <2>1, <2>4
    <3> QED
      BY <1>6, <2>1, <2>2, <2>4, <3>1 DEF MarkerOk
  <2> QED
    BY <2>3, <2>4
<1>8. KeyTypeOK'
  <2>1. vstate' \in [Verifiers -> VStates] /\ keyAge' \in [Keys -> -1 .. AgeCap]
    BY <1>1, <1>2, <1>5
  <2> QED
    BY <1>1, <1>3, <1>4, <1>7, <2>1 DEF KeyInv, KeyTypeOK, VStates
<1>9. OpOk'
  BY <1>1, <1>2, <1>3 DEF KeyInv, OpOk, CurrentCap
<1>10. CachedOk'
  <2> SUFFICES ASSUME cached'.left > 0
               PROVE  /\ \A k \in cached'.keys : k # 0 /\ keyAge'[k] <= FetchBound + RefreshInterval - cached'.left
                      /\ settled' /\ ~faulted' => cached'.keys = {opKey'}
    BY DEF CachedOk
  <2>1. cached.left > 1 /\ cached'.left = cached.left - 1 /\ cached'.keys = cached.keys /\ cached.left \in Int
        /\ cached.left > 0
    BY <1>4, KeyTypes
  <2>2. settled' /\ ~faulted' => cached'.keys = {opKey'}
    BY <1>1, <2>1 DEF KeyInv, CachedOk
  <2>3. ASSUME NEW k \in cached'.keys
        PROVE  k # 0 /\ keyAge'[k] <= FetchBound + RefreshInterval - cached'.left
    <3>1. k # 0 /\ keyAge[k] <= FetchBound + RefreshInterval - cached.left /\ k \in Keys
      BY <2>1, KeyTypes DEF KeyInv, CachedOk
    <3>2. keyAge'[k] <= keyAge[k] + 1 /\ keyAge[k] \in Int /\ keyAge'[k] \in Int
      BY <1>2, <3>1, KeyTypes
    <3>3. FetchBound \in Int /\ RefreshInterval \in Int
      BY KeyNumbers
    <3> QED
      BY <2>1, <3>1, <3>2, <3>3
  <2> QED
    BY <2>2, <2>3
<1>11. ASSUME NEW v \in Verifiers
       PROVE  VerifierOk(vstate[v])'
  <2> DEFINE st == vstate[v]
             s == vstate'[v]
  <2>1. st \in VStates /\ VerifierOk(st) /\ st.spent \in Int
    BY VerifierKnown, StateFields
  <2>2. /\ s.pc = st.pc /\ s.key = st.key /\ s.doc = st.doc /\ st.pc \in {"idle", "fetch", "store"}
        /\ st.pc = "store" => s.spent = st.spent + 1
    BY <1>5
  <2>3. ASSUME s.pc = "store"
        PROVE  \E k \in 1 .. opKey' :
                 /\ s.doc = {k} /\ keyAge'[k] <= s.spent
                 /\ k # opKey' => currentFor' <= s.spent /\ s.key # opKey'
    <3>1. PICK k \in 1 .. opKey : /\ st.doc = {k} /\ keyAge[k] <= st.spent
                                  /\ k # opKey => currentFor <= st.spent /\ st.key # opKey
      BY <2>1, <2>2, <2>3 DEF VerifierOk, StoreOk
    <3>2. k \in Keys
      BY KeyTypes, KeyNumbers
    <3>3. keyAge[k] \in Int /\ keyAge'[k] \in Int /\ keyAge'[k] <= keyAge[k] + 1 /\ currentFor \in Int
      BY <1>2, <3>2, KeyTypes
    <3> HIDE DEF st, s
    <3>4. keyAge'[k] <= s.spent
      BY <2>1, <2>2, <2>3, <3>1, <3>3
    <3>5. k # opKey => currentFor' <= s.spent /\ s.key # opKey
      BY <1>3, <2>1, <2>2, <2>3, <3>1, <3>3
    <3> QED
      BY <1>1, <2>2, <3>1, <3>4, <3>5
  <2>4. s.key <= opKey'
    BY <1>1, <2>1, <2>2 DEF VerifierOk
  <2> HIDE DEF st
  <2> QED
    BY <2>2, <2>3, <2>4 DEF VerifierOk, StoreOk
<1> QED
  BY <1>7, <1>8, <1>9, <1>10, <1>11 DEF KeyInv

\* Every step of the key lookup preserves the invariant.
LEMMA KeyStep ==
    ASSUME KeyInv, [KeyNext]_keyVars
    PROVE  KeyInv'
<1>1. CASE UNCHANGED keyVars
  BY <1>1 DEF keyVars, KeyInv, KeyTypeOK, OpOk, CachedOk, MarkerOk, Stampers, VerifierOk, StoreOk
<1>2. CASE KeyNext
  BY <1>2, PresentStep, LookupFallbackStep, ThrottleStep, StampStep, FetchStep, KeyStoreStep,
     RolloverStep, KeyTickStep DEF KeyNext, KeyWork
<1> QED
  BY <1>1, <1>2

\* The invariant of the key lookup always holds, for any number of requests,
\* keys and lifetimes.
THEOREM KeyInvariance == KeySpec => []KeyInv
<1>1. KeyInv /\ [KeyNext]_keyVars => KeyInv'
  BY KeyStep
<1> QED
  BY <1>1, KeyInitInv, PTL DEF KeySpec

\* No interleaving of lookups, forced refreshes, fallbacks and late stores
\* lets a withdrawn key live on for longer than one document, and unknown keys
\* force no more downloads per marker than requests look for it at once.
THEOREM KeysAlwaysBounded == KeySpec => []KeysBounded
<1>1. ASSUME KeyInv
      PROVE  KeysBounded
  <2>1. WithdrawnKeyEnds
    BY <1>1 DEF KeyInv, VerifierOk, WithdrawnKeyEnds, AgeCap
  <2>2. ForcedBounded
    BY <1>1, StampersCount DEF ForcedBounded
  <2> QED
    BY <2>1, <2>2 DEF KeysBounded
<1> QED
  BY <1>1, KeyInvariance, PTL

\* The measure, step by step.
LEMMA StepsLeftIs ==
    ASSUME NEW st \in VStates
    PROVE  StepsLeft(st) = (IF st.pc = "lookup" THEN 5 ELSE IF st.pc = "throttle" THEN 4
                            ELSE IF st.pc = "stamp" THEN 3 ELSE IF st.pc = "fetch" THEN 2
                            ELSE IF st.pc \in {"store", "fallback"} THEN 1 ELSE 0)
                           + (IF st.refresh THEN 0 ELSE 6) + (IF st.again THEN 0 ELSE 6)
<1>1. st.pc \in Steps
  BY StateFields
<1>2. StepsLeft(st) = (CASE st.pc = "lookup" -> 5 [] st.pc = "throttle" -> 4 [] st.pc = "stamp" -> 3
                         [] st.pc = "fetch" -> 2 [] st.pc \in {"store", "fallback"} -> 1 [] OTHER -> 0)
                      + (IF st.refresh THEN 0 ELSE 6) + (IF st.again THEN 0 ELSE 6)
  BY <1>1 DEF StepsLeft
<1> QED
  BY <1>1, <1>2 DEF Steps

\* Who goes on to another step does it by an action of its own.
LEMMA OwnAction ==
    ASSUME KeyInv, KeyNext, NEW v \in Verifiers, vstate'[v].pc # vstate[v].pc
    PROVE  Present(v) \/ KeyWork(v)
<1>1. ~KeyTick
  <2> SUFFICES ASSUME KeyTick
               PROVE  FALSE
    OBVIOUS
  <2>1. vstate'[v] = IF Downloading(v) THEN [vstate[v] EXCEPT !.spent = @ + 1] ELSE vstate[v]
    BY DEF KeyTick
  <2>2. vstate'[v].pc = vstate[v].pc
    BY <2>1, VerifierKnown DEF VStates
  <2> QED
    BY <2>2
<1>2. ~Rollover
  BY DEF Rollover
<1>3. PICK u \in Verifiers : Present(u) \/ KeyWork(u)
  BY <1>1, <1>2 DEF KeyNext
<1>4. PICK s : Become(u, s)
  BY <1>3, Zenon DEF KeyWork, Present, Lookup, Throttle, Stamp, Fetch, Store, Fallback, Conclude
<1>5. u = v
  BY <1>4, BecomeFields
<1> QED
  BY <1>3, <1>5

\* Who goes on from such a step does it by an action of its own.
LEMMA OwnMove ==
    ASSUME KeyInv, KeyNext, NEW v \in Verifiers, vstate'[v].pc # vstate[v].pc,
           vstate[v].pc \notin {"idle", "accepted", "rejected"}
    PROVE  Lookup(v) \/ Throttle(v) \/ Stamp(v) \/ Fetch(v) \/ Store(v) \/ Fallback(v)
<1>1. Present(v) \/ KeyWork(v)
  BY OwnAction
<1> QED
  BY <1>1 DEF KeyWork, Present, Conclude

\* A document or the lack of one brings the verdict nearer.
LEMMA GoesOnNearer ==
    ASSUME NEW st \in VStates, NEW y \in VStates, NEW doc, NEW o, GoesOn(y, doc, o),
           st.pc \in {"lookup", "store", "fallback"}, y.refresh = st.refresh, y.again = st.again
    PROVE  StepsLeft(o) < StepsLeft(st)
<1>1. o \in VStates /\ st.refresh \in BOOLEAN /\ st.again \in BOOLEAN
  BY StateFields DEF GoesOn
<1> QED
  BY <1>1, StepsLeftIs DEF GoesOn

\* So does giving up.
LEMMA GivenUpNearer ==
    ASSUME NEW st \in VStates, NEW y \in VStates, st.pc \in {"fetch", "fallback"},
           y.refresh = st.refresh, y.again = st.again
    PROVE  StepsLeft(NotObtained(y)) < StepsLeft(st)
<1> DEFINE o == NotObtained(y)
<1>1. o \in VStates /\ o.refresh = st.refresh /\ o.again = st.again /\ o.pc \in {"accepted", "rejected"}
  BY NotObtainedResult
<1> HIDE DEF o
<1>2. StepsLeft(o) < StepsLeft(st)
  BY <1>1, StepsLeftIs
<1> QED
  BY <1>2 DEF o

\* So does every move from one step to the next of a round.
LEMMA MoveNearer ==
    ASSUME NEW st \in VStates, NEW s \in VStates, s.again = st.again, s.refresh = st.refresh \/ s.refresh,
           \/ st.pc = "lookup" /\ s.pc = "fetch"
           \/ st.pc = "throttle" /\ s.pc \in {"stamp", "fallback"}
           \/ st.pc = "stamp" /\ s.pc \in {"fetch", "fallback"}
           \/ st.pc = "fetch" /\ s.pc \in {"store", "fallback"}
    PROVE  StepsLeft(s) < StepsLeft(st)
  BY StepsLeftIs

\* Every action of a request brings its verdict nearer.
LEMMA EveryMoveNearer ==
    ASSUME KeyInv, NEW v \in Verifiers,
           Lookup(v) \/ Throttle(v) \/ Stamp(v) \/ Fetch(v) \/ Store(v) \/ Fallback(v)
    PROVE  StepsLeft(vstate'[v]) < StepsLeft(vstate[v])
<1> DEFINE st == vstate[v]
<1>1. st \in VStates /\ cached.keys \in SUBSET Keys /\ st.doc \in SUBSET Keys /\ opKey \in Keys
      /\ {"fetch", "fallback", "stamp", "store"} \subseteq Steps /\ 0 \in 0 .. FetchBound
  <2>1. st \in VStates
    BY VerifierKnown
  <2>2. st.doc \in SUBSET Keys
    BY <2>1, StateFields
  <2>3. cached.keys \in SUBSET Keys /\ opKey \in Keys
    BY KeyTypes
  <2>4. {"fetch", "fallback", "stamp", "store"} \subseteq Steps
    BY DEF Steps
  <2>5. 0 \in 0 .. FetchBound
    BY KeyNumbers
  <2> HIDE DEF st
  <2> QED
    BY <2>1, <2>2, <2>3, <2>4, <2>5
<1>2. CASE st.pc \in {"lookup", "fallback"} /\ Become(v, Obtained(st, cached.keys))
  <2>1. vstate'[v] = Obtained(st, cached.keys)
    BY <1>2, BecomeFields
  <2> QED
    BY <1>1, <1>2, <2>1, ObtainedResult, GoesOnNearer
<1>3. CASE st.pc = "fallback" /\ Become(v, NotObtained(st))
  <2>1. vstate'[v] = NotObtained(st)
    BY <1>3, BecomeFields
  <2> QED
    BY <1>1, <1>3, <2>1, GivenUpNearer
<1>4. CASE st.pc = "lookup" /\ Become(v, Download(st))
  <2>1. vstate'[v] = [st EXCEPT !.pc = "fetch", !.refresh = TRUE, !.attempted = FALSE]
    BY <1>4, BecomeFields DEF Download
  <2>2. vstate'[v] \in VStates /\ vstate'[v].pc = "fetch" /\ vstate'[v].again = st.again /\ vstate'[v].refresh
    BY <1>1, <2>1 DEF VStates
  <2> QED
    BY <1>1, <1>4, <2>2, MoveNearer
<1>5. CASE Throttle(v)
  <2> DEFINE y == [st EXCEPT !.attempted = TRUE]
  <2>1. y \in VStates /\ y.pc = st.pc /\ y.again = st.again /\ y.refresh = st.refresh
    BY <1>1 DEF VStates
  <2>2. PICK p \in {"stamp", "fallback"} : Become(v, [y EXCEPT !.pc = p])
    BY <1>5 DEF Throttle
  <2>3. vstate'[v] = [y EXCEPT !.pc = p]
    BY <2>2, BecomeFields
  <2>4. y.pc = "throttle"
    BY <1>5 DEF Throttle
  <2> HIDE DEF y
  <2>5. vstate'[v] \in VStates /\ vstate'[v].pc = p /\ vstate'[v].again = st.again /\ vstate'[v].refresh = st.refresh
    BY <1>1, <2>1, <2>3 DEF VStates
  <2> QED
    BY <1>1, <2>1, <2>4, <2>5, MoveNearer
<1>6. CASE Stamp(v)
  <2>1. PICK p \in {"fetch", "fallback"} : Become(v, [st EXCEPT !.pc = p]) /\ st.pc = "stamp"
    BY <1>6 DEF Stamp
  <2>2. vstate'[v] = [st EXCEPT !.pc = p]
    BY <2>1, BecomeFields
  <2>3. vstate'[v] \in VStates /\ vstate'[v].pc = p /\ vstate'[v].again = st.again /\ vstate'[v].refresh = st.refresh
    BY <1>1, <2>2 DEF VStates
  <2> QED
    BY <1>1, <2>1, <2>3, MoveNearer
<1>7. CASE Fetch(v)
  <2>0. st.pc = "fetch"
    BY <1>7 DEF Fetch
  <2>1. CASE Become(v, [st EXCEPT !.pc = "store", !.doc = {opKey}])
    <3>1. vstate'[v] = [st EXCEPT !.pc = "store", !.doc = {opKey}]
      BY <2>1, BecomeFields
    <3>2. vstate'[v] \in VStates /\ vstate'[v].pc = "store" /\ vstate'[v].again = st.again /\ vstate'[v].refresh = st.refresh
      <4>1. {opKey} \in SUBSET Keys
        BY <1>1
      <4> QED
        BY <1>1, <3>1, <4>1 DEF VStates
    <3> QED
      BY <1>1, <2>0, <3>2, MoveNearer
  <2>2. CASE Become(v, [st EXCEPT !.pc = "fallback", !.spent = 0])
    <3>1. vstate'[v] = [st EXCEPT !.pc = "fallback", !.spent = 0]
      BY <2>2, BecomeFields
    <3>2. vstate'[v] \in VStates /\ vstate'[v].pc = "fallback" /\ vstate'[v].again = st.again /\ vstate'[v].refresh = st.refresh
      BY <1>1, <3>1 DEF VStates
    <3> QED
      BY <1>1, <2>0, <3>2, MoveNearer
  <2>3. CASE Become(v, NotObtained([st EXCEPT !.spent = 0]))
    <3> DEFINE y == [st EXCEPT !.spent = 0]
    <3>1. y \in VStates /\ y.again = st.again /\ y.refresh = st.refresh
      BY <1>1 DEF VStates
    <3>2. vstate'[v] = NotObtained(y)
      BY <2>3, BecomeFields
    <3> HIDE DEF y
    <3> QED
      BY <1>1, <2>0, <3>1, <3>2, GivenUpNearer
  <2> QED
    BY <1>7, <2>1, <2>2, <2>3 DEF Fetch
<1>8. CASE Store(v)
  <2> DEFINE y == [st EXCEPT !.spent = 0, !.doc = {}]
  <2>1. y \in VStates /\ y.again = st.again /\ y.refresh = st.refresh
    BY <1>1 DEF VStates
  <2>2. vstate'[v] = Obtained(y, st.doc) /\ st.pc = "store"
    BY <1>8, BecomeFields DEF Store
  <2> HIDE DEF y
  <2> QED
    BY <1>1, <2>1, <2>2, ObtainedResult, GoesOnNearer
<1>9. CASE Lookup(v)
  BY <1>2, <1>4, <1>9 DEF Lookup
<1>10. CASE Fallback(v)
  BY <1>2, <1>3, <1>10 DEF Fallback
<1> QED
  BY <1>5, <1>6, <1>7, <1>8, <1>9, <1>10

\* A token of the current key is refused only at a marker of another request.
LEMMA RefusalSound ==
    ASSUME KeyInv, KeyNext, NEW v \in Verifiers, RefusesCurrent(v), ~faulted'
    PROVE  marker > 0 /\ ~settled
<1> DEFINE st == vstate[v]
<1>1. st \in VStates /\ VerifierOk(st) /\ cached.keys \in SUBSET Keys /\ st.doc \in SUBSET Keys
      /\ st.key = opKey /\ st.kid \in {NoKid, st.key} /\ vstate'[v].pc = "rejected" /\ faulted \in BOOLEAN
  BY VerifierKnown, KeyTypes, StateFields DEF RefusesCurrent
<1>2. \A doc \in SUBSET Keys : st.key \in doc => Obtained(st, doc).pc # "rejected"
  BY <1>1, ObtainedResult DEF GoesOn
<1>3. CASE Lookup(v)
  <2>1. ~st.refresh /\ ~st.again
    BY <1>1, <1>3 DEF Lookup, VerifierOk
  <2>2. Become(v, Obtained(st, cached.keys)) \/ Become(v, Download(st))
    BY <1>3 DEF Lookup
  <2>3. Obtained(st, cached.keys).pc # "rejected"
    BY <1>1, <2>1, ObtainedResult DEF GoesOn
  <2>4. Download(st).pc = "fetch"
    BY <1>1 DEF Download, VStates
  <2> QED
    BY <1>1, <2>2, <2>3, <2>4, BecomeFields
<1>4. CASE Store(v)
  <2> DEFINE y == [st EXCEPT !.spent = 0, !.doc = {}]
  <2>1. y \in VStates /\ y.key = st.key /\ y.kid = st.kid
    <3>1. 0 \in 0 .. FetchBound
      BY KeyNumbers
    <3> QED
      BY <1>1, <3>1 DEF VStates
  <2>2. vstate'[v] = Obtained(y, st.doc) /\ st.pc = "store"
    BY <1>4, BecomeFields DEF Store
  <2>3. st.doc = {opKey}
    BY <1>1, <2>2 DEF VerifierOk, StoreOk
  <2> HIDE DEF y
  <2>4. GoesOn(y, st.doc, Obtained(y, st.doc))
    BY <1>1, <2>1, ObtainedResult
  <2>5. y.key \in st.doc /\ y.kid \in {NoKid, y.key}
    BY <1>1, <2>1, <2>3
  <2>6. Obtained(y, st.doc).pc # "rejected"
    BY <2>4, <2>5 DEF GoesOn
  <2> QED
    BY <1>1, <2>2, <2>6
<1>5. CASE Fallback(v)
  <2>1. st.pc = "fallback" /\ UNCHANGED faulted
        /\ Become(v, IF cached.left > 0 THEN Obtained(st, cached.keys) ELSE NotObtained(st))
    BY <1>5 DEF Fallback, CacheWorks, CacheFails
  <2>2. ~faulted
    BY <2>1
  <2>3. marker > 0
    BY <1>1, <2>1, <2>2 DEF VerifierOk
  <2>4. ASSUME settled
        PROVE  FALSE
    <3>1. cached.left > 0
      BY <1>1, <2>1, <2>2, <2>4 DEF VerifierOk
    <3>2. cached.keys = {opKey}
      BY <2>2, <2>4, <3>1 DEF KeyInv, CachedOk
    <3>3. vstate'[v] = Obtained(st, cached.keys)
      BY <2>1, <3>1, BecomeFields
    <3> QED
      BY <1>1, <1>2, <3>2, <3>3
  <2> QED
    BY <2>3, <2>4
<1>6. CASE Throttle(v)
  <2>1. PICK p \in {"stamp", "fallback"} : Become(v, [[st EXCEPT !.attempted = TRUE] EXCEPT !.pc = p])
    BY <1>6 DEF Throttle
  <2>2. vstate'[v] = [[st EXCEPT !.attempted = TRUE] EXCEPT !.pc = p]
    BY <2>1, BecomeFields
  <2>3. vstate'[v].pc = p
    BY <1>1, <2>2 DEF VStates
  <2> QED
    BY <1>1, <2>3
<1>7. CASE Stamp(v)
  <2>1. PICK p \in {"fetch", "fallback"} : Become(v, [st EXCEPT !.pc = p])
    BY <1>7 DEF Stamp
  <2>2. vstate'[v] = [st EXCEPT !.pc = p]
    BY <2>1, BecomeFields
  <2>3. vstate'[v].pc = p
    BY <1>1, <2>2 DEF VStates
  <2> QED
    BY <1>1, <2>3
<1>8. CASE Fetch(v)
  <2>1. Become(v, [st EXCEPT !.pc = "store", !.doc = {opKey}])
    BY <1>8 DEF Fetch
  <2>2. vstate'[v] = [st EXCEPT !.pc = "store", !.doc = {opKey}]
    BY <2>1, BecomeFields
  <2>3. vstate'[v].pc = "store"
    BY <1>1, <2>2 DEF VStates
  <2> QED
    BY <1>1, <2>3
<1>9. CASE Present(v)
  <2>1. PICK k, kid : Become(v, [Idle EXCEPT !.pc = "lookup", !.key = k, !.kid = kid])
    BY <1>9 DEF Present
  <2>2. vstate'[v] = [Idle EXCEPT !.pc = "lookup", !.key = k, !.kid = kid]
    BY <2>1, BecomeFields
  <2> QED
    BY <1>1, <2>2 DEF Idle
<1>10. CASE Conclude(v)
  <2>1. vstate'[v] = Idle
    BY <1>10, BecomeFields DEF Conclude
  <2> QED
    BY <1>1, <2>1 DEF Idle
<1>11. Present(v) \/ KeyWork(v)
  BY OwnAction DEF RefusesCurrent
<1> QED
  BY <1>3, <1>4, <1>5, <1>6, <1>7, <1>8, <1>9, <1>10, <1>11 DEF KeyWork

\* Every behaviour of the lookup has LookupSound: each step of a request nears
\* its verdict, so that the retries of oidc_proto_jwks_uri_keys and
\* oidc_proto_jwt_verify end, and a token of the OP's current key is refused
\* only at a marker that another request has just stored.
THEOREM LookupsAlwaysSound == KeySpec => LookupSound
<1>1. ASSUME KeyInv, [KeyNext]_keyVars
      PROVE  [\A v \in Verifiers : RefusesCurrent(v) /\ ~faulted' => marker > 0 /\ ~settled]_keyVars
  BY <1>1, RefusalSound
<1>2. ASSUME KeyInv, [KeyNext]_keyVars
      PROVE  [\A v \in Verifiers :
                vstate'[v].pc # vstate[v].pc /\ vstate[v].pc \notin {"idle", "accepted", "rejected"}
                   => StepsLeft(vstate'[v]) < StepsLeft(vstate[v])]_keyVars
  BY <1>2, OwnMove, EveryMoveNearer
<1> QED
  BY <1>1, <1>2, KeyInvariance, PTL DEF KeySpec, LookupSound, RolloverNoticed, VerdictNears

-----------------------------------------------------------------------------
(* The tokens of a session                                                  *)

\* What holds of every copy z of the session: it has its claims, a token that
\* the OP has issued, and an expiry that is late by no more than the time
\* that a result may have been in the refresh cache.
CopyOk(z, live, true) ==
    /\ z.claims
    /\ z.rt <= live
    /\ z.left <= true[z.rt] + ResultTTL - 1

\* A cached result is the one of a rotated token, and as old as its lifetime
\* has run down; the result of a later grant stays for longer.
ResultsOk(live, res, true) ==
    /\ \A n \in RefreshTokens :
          res[n] > 0 => n < live /\ TokenTTL <= true[n + 1] + ResultTTL - res[n]
    /\ \A n \in RefreshTokens : n + 1 < live => res[n] <= res[n + 1]

\* The results of the grants of a request are in the cache since then at
\* least, its copy has the token of the last one and will be saved, and the
\* token of the copy is live, or can be exchanged for as long as the one that
\* was loaded.
Keeps(s, live, res) ==
    /\ \A n \in s.made : res[n] + s.spent >= ResultTTL /\ n < s.z.rt
    /\ s.made # {} => s.save
    /\ s.z.rt = live \/ res[s.z.rt] >= s.grace

\* The state s of a request under way: what an application request has passed
\* is as good as the settings ask for.
WayOk(s, live, res, true) ==
    /\ CopyOk(s.z, live, true)
    /\ Keeps(s, live, res)
    /\ s.served => s.pc = "finish"
    /\ s.kind = "app" => s.pc \in {"expiry", "userinfo", "again", "finish"}
    /\ s.kind = "app" /\ s.pc = "finish" /\ UserinfoInterval >= 0 => s.z.age <= UserinfoInterval + s.spent
    /\ s.kind = "app" /\ s.pc \in {"userinfo", "again", "finish"} /\ BeforeExpiry >= 0 /\ BeforeExpiry < TokenTTL
         => true[s.z.rt] + s.spent + ResultTTL - 1 > BeforeExpiry

\* The state s of any request.
RequestOk(s, live, res, true) ==
    /\ s.pc = "idle" => ~s.served /\ s.made = {}
    /\ s.pc # "idle" => WayOk(s, live, res, true)

\* The inductive invariant of the tokens of a session.
TokensInv ==
    /\ SessionTokensTypeOK
    /\ CopyOk(stored, liveToken, trueLeft)
    /\ ResultsOk(liveToken, results, trueLeft)
    /\ \A r \in SessionRequests : RequestOk(ses[r], liveToken, results, trueLeft)

\* The states of a request.
SesStates == [pc : TokenSteps, kind : Kinds, z : Sessions, save : BOOLEAN, made : SUBSET RefreshTokens,
              spent : 0 .. RequestTime, served : BOOLEAN, grace : 0 .. ResultTTL]

\* The constants are numbers.
LEMMA TokenNumbers ==
    /\ MaxToken \in Nat /\ ResultTTL \in Nat /\ RequestTime \in Nat /\ TokenTTL \in Nat /\ ResultTTL > 0
    /\ BeforeExpiry \in Int /\ UserinfoInterval \in Int
    /\ AgeMax \in Nat /\ AgeMax > UserinfoInterval /\ AgeMax > 0
    /\ RefreshTokens = 0 .. MaxToken
<1>1. /\ MaxToken \in Nat /\ ResultTTL \in Nat /\ RequestTime \in Nat /\ TokenTTL \in Nat
      /\ BeforeExpiry \in Int /\ UserinfoInterval \in Int /\ ResultTTL > 0
  BY SessionTokensAssumption
<1>2. Max({UserinfoInterval, 0}) = IF UserinfoInterval >= 0 THEN UserinfoInterval ELSE 0
  BY <1>1, MaxTwo
<1> QED
  BY <1>1, <1>2 DEF AgeMax, RefreshTokens

\* A request at rest.
LEMMA RestingType ==
    /\ Resting \in SesStates /\ Resting.pc = "idle" /\ ~Resting.served /\ Resting.made = {} /\ Resting.spent = 0
    /\ Resting.kind = "app" /\ ~Resting.save
  BY TokenNumbers DEF Resting, SesStates, TokenSteps, Kinds, Sessions

\* A new session satisfies the invariant.
LEMMA TokensInitInv == SessionTokensInit => TokensInv
<1> SUFFICES ASSUME SessionTokensInit
             PROVE  TokensInv
  OBVIOUS
<1>1. /\ stored = [rt |-> 0, left |-> TokenTTL, claims |-> TRUE, age |-> 0, gone |-> FALSE]
      /\ liveToken = 0 /\ results = [n \in RefreshTokens |-> 0]
      /\ trueLeft = [n \in RefreshTokens |-> IF n = 0 THEN TokenTTL ELSE 0]
      /\ ses = [r \in SessionRequests |-> Resting]
  BY DEF SessionTokensInit
<1>2. 0 \in RefreshTokens /\ 0 \in 0 .. AgeMax /\ TokenTTL \in 0 .. TokenTTL /\ 0 \in 0 .. ResultTTL
      /\ trueLeft[0] = TokenTTL /\ 0 \in 0 .. TokenTTL
  BY <1>1, TokenNumbers
<1>3. stored \in Sessions /\ stored.claims /\ stored.rt = 0 /\ stored.left = TokenTTL
  BY <1>1, <1>2 DEF Sessions
<1>4. SessionTokensTypeOK
  BY <1>1, <1>2, <1>3, RestingType DEF SessionTokensTypeOK, SesStates
<1>5. CopyOk(stored, liveToken, trueLeft)
  BY <1>1, <1>2, <1>3, TokenNumbers DEF CopyOk
<1>6. ResultsOk(liveToken, results, trueLeft)
  <2>1. \A n \in RefreshTokens : ~(n + 1 < liveToken)
    BY <1>1, TokenNumbers
  <2> QED
    BY <1>1, <2>1 DEF ResultsOk
<1>7. \A r \in SessionRequests : RequestOk(ses[r], liveToken, results, trueLeft)
  BY <1>1, RestingType DEF RequestOk
<1> QED
  BY <1>4, <1>5, <1>6, <1>7 DEF TokensInv

\* The types of the parts.
LEMMA TokenTypes ==
    ASSUME TokensInv
    PROVE  /\ stored \in Sessions /\ liveToken \in RefreshTokens
           /\ results \in [RefreshTokens -> 0 .. ResultTTL] /\ trueLeft \in [RefreshTokens -> 0 .. TokenTTL]
           /\ ses \in [SessionRequests -> SesStates] /\ \A r \in SessionRequests : ses[r] \in SesStates
           /\ \A n \in RefreshTokens : /\ n \in Int /\ results[n] \in Int /\ trueLeft[n] \in Int
                                       /\ results[n] >= 0 /\ trueLeft[n] >= 0
                                       /\ results[n] <= ResultTTL /\ trueLeft[n] <= TokenTTL
<1>1. /\ stored \in Sessions /\ liveToken \in RefreshTokens
      /\ results \in [RefreshTokens -> 0 .. ResultTTL] /\ trueLeft \in [RefreshTokens -> 0 .. TokenTTL]
      /\ ses \in [SessionRequests -> SesStates]
  BY DEF TokensInv, SessionTokensTypeOK, SesStates
<1>2. \A n \in RefreshTokens : results[n] \in 0 .. ResultTTL /\ trueLeft[n] \in 0 .. TokenTTL
  BY <1>1
<1> QED
  BY <1>1, <1>2, TokenNumbers

\* The OP and the refresh cache only add to what requests rely on.
Grown ==
    /\ liveToken' \in RefreshTokens /\ liveToken <= liveToken'
    /\ results' \in [RefreshTokens -> 0 .. ResultTTL] /\ trueLeft' \in [RefreshTokens -> 0 .. TokenTTL]
    /\ \A n \in RefreshTokens : results'[n] >= results[n] /\ trueLeft'[n] >= trueLeft[n]
    /\ liveToken' = liveToken \/ results'[liveToken] = ResultTTL
    /\ ResultsOk(liveToken', results', trueLeft')

\* What the OP and the cache have grown to.
LEMMA GrownTypes ==
    ASSUME TokensInv, Grown
    PROVE  /\ liveToken \in Int /\ liveToken' \in Int /\ liveToken <= liveToken'
           /\ \A n \in RefreshTokens :
                 /\ results'[n] \in Int /\ trueLeft'[n] \in Int
                 /\ results'[n] >= results[n] /\ trueLeft'[n] >= trueLeft[n]
<1>1. \A n \in RefreshTokens : results'[n] \in 0 .. ResultTTL /\ trueLeft'[n] \in 0 .. TokenTTL
  BY DEF Grown
<1>2. liveToken \in RefreshTokens /\ liveToken' \in RefreshTokens
  BY TokenTypes DEF Grown
<1> QED
  BY <1>1, <1>2, TokenNumbers DEF Grown

\* A copy of the session is as good as before.
LEMMA CopyGrown ==
    ASSUME TokensInv, Grown, NEW z \in Sessions, CopyOk(z, liveToken, trueLeft)
    PROVE  CopyOk(z, liveToken', trueLeft')
<1>1. z.rt \in RefreshTokens /\ z.left \in Int
  BY TokenNumbers DEF Sessions
<1>2. trueLeft'[z.rt] >= trueLeft[z.rt] /\ trueLeft'[z.rt] \in Int /\ trueLeft[z.rt] \in Int
      /\ liveToken \in Int /\ liveToken' \in Int /\ liveToken <= liveToken' /\ z.rt \in Int
  BY <1>1, TokenTypes, GrownTypes, TokenNumbers
<1> QED
  BY <1>1, <1>2, TokenNumbers DEF CopyOk

\* A request is as good as before.
LEMMA RequestGrown ==
    ASSUME TokensInv, Grown, NEW s \in SesStates, RequestOk(s, liveToken, results, trueLeft)
    PROVE  RequestOk(s, liveToken', results', trueLeft')
<1> SUFFICES ASSUME s.pc # "idle", WayOk(s, liveToken, results, trueLeft)
             PROVE  WayOk(s, liveToken', results', trueLeft')
  BY DEF RequestOk
<1>1. s.z \in Sessions /\ s.made \subseteq RefreshTokens /\ s.spent \in Int /\ s.grace \in Int
      /\ s.grace <= ResultTTL
  BY TokenNumbers DEF SesStates
<1>2. s.z.rt \in RefreshTokens
  BY <1>1 DEF Sessions
<1>3. CopyOk(s.z, liveToken', trueLeft')
  BY <1>1, CopyGrown DEF WayOk
<1>4. \A n \in s.made : results'[n] + s.spent >= ResultTTL /\ n < s.z.rt
  <2> TAKE n \in s.made
  <2>1. results'[n] >= results[n] /\ results'[n] \in Int /\ results[n] \in Int
    BY <1>1, TokenTypes, GrownTypes, TokenNumbers
  <2>2. results[n] + s.spent >= ResultTTL /\ n < s.z.rt
    BY DEF WayOk, Keeps
  <2> QED
    BY <1>1, <2>1, <2>2, TokenNumbers
<1>5. trueLeft'[s.z.rt] >= trueLeft[s.z.rt] /\ trueLeft'[s.z.rt] \in Int /\ trueLeft[s.z.rt] \in Int
  BY <1>2, TokenTypes, GrownTypes
<1>6. trueLeft[s.z.rt] + s.spent + ResultTTL - 1 > BeforeExpiry
         => trueLeft'[s.z.rt] + s.spent + ResultTTL - 1 > BeforeExpiry
  BY <1>1, <1>5, TokenNumbers
<1>7. s.z.rt = liveToken' \/ results'[s.z.rt] >= s.grace
  <2>1. results'[s.z.rt] >= results[s.z.rt] /\ results'[s.z.rt] \in Int /\ results[s.z.rt] \in Int
    BY <1>2, TokenTypes, GrownTypes
  <2>2. s.z.rt = liveToken \/ results[s.z.rt] >= s.grace
    BY DEF WayOk, Keeps
  <2>3. s.z.rt = liveToken => s.z.rt = liveToken' \/ results'[s.z.rt] = ResultTTL
    BY DEF Grown
  <2> QED
    BY <1>1, <2>1, <2>2, <2>3, TokenNumbers
<1> QED
  BY <1>3, <1>4, <1>6, <1>7 DEF WayOk, Keeps

\* A step of request r, which takes it to s.
LEMMA GoesStep ==
    ASSUME TokensInv, Grown, NEW r \in SessionRequests, NEW s \in SesStates, Goes(r, s),
           RequestOk(s, liveToken', results', trueLeft'),
           stored' \in Sessions, CopyOk(stored', liveToken', trueLeft')
    PROVE  TokensInv'
<1>1. /\ ses' \in [SessionRequests -> SesStates] /\ ses'[r] = s
      /\ \A u \in SessionRequests \ {r} : ses'[u] = ses[u]
  BY TokenTypes DEF Goes
<1>2. SessionTokensTypeOK'
  BY <1>1 DEF SessionTokensTypeOK, SesStates, Grown
<1>3. ASSUME NEW u \in SessionRequests
      PROVE  RequestOk(ses'[u], liveToken', results', trueLeft')
  <2>1. CASE u = r
    BY <1>1, <2>1
  <2>2. CASE u # r
    BY <1>1, <2>2, TokenTypes, RequestGrown DEF TokensInv
  <2> QED
    BY <2>1, <2>2
<1>4. ResultsOk(liveToken, results, trueLeft)' /\ CopyOk(stored, liveToken, trueLeft)'
  BY DEF Grown
<1> QED
  BY <1>2, <1>3, <1>4 DEF TokensInv

\* Nothing happens at the OP.
LEMMA OpStays ==
    ASSUME TokensInv, UNCHANGED OpSide
    PROVE  Grown /\ CopyOk(stored, liveToken', trueLeft')
  BY TokenTypes, TokenNumbers DEF OpSide, Grown, TokensInv

\* What is known of a request under way.
LEMMA WayKnown ==
    ASSUME TokensInv, NEW r \in SessionRequests, ses[r].pc # "idle"
    PROVE  /\ ses[r] \in SesStates /\ ses[r].z \in Sessions /\ ses[r].z.rt \in RefreshTokens
           /\ WayOk(ses[r], liveToken, results, trueLeft)
           /\ ses[r].spent \in Int /\ ses[r].spent >= 0 /\ ses[r].spent <= RequestTime
           /\ ses[r].made \subseteq RefreshTokens
<1>1. ses[r] \in SesStates /\ RequestOk(ses[r], liveToken, results, trueLeft)
  BY TokenTypes DEF TokensInv
<1>2. ses[r].z \in Sessions
  BY <1>1 DEF SesStates
<1> QED
  BY <1>1, <1>2, TokenNumbers DEF RequestOk, SesStates, Sessions

\* What a grant leaves of a copy of the session.
LEMMA GrantedFields ==
    ASSUME NEW s \in SesStates, s.z.rt + 1 \in RefreshTokens
    PROVE  LET g == Granted(s) IN
           /\ g \in SesStates /\ g.pc = s.pc /\ g.kind = s.kind /\ g.spent = s.spent /\ g.served = s.served
           /\ g.z \in Sessions /\ g.z.rt = s.z.rt + 1 /\ g.z.left = TokenTTL /\ g.z.claims = s.z.claims
           /\ g.z.age = s.z.age /\ g.grace = s.grace /\ g.save
           /\ g.made = IF results[s.z.rt] > 0 THEN s.made ELSE s.made \cup {s.z.rt}
<1> DEFINE n == s.z.rt
           y == [s.z EXCEPT !.rt = n + 1, !.left = TokenTTL]
           a == [s EXCEPT !.z = y, !.save = TRUE]
<1>1. s.z \in Sessions /\ n \in RefreshTokens /\ s.made \subseteq RefreshTokens /\ TokenTTL \in 0 .. TokenTTL
  BY TokenNumbers DEF SesStates, Sessions
<1>2. y \in Sessions /\ y.rt = n + 1 /\ y.left = TokenTTL /\ y.claims = s.z.claims /\ y.age = s.z.age
  BY <1>1 DEF Sessions
<1>3. a = Applied(s, n + 1)
  BY DEF Applied
<1> HIDE DEF y
<1>4. /\ a \in SesStates /\ a.pc = s.pc /\ a.kind = s.kind /\ a.spent = s.spent /\ a.served = s.served
      /\ a.z = y /\ a.made = s.made /\ a.grace = s.grace /\ a.save
  BY <1>2 DEF SesStates
<1>5. CASE results[n] > 0
  <2>1. Granted(s) = a
    BY <1>3, <1>5 DEF Granted
  <2> HIDE DEF a
  <2> QED
    BY <1>2, <1>4, <1>5, <2>1
<1>6. CASE ~(results[n] > 0)
  <2>1. Granted(s) = [a EXCEPT !.made = @ \cup {n}]
    BY <1>3, <1>6 DEF Granted
  <2> HIDE DEF a
  <2>2. s.made \cup {n} \in SUBSET RefreshTokens
    BY <1>1
  <2> QED
    BY <1>2, <1>4, <1>6, <2>1, <2>2 DEF SesStates
<1> QED
  BY <1>5, <1>6

\* A grant, from the cache or from the OP.
LEMMA GrantGives ==
    ASSUME TokensInv, NEW r \in SessionRequests, ses[r].pc # "idle",
           GrantCached(ses[r]) \/ GrantNew(ses[r])
    PROVE  LET s == ses[r]
               g == Granted(s)
           IN  /\ Grown
               /\ g \in SesStates /\ g.pc = s.pc /\ g.kind = s.kind /\ g.spent = s.spent /\ g.served = s.served
               /\ g.z \in Sessions /\ g.z.age = s.z.age
               /\ CopyOk(g.z, liveToken', trueLeft')
               /\ Keeps(g, liveToken', results')
               /\ TokenTTL <= trueLeft'[g.z.rt] + ResultTTL - 1
<1> DEFINE s == ses[r]
           n == s.z.rt
           g == Granted(s)
<1>1. /\ s \in SesStates /\ n \in RefreshTokens /\ s.made \subseteq RefreshTokens /\ s.spent \in Int /\ s.spent >= 0
      /\ WayOk(s, liveToken, results, trueLeft) /\ s.z.claims /\ n \in Int
      /\ liveToken \in RefreshTokens /\ liveToken \in Int
  BY WayKnown, TokenTypes, TokenNumbers DEF WayOk, CopyOk
<1>2. CASE GrantCached(s)
  <2>1. results[n] > 0 /\ UNCHANGED OpSide /\ Grown
    BY <1>2, OpStays DEF GrantCached
  <2>2. n < liveToken /\ TokenTTL <= trueLeft[n + 1] + ResultTTL - results[n]
    BY <1>1, <2>1 DEF TokensInv, ResultsOk
  <2>3. n + 1 \in RefreshTokens /\ n + 1 <= liveToken
    BY <1>1, <2>2, TokenNumbers
  <2>4. /\ g \in SesStates /\ g.pc = s.pc /\ g.kind = s.kind /\ g.spent = s.spent /\ g.served = s.served
        /\ g.z \in Sessions /\ g.z.rt = n + 1 /\ g.z.left = TokenTTL /\ g.z.claims = s.z.claims
        /\ g.z.age = s.z.age /\ g.made = s.made /\ g.grace = s.grace /\ g.save
    BY <1>1, <2>1, <2>3, GrantedFields
  <2>5. trueLeft[n + 1] \in Int /\ results[n] \in Int /\ results[n + 1] \in Int /\ s.grace \in Int
    BY <1>1, <2>3, TokenTypes, TokenNumbers DEF SesStates
  <2>10. results[n] >= s.grace
    BY <1>1, <2>2 DEF WayOk, Keeps
  <2>11. n + 1 < liveToken => results[n] <= results[n + 1]
    BY <1>1 DEF TokensInv, ResultsOk
  <2>12. \A k \in s.made : k \in Int /\ k < n /\ results[k] + s.spent >= ResultTTL
    BY <1>1, TokenNumbers DEF WayOk, Keeps
  <2> HIDE DEF g, n, s
  <2>6. TokenTTL <= trueLeft[n + 1] + ResultTTL - 1
    BY <2>1, <2>2, <2>5, TokenNumbers
  <2>7. CopyOk(g.z, liveToken, trueLeft)
    BY <1>1, <2>3, <2>4, <2>6 DEF CopyOk
  <2>13. n + 1 = liveToken \/ results[n + 1] >= s.grace
    BY <1>1, <2>3, <2>5, <2>10, <2>11
  <2>14. \A k \in s.made : k < n + 1
    BY <1>1, <2>12
  <2>8. Keeps(g, liveToken, results)
    BY <2>4, <2>12, <2>13, <2>14 DEF Keeps
  <2>9. UNCHANGED <<liveToken, results, trueLeft>>
    BY <2>1 DEF OpSide
  <2> QED
    BY <2>1, <2>4, <2>6, <2>7, <2>8, <2>9 DEF g, s
<1>3. CASE GrantNew(s)
  <2>1. /\ results[n] = 0 /\ n = liveToken /\ liveToken < MaxToken /\ liveToken' = liveToken + 1
        /\ results' = [results EXCEPT ![n] = ResultTTL]
        /\ trueLeft' = [trueLeft EXCEPT ![n + 1] = TokenTTL]
    BY <1>3 DEF GrantNew
  <2>2. n + 1 \in RefreshTokens
    BY <1>1, <2>1, TokenNumbers
  <2>3. /\ g \in SesStates /\ g.pc = s.pc /\ g.kind = s.kind /\ g.spent = s.spent /\ g.served = s.served
        /\ g.z \in Sessions /\ g.z.rt = n + 1 /\ g.z.left = TokenTTL /\ g.z.claims = s.z.claims
        /\ g.z.age = s.z.age /\ g.made = s.made \cup {n} /\ g.grace = s.grace /\ g.save
    <3>1. ~(results[n] > 0)
      BY <2>1
    <3> QED
      BY <1>1, <2>2, <3>1, GrantedFields
  <2> HIDE DEF g, n
  <2>4. /\ results'[n] = ResultTTL /\ \A k \in RefreshTokens \ {n} : results'[k] = results[k]
        /\ trueLeft'[n + 1] = TokenTTL /\ \A k \in RefreshTokens \ {n + 1} : trueLeft'[k] = trueLeft[k]
        /\ results' \in [RefreshTokens -> 0 .. ResultTTL] /\ trueLeft' \in [RefreshTokens -> 0 .. TokenTTL]
    <3>1. ResultTTL \in 0 .. ResultTTL /\ TokenTTL \in 0 .. TokenTTL
      BY TokenNumbers
    <3> QED
      BY <1>1, <2>1, <2>2, <3>1, TokenTypes
  <2>5. ResultsOk(liveToken', results', trueLeft')
    <3>3. ASSUME NEW k \in RefreshTokens, k + 1 < liveToken'
          PROVE  results'[k] <= results'[k + 1]
      <4>1. k \in Int /\ k + 1 \in RefreshTokens /\ k # n /\ k + 1 <= liveToken
        BY <1>1, <2>1, <3>3, TokenNumbers
      <4>2. results'[k] = results[k] /\ results[k] \in Int /\ results[k] <= ResultTTL
        BY <2>4, <4>1, TokenTypes
      <4>3. CASE k + 1 = n
        BY <2>4, <4>2, <4>3
      <4>4. CASE k + 1 # n
        <5>1. k + 1 < liveToken
          BY <1>1, <2>1, <4>1, <4>4
        <5> QED
          BY <2>4, <4>1, <4>2, <4>4, <5>1 DEF TokensInv, ResultsOk
      <4> QED
        BY <4>3, <4>4
    <3> SUFFICES ASSUME NEW k \in RefreshTokens, results'[k] > 0
                 PROVE  k < liveToken' /\ TokenTTL <= trueLeft'[k + 1] + ResultTTL - results'[k]
      BY <3>3 DEF ResultsOk
    <3>1. CASE k = n
      BY <1>1, <2>1, <2>4, <3>1, TokenNumbers
    <3>2. CASE k # n
      <4>1. k < liveToken /\ TokenTTL <= trueLeft[k + 1] + ResultTTL - results[k]
        BY <2>4, <3>2 DEF TokensInv, ResultsOk
      <4>2. k + 1 \in RefreshTokens \ {n + 1} /\ k < liveToken'
        BY <1>1, <2>1, <3>2, <4>1, TokenNumbers
      <4> QED
        BY <2>4, <3>2, <4>1, <4>2
    <3> QED
      BY <3>1, <3>2
  <2>6. Grown
    <3>1. liveToken' \in RefreshTokens /\ liveToken <= liveToken'
      BY <1>1, <2>1, TokenNumbers
    <3>2. ASSUME NEW k \in RefreshTokens
          PROVE  results'[k] >= results[k] /\ trueLeft'[k] >= trueLeft[k]
      <4>1. /\ results[k] \in Int /\ trueLeft[k] \in Int
            /\ results[k] <= ResultTTL /\ trueLeft[k] <= TokenTTL
        BY TokenTypes
      <4>2. results'[k] \in {results[k], ResultTTL} /\ trueLeft'[k] \in {trueLeft[k], TokenTTL}
        BY <2>4
      <4> QED
        BY <4>1, <4>2, TokenNumbers
    <3> QED
      BY <2>1, <2>4, <2>5, <3>1, <3>2 DEF Grown
  <2>7. TokenTTL <= trueLeft'[n + 1] + ResultTTL - 1
    BY <2>4, TokenNumbers
  <2>8. CopyOk(g.z, liveToken', trueLeft')
    BY <1>1, <2>1, <2>3, <2>7 DEF CopyOk
  <2>9. Keeps(g, liveToken', results')
    <3>1. results'[n] + s.spent >= ResultTTL /\ n < n + 1
      BY <1>1, <2>4, TokenNumbers
    <3>2. ASSUME NEW k \in s.made, k # n
          PROVE  results'[k] + s.spent >= ResultTTL /\ k < n + 1
      <4>1. results[k] + s.spent >= ResultTTL /\ k < n /\ k \in Int /\ k \in RefreshTokens
        BY <1>1, TokenNumbers DEF WayOk, Keeps, n
      <4> QED
        BY <1>1, <2>4, <3>2, <4>1
    <3> QED
      BY <2>1, <2>3, <3>1, <3>2 DEF Keeps
  <2> QED
    BY <2>3, <2>6, <2>7, <2>8, <2>9 DEF g
<1> QED
  BY <1>2, <1>3

\* A request that gives up.
LEMMA GivesStep ==
    ASSUME TokensInv, Grown, NEW r \in SessionRequests,
           Gives(r) \/ (Goes(r, Resting) /\ UNCHANGED stored)
    PROVE  TokensInv'
<1>1. Goes(r, Resting) /\ stored' \in {stored, [stored EXCEPT !.gone = TRUE]}
  BY DEF Gives, RefreshError, HookError
<1>2. /\ stored' \in Sessions /\ stored'.claims = stored.claims /\ stored'.rt = stored.rt
      /\ stored'.left = stored.left
  BY <1>1, TokenTypes DEF Sessions
<1>3. CopyOk(stored, liveToken', trueLeft')
  BY TokenTypes, CopyGrown DEF TokensInv
<1>4. CopyOk(stored', liveToken', trueLeft')
  BY <1>2, <1>3 DEF CopyOk
<1>5. RequestOk(Resting, liveToken', results', trueLeft')
  BY RestingType DEF RequestOk
<1> QED
  BY <1>1, <1>2, <1>4, <1>5, RestingType, GoesStep

\* A request that goes on with state t at step p.
LEMMA OnFields ==
    ASSUME NEW t \in SesStates, NEW p \in TokenSteps
    PROVE  LET u == [t EXCEPT !.pc = p] IN
           /\ u \in SesStates /\ u.pc = p /\ u.kind = t.kind /\ u.z = t.z /\ u.made = t.made
           /\ u.spent = t.spent /\ u.served = t.served /\ u.save = t.save /\ u.grace = t.grace
  BY DEF SesStates

\* Such a step preserves the invariant.
LEMMA OnStep ==
    ASSUME TokensInv, Grown, NEW r \in SessionRequests, NEW t \in SesStates,
           NEW p \in TokenSteps \ {"idle"},
           Goes(r, [t EXCEPT !.pc = p]), UNCHANGED stored, ~t.served,
           CopyOk(t.z, liveToken', trueLeft'),
           Keeps(t, liveToken', results'),
           t.kind = "app" => p \in {"userinfo", "again", "finish"},
           t.kind = "app" /\ p = "finish" /\ UserinfoInterval >= 0 => t.z.age <= UserinfoInterval + t.spent,
           t.kind = "app" /\ p \in {"userinfo", "again", "finish"} /\ BeforeExpiry >= 0 /\ BeforeExpiry < TokenTTL
             => trueLeft'[t.z.rt] + t.spent + ResultTTL - 1 > BeforeExpiry
    PROVE  TokensInv'
<1> DEFINE u == [t EXCEPT !.pc = p]
<1>1. /\ u \in SesStates /\ u.pc = p /\ u.kind = t.kind /\ u.z = t.z /\ u.made = t.made
      /\ u.spent = t.spent /\ u.served = t.served /\ u.save = t.save /\ u.grace = t.grace
  BY OnFields
<1>2. Goes(r, u)
  OBVIOUS
<1> HIDE DEF u
<1>3. RequestOk(u, liveToken', results', trueLeft')
  BY <1>1 DEF RequestOk, WayOk, Keeps
<1>4. stored' \in Sessions /\ CopyOk(stored', liveToken', trueLeft')
  BY TokenTypes, CopyGrown DEF TokensInv
<1> QED
  BY <1>1, <1>2, <1>3, <1>4, GoesStep

\* A request loads the session.
LEMMA LoadStep ==
    ASSUME TokensInv, NEW r \in SessionRequests, LoadSession(r)
    PROVE  TokensInv'
<1>1. PICK k \in Kinds :
        Goes(r, [Resting EXCEPT !.kind = k, !.z = stored, !.grace = Exchangeable(stored.rt),
                    !.pc = CASE k \in {"app", "info"} -> "expiry"
                             [] k = "peek" -> "interval"
                             [] k = "hook" -> "grant"])
  BY DEF LoadSession
<1>2. UNCHANGED stored /\ Grown /\ CopyOk(stored, liveToken', trueLeft')
  BY OpStays DEF LoadSession
<1>3. PICK p \in {"expiry", "interval", "grant"} :
         /\ p = (CASE k \in {"app", "info"} -> "expiry" [] k = "peek" -> "interval" [] k = "hook" -> "grant")
         /\ k = "app" => p = "expiry"
  BY DEF Kinds
<1> DEFINE e == Exchangeable(stored.rt)
           s == [Resting EXCEPT !.kind = k, !.z = stored, !.grace = e, !.pc = p]
<1>4. Goes(r, s)
  BY <1>1, <1>3, Zenon
<1>8. e \in 0 .. ResultTTL /\ (stored.rt = liveToken \/ results[stored.rt] = e)
  <2>1. stored.rt \in RefreshTokens
    BY TokenTypes DEF Sessions
  <2> QED
    BY <2>1, TokenTypes, TokenNumbers DEF Exchangeable
<1> HIDE DEF e
<1>5. p \in TokenSteps /\ p # "idle" /\ p \notin {"userinfo", "again", "finish"}
  BY <1>3 DEF TokenSteps
<1>6. s \in SesStates /\ s.pc = p /\ s.kind = k /\ s.z = stored /\ s.made = {} /\ s.spent = 0 /\ ~s.served
      /\ s.grace = e
  BY <1>5, <1>8, RestingType, TokenTypes DEF SesStates
<1> HIDE DEF s
<1>9. Keeps(s, liveToken', results')
  <2>1. UNCHANGED <<liveToken, results>>
    BY DEF LoadSession, OpSide
  <2>2. e >= e
    BY <1>8, TokenNumbers
  <2> QED
    BY <1>6, <1>8, <2>1, <2>2 DEF Keeps
<1>7. RequestOk(s, liveToken', results', trueLeft')
  BY <1>2, <1>3, <1>5, <1>6, <1>9 DEF RequestOk, WayOk
<1> QED
  BY <1>2, <1>4, <1>6, <1>7, TokenTypes, GoesStep

\* What a request under way carries over a step in which the OP only adds.
LEMMA Carried ==
    ASSUME TokensInv, Grown, NEW r \in SessionRequests, ses[r].pc # "idle"
    PROVE  WayOk(ses[r], liveToken', results', trueLeft')
  BY TokenTypes, RequestGrown DEF TokensInv, RequestOk

\* The access token is refreshed before it expires.
LEMMA ExpiryStep ==
    ASSUME TokensInv, NEW r \in SessionRequests, RefreshBeforeExpiry(r)
    PROVE  TokensInv'
<1> DEFINE s == ses[r]
<1>1. s.pc = "expiry" /\ s \in SesStates /\ s.z \in Sessions /\ WayOk(s, liveToken, results, trueLeft) /\ ~s.served
      /\ s.spent \in Int /\ s.spent >= 0 /\ s.z.rt \in RefreshTokens /\ "userinfo" \in TokenSteps \ {"idle"}
  BY WayKnown DEF RefreshBeforeExpiry, WayOk, TokenSteps
<1>2. CASE ~ExpiryDue(s) /\ Goes(r, [s EXCEPT !.pc = "userinfo"]) /\ UNCHANGED <<stored, OpSide>>
  <2>1. Grown /\ WayOk(s, liveToken', results', trueLeft')
    BY <1>1, <1>2, OpStays, Carried
  <2>2. BeforeExpiry >= 0 => trueLeft'[s.z.rt] + s.spent + ResultTTL - 1 > BeforeExpiry
    <3>1. BeforeExpiry >= 0 => s.z.left > BeforeExpiry
      BY <1>1, <1>2, TokenNumbers DEF ExpiryDue, Sessions
    <3>2. s.z.left <= trueLeft'[s.z.rt] + ResultTTL - 1 /\ s.z.left \in Int /\ trueLeft'[s.z.rt] \in Int
      BY <1>1, <2>1, GrownTypes, TokenNumbers DEF WayOk, CopyOk, Sessions
    <3>3. BeforeExpiry \in Int /\ ResultTTL \in Int /\ s.spent \in Int /\ s.spent >= 0
      BY <1>1, TokenNumbers
    <3> HIDE DEF s
    <3> QED
      BY <3>1, <3>2, <3>3
  <2> HIDE DEF s
  <2> QED
    BY <1>1, <1>2, <2>1, <2>2, OnStep DEF WayOk
<1>3. CASE /\ GrantCached(s) \/ GrantNew(s)
           /\ Goes(r, [Granted(s) EXCEPT !.pc = "userinfo"]) /\ UNCHANGED stored
  <2> DEFINE g == Granted(s)
  <2>1. /\ Grown /\ g \in SesStates /\ g.pc = s.pc /\ g.kind = s.kind /\ g.spent = s.spent /\ g.served = s.served
        /\ g.z \in Sessions /\ CopyOk(g.z, liveToken', trueLeft')
        /\ Keeps(g, liveToken', results')
        /\ TokenTTL <= trueLeft'[g.z.rt] + ResultTTL - 1
    BY <1>1, <1>3, GrantGives
  <2> HIDE DEF g
  <2>2. trueLeft'[g.z.rt] \in Int
    BY <2>1, GrownTypes DEF Sessions
  <2>3. BeforeExpiry < TokenTTL => trueLeft'[g.z.rt] + g.spent + ResultTTL - 1 > BeforeExpiry
    BY <1>1, <2>1, <2>2, TokenNumbers
  <2>4. Goes(r, [g EXCEPT !.pc = "userinfo"])
    BY <1>3 DEF g
  <2> QED
    BY <1>1, <1>3, <2>1, <2>3, <2>4, OnStep
<1>4. CASE GrantFails(s) /\ Gives(r)
  BY <1>4, OpStays, GivesStep DEF GrantFails
<1> QED
  BY <1>2, <1>3, <1>4 DEF RefreshBeforeExpiry

\* The steps that only the info hook and the refresh hook make.
LEMMA HookStep ==
    ASSUME TokensInv, NEW r \in SessionRequests, InfoInterval(r) \/ HookGrant(r)
    PROVE  TokensInv'
<1> DEFINE s == ses[r]
<1>1. /\ s.pc \in {"interval", "grant"} /\ s \in SesStates /\ WayOk(s, liveToken, results, trueLeft)
      /\ ~s.served /\ s.kind # "app"
  BY WayKnown DEF InfoInterval, HookGrant, WayOk
<1>2. ASSUME NEW p \in {"finish", "userinfo2"}, Goes(r, [s EXCEPT !.pc = p]), UNCHANGED <<stored, OpSide>>
      PROVE  TokensInv'
  <2>1. Grown /\ WayOk(s, liveToken', results', trueLeft') /\ p \in TokenSteps \ {"idle"}
    BY <1>1, <1>2, OpStays, Carried DEF TokenSteps
  <2> HIDE DEF s
  <2> QED
    BY <1>1, <1>2, <2>1, OnStep DEF WayOk
<1>3. ASSUME NEW p \in {"finish", "userinfo2"}, GrantCached(s) \/ GrantNew(s),
             Goes(r, [Granted(s) EXCEPT !.pc = p]), UNCHANGED stored
      PROVE  TokensInv'
  <2> DEFINE g == Granted(s)
  <2>1. /\ Grown /\ g \in SesStates /\ g.kind = s.kind /\ g.served = s.served
        /\ CopyOk(g.z, liveToken', trueLeft') /\ p \in TokenSteps \ {"idle"}
        /\ Keeps(g, liveToken', results')
    BY <1>1, <1>3, GrantGives DEF TokenSteps
  <2> HIDE DEF g
  <2>2. Goes(r, [g EXCEPT !.pc = p])
    BY <1>3 DEF g
  <2> QED
    BY <1>1, <1>3, <2>1, <2>2, OnStep
<1>4. CASE GrantFails(s) /\ Gives(r)
  BY <1>4, OpStays, GivesStep DEF GrantFails
<1>5. CASE InfoInterval(r)
  <2>1. PICK p \in {"finish", "userinfo2"} : p = IF s.kind = "peek" THEN "finish" ELSE "userinfo2"
    OBVIOUS
  <2> QED
    BY <1>2, <1>3, <1>4, <1>5, <2>1 DEF InfoInterval
<1>6. CASE HookGrant(r)
  BY <1>3, <1>4, <1>6 DEF HookGrant
<1> QED
  BY <1>5, <1>6

\* Where a request goes on from the claims.
LEMMA AfterPlace ==
    ASSUME NEW s \in SesStates
    PROVE  After(s) \in {"finish", "interval"} /\ (s.kind = "app" => After(s) = "finish")
  BY DEF After

\* A request that has its claims again, at the first attempt or the second.
LEMMA RetrievedStep ==
    ASSUME TokensInv, NEW r \in SessionRequests, ses[r].pc \in {"userinfo", "userinfo2", "again", "again2"},
           Retrieved(r), UNCHANGED <<stored, OpSide>>
    PROVE  TokensInv'
<1> DEFINE t == ses[r]
           y == [t.z EXCEPT !.claims = TRUE, !.age = 0]
           u == [t EXCEPT !.z = y, !.save = TRUE]
           p == After(t)
<1>8. /\ Grown /\ WayOk(t, liveToken', results', trueLeft') /\ ~t.served /\ t \in SesStates
      /\ t.kind = "app" => t.pc \in {"userinfo", "again"}
  BY OpStays, Carried, WayKnown DEF WayOk
<1>1. t.z \in Sessions /\ t.spent \in Int /\ t.spent >= 0 /\ 0 \in 0 .. AgeMax
  BY <1>8, TokenNumbers DEF SesStates
<1>2. y \in Sessions /\ y.claims = TRUE /\ y.age = 0 /\ y.rt = t.z.rt /\ y.left = t.z.left
  BY <1>1 DEF Sessions
<1> HIDE DEF y
<1>3. /\ u \in SesStates /\ u.z = y /\ u.kind = t.kind /\ u.made = t.made /\ u.spent = t.spent
      /\ u.served = t.served /\ u.grace = t.grace /\ u.save
  BY <1>2, <1>8 DEF SesStates
<1>4. Goes(r, [u EXCEPT !.pc = p])
  BY DEF Retrieved, WithClaims, y
<1>5. p \in TokenSteps \ {"idle"} /\ (t.kind = "app" => p = "finish")
  BY <1>8, AfterPlace DEF TokenSteps
<1> HIDE DEF u, p, t
<1>6. CopyOk(u.z, liveToken', trueLeft') /\ Keeps(u, liveToken', results')
  BY <1>2, <1>3, <1>8 DEF WayOk, CopyOk, Keeps
<1>7. UserinfoInterval >= 0 => u.z.age <= UserinfoInterval + u.spent
  BY <1>1, <1>2, <1>3, TokenNumbers
<1> QED
  BY <1>2, <1>3, <1>4, <1>5, <1>6, <1>7, <1>8, OnStep DEF WayOk

\* The claims are retrieved again, with a grant if the access token is refused.
LEMMA ClaimsStep ==
    ASSUME TokensInv, NEW r \in SessionRequests, RefreshClaims(r) \/ RetrieveAgain(r) \/ UserinfoFail(r)
    PROVE  TokensInv'
<1> DEFINE s == ses[r]
<1>1. CASE Retrieved(r) /\ s.pc \in {"userinfo", "userinfo2", "again", "again2"} /\ UNCHANGED <<stored, OpSide>>
  BY <1>1, RetrievedStep
<1>2. CASE Gives(r) /\ UNCHANGED OpSide
  BY <1>2, OpStays, GivesStep
<1>3. CASE RefreshClaims(r)
  <2>1. /\ s.pc \in {"userinfo", "userinfo2"} /\ s \in SesStates /\ WayOk(s, liveToken, results, trueLeft)
        /\ ~s.served /\ s.spent \in Int /\ s.spent >= 0
        /\ s.kind = "app" => s.pc = "userinfo"
    BY <1>3, WayKnown DEF RefreshClaims, WayOk
  <2>2. CASE ~ClaimsDue(s) /\ Goes(r, [s EXCEPT !.pc = After(s)]) /\ UNCHANGED <<stored, OpSide>>
    <3> DEFINE p == After(s)
    <3>1. Grown /\ WayOk(s, liveToken', results', trueLeft')
      BY <2>1, <2>2, OpStays, Carried
    <3>2. p \in TokenSteps \ {"idle"} /\ (s.kind = "app" => p = "finish")
      BY <2>1, AfterPlace DEF TokenSteps
    <3>3. UserinfoInterval >= 0 => s.z.age <= UserinfoInterval + s.spent
      <4>1. s.z.age \in Int
        BY <2>1, TokenNumbers DEF SesStates, Sessions
      <4> QED
        BY <2>1, <2>2, <4>1, TokenNumbers DEF ClaimsDue
    <3>4. Goes(r, [s EXCEPT !.pc = p])
      BY <2>2
    <3> HIDE DEF s, p
    <3> QED
      BY <2>1, <2>2, <3>1, <3>2, <3>3, <3>4, OnStep DEF WayOk
  <2>3. ASSUME NEW p \in {"again", "again2"}, s.kind = "app" => p = "again", GrantCached(s) \/ GrantNew(s),
               Goes(r, [Granted(s) EXCEPT !.pc = p]), UNCHANGED stored
        PROVE  TokensInv'
    <3> DEFINE g == Granted(s)
    <3>1. /\ Grown /\ g \in SesStates /\ g.pc = s.pc /\ g.kind = s.kind /\ g.spent = s.spent /\ g.served = s.served
          /\ g.z \in Sessions /\ CopyOk(g.z, liveToken', trueLeft')
          /\ Keeps(g, liveToken', results')
          /\ TokenTTL <= trueLeft'[g.z.rt] + ResultTTL - 1
      BY <2>1, <2>3, GrantGives
    <3>2. Goes(r, [g EXCEPT !.pc = p]) /\ p \in TokenSteps \ {"idle"}
      BY <2>3 DEF TokenSteps
    <3> HIDE DEF g, s
    <3>3. trueLeft'[g.z.rt] \in Int
      BY <3>1, GrownTypes DEF Sessions
    <3>4. BeforeExpiry < TokenTTL => trueLeft'[g.z.rt] + g.spent + ResultTTL - 1 > BeforeExpiry
      BY <2>1, <3>1, <3>3, TokenNumbers
    <3> QED
      BY <2>1, <2>3, <3>1, <3>2, <3>4, OnStep
  <2>4. PICK p \in {"again", "again2"} : p = (IF s.pc = "userinfo" THEN "again" ELSE "again2")
    OBVIOUS
  <2> QED
    BY <1>1, <1>2, <1>3, <2>1, <2>2, <2>3, <2>4 DEF RefreshClaims, GrantFails
<1>4. CASE RetrieveAgain(r)
  BY <1>1, <1>4 DEF RetrieveAgain
<1>5. CASE UserinfoFail(r)
  BY <1>2, <1>5 DEF UserinfoFail
<1> QED
  BY <1>3, <1>4, <1>5

\* The session is saved and the request ends.
LEMMA SaveStep ==
    ASSUME TokensInv, NEW r \in SessionRequests, SaveSession(r) \/ EndRequest(r)
    PROVE  TokensInv'
<1> DEFINE s == ses[r]
<1>1. UNCHANGED OpSide /\ Grown
  BY OpStays DEF SaveSession, EndRequest
<1>2. CASE Goes(r, Resting) /\ UNCHANGED stored
  BY <1>1, <1>2, GivesStep
<1>3. CASE s.pc = "finish" /\ ~s.served /\ stored' \in {stored, s.z} /\ Goes(r, [s EXCEPT !.served = TRUE])
  <2> DEFINE u == [s EXCEPT !.served = TRUE]
  <2>1. s \in SesStates /\ s.z \in Sessions /\ WayOk(s, liveToken', results', trueLeft')
    BY <1>1, <1>3, WayKnown, Carried
  <2>2. /\ u \in SesStates /\ u.pc = s.pc /\ u.kind = s.kind /\ u.z = s.z /\ u.made = s.made
        /\ u.spent = s.spent /\ u.save = s.save /\ u.grace = s.grace
    BY <2>1 DEF SesStates
  <2>3. stored' \in Sessions /\ CopyOk(stored', liveToken', trueLeft')
    BY <1>1, <1>3, <2>1, OpStays, TokenTypes DEF WayOk
  <2>4. Goes(r, u)
    BY <1>3
  <2> HIDE DEF u, s
  <2>5. RequestOk(u, liveToken', results', trueLeft')
    BY <1>3, <2>1, <2>2 DEF RequestOk, WayOk, Keeps
  <2> QED
    BY <1>1, <2>2, <2>3, <2>4, <2>5, GoesStep
<1> QED
  BY <1>2, <1>3 DEF SaveSession, EndRequest, HookError

\* What time does to a copy of the session.
LEMMA OlderFields ==
    ASSUME NEW z \in Sessions
    PROVE  /\ Older(z) \in Sessions /\ Older(z).rt = z.rt /\ Older(z).claims = z.claims
           /\ Older(z).left = (IF z.left >= 1 THEN z.left - 1 ELSE 0)
           /\ Older(z).age <= z.age + 1
<1>1. /\ z.left \in Int /\ z.left >= 0 /\ z.left <= TokenTTL /\ z.age \in Int /\ z.age >= 0 /\ z.age <= AgeMax
      /\ AgeMax \in Int /\ AgeMax >= 0
  BY TokenNumbers DEF Sessions
<1>2. Max({z.left - 1, 0}) = (IF z.left >= 1 THEN z.left - 1 ELSE 0) /\ Max({z.left - 1, 0}) \in 0 .. TokenTTL
  BY <1>1, MaxTwo, TokenNumbers
<1>3. Min({z.age + 1, AgeMax}) \in 0 .. AgeMax /\ Min({z.age + 1, AgeMax}) <= z.age + 1
  BY <1>1, MinTwo
<1>4. Older(z) = [z EXCEPT !.left = Max({z.left - 1, 0}), !.age = Min({z.age + 1, AgeMax})]
  BY DEF Older
<1> QED
  BY <1>2, <1>3, <1>4 DEF Sessions

\* Time goes by for the session, its copies and the cached results.
LEMMA TokensTickStep ==
    ASSUME TokensInv, TokensTick
    PROVE  TokensInv'
<1>1. /\ stored' = Older(stored) /\ liveToken' = liveToken
      /\ results' = [n \in RefreshTokens |-> Max({results[n] - 1, 0})]
      /\ trueLeft' = [n \in RefreshTokens |-> Max({trueLeft[n] - 1, 0})]
      /\ ses' = [r \in SessionRequests |-> IF ses[r].pc = "idle" THEN ses[r]
                                           ELSE [ses[r] EXCEPT !.spent = @ + 1, !.z = Older(@), !.grace = Max({@ - 1, 0})]]
      /\ \A r \in SessionRequests : ses[r].pc = "idle" \/ ses[r].spent < RequestTime
  BY DEF TokensTick
<1>2. ASSUME NEW n \in RefreshTokens
      PROVE  /\ results'[n] = (IF results[n] >= 1 THEN results[n] - 1 ELSE 0) /\ results'[n] \in 0 .. ResultTTL
             /\ trueLeft'[n] = (IF trueLeft[n] >= 1 THEN trueLeft[n] - 1 ELSE 0) /\ trueLeft'[n] \in 0 .. TokenTTL
             /\ results'[n] \in Int /\ results'[n] >= results[n] - 1 /\ results[n] \in Int
             /\ trueLeft'[n] \in Int /\ trueLeft'[n] >= trueLeft[n] - 1 /\ trueLeft[n] \in Int
  <2>1. /\ results[n] \in Int /\ results[n] >= 0 /\ results[n] <= ResultTTL
        /\ trueLeft[n] \in Int /\ trueLeft[n] >= 0 /\ trueLeft[n] <= TokenTTL
    BY TokenTypes
  <2>2. /\ Max({results[n] - 1, 0}) = IF results[n] - 1 >= 0 THEN results[n] - 1 ELSE 0
        /\ Max({trueLeft[n] - 1, 0}) = IF trueLeft[n] - 1 >= 0 THEN trueLeft[n] - 1 ELSE 0
    <3>1. results[n] - 1 \in Int /\ trueLeft[n] - 1 \in Int /\ 0 \in Int
      BY <2>1
    <3> QED
      BY <3>1, MaxTwo
  <2>3. results'[n] = Max({results[n] - 1, 0}) /\ trueLeft'[n] = Max({trueLeft[n] - 1, 0})
    BY <1>1
  <2>4. ResultTTL \in Nat /\ TokenTTL \in Nat
    BY TokenNumbers
  <2>5. results'[n] = (IF results[n] >= 1 THEN results[n] - 1 ELSE 0) /\ results'[n] \in 0 .. ResultTTL
        /\ results'[n] >= results[n] - 1
    BY <2>1, <2>2, <2>3, <2>4
  <2>6. trueLeft'[n] = (IF trueLeft[n] >= 1 THEN trueLeft[n] - 1 ELSE 0) /\ trueLeft'[n] \in 0 .. TokenTTL
        /\ trueLeft'[n] >= trueLeft[n] - 1
    BY <2>1, <2>2, <2>3, <2>4
  <2> QED
    BY <2>1, <2>5, <2>6
<1>3. results' \in [RefreshTokens -> 0 .. ResultTTL] /\ trueLeft' \in [RefreshTokens -> 0 .. TokenTTL]
  BY <1>1, <1>2
<1>4. ASSUME NEW z \in Sessions, CopyOk(z, liveToken, trueLeft)
      PROVE  CopyOk(Older(z), liveToken', trueLeft')
  <2>1. z.rt \in RefreshTokens /\ z.left \in Int /\ z.left >= 0
    BY TokenNumbers DEF Sessions
  <2>2. /\ trueLeft[z.rt] \in Int /\ trueLeft[z.rt] >= 0
        /\ trueLeft'[z.rt] = (IF trueLeft[z.rt] >= 1 THEN trueLeft[z.rt] - 1 ELSE 0)
    BY <1>2, <2>1, TokenTypes
  <2>3. Older(z).left <= trueLeft'[z.rt] + ResultTTL - 1
    BY <1>4, <2>1, <2>2, OlderFields, TokenNumbers DEF CopyOk
  <2> QED
    BY <1>1, <1>4, <2>3, OlderFields DEF CopyOk
<1>5. ResultsOk(liveToken', results', trueLeft')
  <2>7. ASSUME NEW n \in RefreshTokens, n + 1 < liveToken'
        PROVE  results'[n] <= results'[n + 1]
    <3>3. n + 1 < liveToken /\ liveToken \in RefreshTokens /\ n \in Int
      BY <1>1, <2>7, TokenTypes
    <3>1. n + 1 \in RefreshTokens /\ results[n] <= results[n + 1]
      <4>1. n + 1 \in RefreshTokens
        BY <3>3, TokenNumbers
      <4> QED
        BY <3>3, <4>1 DEF TokensInv, ResultsOk
    <3>2. /\ results'[n] = (IF results[n] >= 1 THEN results[n] - 1 ELSE 0)
          /\ results'[n + 1] = (IF results[n + 1] >= 1 THEN results[n + 1] - 1 ELSE 0)
          /\ results[n] \in Int /\ results[n + 1] \in Int
      BY <1>2, <3>1
    <3> QED
      BY <3>1, <3>2
  <2> SUFFICES ASSUME NEW n \in RefreshTokens, results'[n] > 0
               PROVE  n < liveToken' /\ TokenTTL <= trueLeft'[n + 1] + ResultTTL - results'[n]
    BY <2>7 DEF ResultsOk
  <2>1. results[n] \in Int /\ results[n] > 0 /\ results'[n] = results[n] - 1
    BY <1>2, TokenTypes
  <2>2. n < liveToken /\ TokenTTL <= trueLeft[n + 1] + ResultTTL - results[n]
    BY <2>1 DEF TokensInv, ResultsOk
  <2>3. n + 1 \in RefreshTokens
    BY <2>2, TokenTypes, TokenNumbers
  <2>4. trueLeft[n + 1] \in Int /\ trueLeft'[n + 1] \in Int /\ trueLeft'[n + 1] >= trueLeft[n + 1] - 1
    BY <1>2, <2>3
  <2>5. ResultTTL \in Int /\ TokenTTL \in Int
    BY TokenNumbers
  <2>6. TokenTTL <= trueLeft'[n + 1] + ResultTTL - results'[n]
    BY <2>1, <2>2, <2>4, <2>5
  <2> QED
    BY <1>1, <2>2, <2>6
<1>6. ASSUME NEW r \in SessionRequests
      PROVE  ses'[r] \in SesStates /\ RequestOk(ses'[r], liveToken', results', trueLeft')
  <2> DEFINE s == ses[r]
             y == Older(s.z)
             m == Max({s.grace - 1, 0})
             u == [s EXCEPT !.spent = @ + 1, !.z = y, !.grace = m]
  <2>1. s \in SesStates
    BY TokenTypes
  <2>2. CASE s.pc = "idle"
    BY <1>1, <2>1, <2>2 DEF TokensInv, RequestOk
  <2>3. CASE s.pc # "idle"
    <3>1. /\ s.z \in Sessions /\ s.z.rt \in RefreshTokens /\ WayOk(s, liveToken, results, trueLeft)
          /\ s.spent \in Int /\ s.spent >= 0 /\ s.spent < RequestTime /\ s.made \subseteq RefreshTokens
      BY <1>1, <2>3, WayKnown
    <3>2. y \in Sessions /\ y.rt = s.z.rt /\ y.age <= s.z.age + 1 /\ CopyOk(y, liveToken', trueLeft')
      BY <1>4, <3>1, OlderFields DEF WayOk
    <3>3. s.spent + 1 \in 0 .. RequestTime
      BY <3>1, TokenNumbers
    <3>4. ses'[r] = u
      BY <1>1, <2>3
    <3>9. s.grace \in Int /\ s.grace >= 0 /\ s.grace <= ResultTTL
      BY <2>1, TokenNumbers DEF SesStates
    <3>10. m = (IF s.grace - 1 >= 0 THEN s.grace - 1 ELSE 0)
      <4>1. s.grace - 1 \in Int /\ 0 \in Int
        BY <3>9
      <4> QED
        BY <4>1, MaxTwo
    <3>11. m \in 0 .. ResultTTL
      BY <3>9, <3>10, TokenNumbers
    <3> HIDE DEF y, m
    <3>5. /\ u \in SesStates /\ u.pc = s.pc /\ u.kind = s.kind /\ u.z = y /\ u.made = s.made
          /\ u.spent = s.spent + 1 /\ u.served = s.served /\ u.save = s.save /\ u.grace = m
      BY <2>1, <3>2, <3>3, <3>11 DEF SesStates
    <3> HIDE DEF u
    <3>6. \A n \in u.made : results'[n] + u.spent >= ResultTTL /\ n < u.z.rt
      <4> TAKE n \in u.made
      <4>1. n \in RefreshTokens /\ results[n] + s.spent >= ResultTTL /\ n < u.z.rt
        BY <3>1, <3>2, <3>5 DEF WayOk, Keeps
      <4>2. results[n] \in Int /\ results'[n] >= results[n] - 1 /\ results'[n] \in Int
        BY <1>2, <4>1
      <4> HIDE DEF s
      <4> QED
        BY <3>1, <3>5, <4>1, <4>2, TokenNumbers
    <3>7. s.z.age <= UserinfoInterval + s.spent => u.z.age <= UserinfoInterval + u.spent
      <4>1. s.z.age \in Int /\ y.age \in Int
        BY <3>1, <3>2, TokenNumbers DEF Sessions
      <4>2. u.z.age <= s.z.age + 1 /\ u.z.age \in Int /\ u.spent = s.spent + 1 /\ s.spent \in Int /\ UserinfoInterval \in Int
        BY <3>1, <3>2, <3>5, <4>1, TokenNumbers
      <4> HIDE DEF s
      <4> QED
        BY <4>1, <4>2
    <3>8. trueLeft[s.z.rt] + s.spent + ResultTTL - 1 > BeforeExpiry
            => trueLeft'[u.z.rt] + u.spent + ResultTTL - 1 > BeforeExpiry
      <4>1. trueLeft[s.z.rt] \in Int /\ trueLeft'[s.z.rt] >= trueLeft[s.z.rt] - 1 /\ trueLeft'[s.z.rt] \in Int
        BY <1>2, <3>1
      <4>2. u.z.rt = s.z.rt /\ u.spent = s.spent + 1 /\ s.spent \in Int /\ ResultTTL \in Int /\ BeforeExpiry \in Int
        BY <3>1, <3>2, <3>5, TokenNumbers
      <4> HIDE DEF s
      <4> QED
        BY <4>1, <4>2
    <3>12. u.z.rt = liveToken' \/ results'[u.z.rt] >= u.grace
      <4>1. /\ results[s.z.rt] \in Int /\ results[s.z.rt] >= 0
            /\ results'[s.z.rt] = (IF results[s.z.rt] >= 1 THEN results[s.z.rt] - 1 ELSE 0)
        BY <1>2, <3>1, TokenTypes
      <4>2. s.z.rt = liveToken \/ results[s.z.rt] >= s.grace
        BY <3>1 DEF WayOk, Keeps
      <4>3. u.z.rt = s.z.rt /\ u.grace = m /\ liveToken' = liveToken
        BY <1>1, <3>2, <3>5
      <4>4. results[s.z.rt] >= s.grace => results'[s.z.rt] >= m
        <5> HIDE DEF s
        <5> QED
          BY <3>9, <3>10, <4>1
      <4> QED
        BY <4>2, <4>3, <4>4, Zenon
    <3>13. Keeps(u, liveToken', results')
      BY <3>1, <3>5, <3>6, <3>12 DEF Keeps, WayOk
    <3> QED
      BY <2>3, <3>1, <3>2, <3>4, <3>5, <3>7, <3>8, <3>13 DEF RequestOk, WayOk
  <2> QED
    BY <2>2, <2>3
<1>7. stored' \in Sessions /\ CopyOk(stored', liveToken', trueLeft')
  BY <1>1, <1>4, TokenTypes, OlderFields DEF TokensInv
<1>8. ses' \in [SessionRequests -> SesStates]
  <2>1. ses' = [r \in SessionRequests |-> ses'[r]]
    BY <1>1
  <2> QED
    BY <1>6, <2>1
<1>9. SessionTokensTypeOK'
  BY <1>1, <1>3, <1>7, <1>8, TokenTypes DEF SessionTokensTypeOK, SesStates
<1> QED
  BY <1>5, <1>6, <1>7, <1>9 DEF TokensInv

\* Every step of a request or of the clock preserves the invariant.
LEMMA TokensStep ==
    ASSUME TokensInv, [SessionTokensNext]_tokenVars
    PROVE  TokensInv'
<1>1. CASE UNCHANGED tokenVars
  BY <1>1 DEF tokenVars, TokensInv, SessionTokensTypeOK
<1>2. CASE SessionTokensNext
  BY <1>2, LoadStep, ExpiryStep, HookStep, ClaimsStep, SaveStep, TokensTickStep DEF SessionTokensNext
<1> QED
  BY <1>1, <1>2

\* The invariant of the session's tokens always holds, for every lifetime and
\* any number of requests.
THEOREM TokensInvariance == SessionTokensSpec => []TokensInv
<1>1. TokensInv /\ [SessionTokensNext]_tokenVars => TokensInv'
  BY TokensStep
<1> QED
  BY <1>1, TokensInitInv, PTL DEF SessionTokensSpec

\* Where OIDCRefreshAccessTokenBeforeExpiry is shorter than the lifetime of a
\* token, every request that passes to the application has an access token
\* that is good for that long, and claims no older than
\* OIDCUserInfoRefreshInterval, up to the time that the request takes and
\* that a result was cached.
THEOREM AlwaysGoodForApp ==
    ASSUME BeforeExpiry < TokenTTL
    PROVE  SessionTokensSpec => []GoodForApp
<1>1. ASSUME TokensInv
      PROVE  GoodForApp
  <2>1. ASSUME NEW r \in SessionRequests, ses[r].kind = "app", ses[r].served
        PROVE  ses[r].pc = "finish" /\ WayOk(ses[r], liveToken, results, trueLeft)
    <3>1. RequestOk(ses[r], liveToken, results, trueLeft)
      BY <1>1 DEF TokensInv
    <3> QED
      BY <2>1, <3>1 DEF RequestOk, WayOk
  <2> QED
    BY <2>1 DEF GoodForApp, TokenGoodForApp, ClaimsFreshForApp, WayOk, CopyOk
<1> QED
  BY <1>1, TokensInvariance, PTL

\* Only the clock takes something away.
LEMMA GrownOrTick ==
    ASSUME TokensInv, SessionTokensNext
    PROVE  Grown \/ TokensTick
<1> SUFFICES ASSUME NEW r \in SessionRequests,
                    \/ LoadSession(r) \/ RefreshBeforeExpiry(r) \/ RefreshClaims(r) \/ RetrieveAgain(r)
                    \/ UserinfoFail(r) \/ InfoInterval(r) \/ HookGrant(r) \/ SaveSession(r) \/ EndRequest(r)
             PROVE  Grown
  BY DEF SessionTokensNext
<1>1. CASE UNCHANGED OpSide
  BY <1>1, OpStays
<1>2. CASE ses[r].pc # "idle" /\ (GrantCached(ses[r]) \/ GrantNew(ses[r]))
  BY <1>2, GrantGives
<1> QED
  BY <1>1, <1>2 DEF LoadSession, RefreshBeforeExpiry, RefreshClaims, RetrieveAgain, UserinfoFail,
                    InfoInterval, HookGrant, SaveSession, EndRequest, GrantFails

\* A request that is served has just come to save.
LEMMA ServedBySave ==
    ASSUME TokensInv, SessionTokensNext, NEW r \in SessionRequests, ses[r].pc # "idle",
           ~ses[r].served, ses'[r].served
    PROVE  SaveSession(r)
<1>1. ses[r] \in SesStates /\ ses \in [SessionRequests -> SesStates]
  BY TokenTypes
<1>2. CASE TokensTick
  <2>1. PICK n, z, e : ses'[r] = [ses[r] EXCEPT !.spent = n, !.z = z, !.grace = e]
    BY <1>2 DEF TokensTick
  <2>2. ses'[r].served = ses[r].served
    BY <1>1, <2>1 DEF SesStates
  <2> QED
    BY <2>2
<1>3. ASSUME NEW u \in SessionRequests, NEW t, Goes(u, t), u # r
      PROVE  FALSE
  BY <1>1, <1>3 DEF Goes
<1>4. ASSUME NEW t \in SesStates, NEW p, ~t.served, Goes(r, [t EXCEPT !.pc = p])
      PROVE  FALSE
  <2>1. ses'[r] = [t EXCEPT !.pc = p]
    BY <1>1, <1>4 DEF Goes
  <2> QED
    BY <1>4, <2>1 DEF SesStates
<1>5. ASSUME NEW p, Goes(r, [Granted(ses[r]) EXCEPT !.pc = p]), GrantCached(ses[r]) \/ GrantNew(ses[r])
      PROVE  FALSE
  <2>1. Granted(ses[r]) \in SesStates /\ ~Granted(ses[r]).served
    BY <1>5, GrantGives
  <2> QED
    BY <1>4, <1>5, <2>1
<1>6. ASSUME Goes(r, Resting)
      PROVE  FALSE
  BY <1>1, <1>6, RestingType DEF Goes
<1>7. ASSUME Gives(r)
      PROVE  FALSE
  BY <1>6, <1>7 DEF Gives, RefreshError, HookError
<1>8. ASSUME Retrieved(r)
      PROVE  FALSE
  <2>1. ses'[r] = [WithClaims(ses[r]) EXCEPT !.pc = After(ses[r])]
    BY <1>1, <1>8 DEF Retrieved, Goes
  <2>2. PICK z : WithClaims(ses[r]) = [ses[r] EXCEPT !.z = z, !.save = TRUE]
    BY DEF WithClaims
  <2> QED
    BY <1>1, <2>1, <2>2 DEF SesStates
<1>9. ASSUME NEW u \in SessionRequests, u # r,
             \/ LoadSession(u) \/ RefreshBeforeExpiry(u) \/ RefreshClaims(u) \/ RetrieveAgain(u)
             \/ UserinfoFail(u) \/ InfoInterval(u) \/ HookGrant(u) \/ SaveSession(u) \/ EndRequest(u)
      PROVE  FALSE
  BY <1>3, <1>9 DEF LoadSession, RefreshBeforeExpiry, RefreshClaims, RetrieveAgain, UserinfoFail,
                    InfoInterval, HookGrant, SaveSession, EndRequest, Gives, RefreshError, HookError, Retrieved
<1>10. CASE LoadSession(r)
  BY <1>10 DEF LoadSession
<1>11. CASE RefreshBeforeExpiry(r)
  BY <1>1, <1>4, <1>5, <1>7, <1>11 DEF RefreshBeforeExpiry
<1>12. CASE RefreshClaims(r)
  BY <1>1, <1>4, <1>5, <1>7, <1>8, <1>12 DEF RefreshClaims
<1>13. CASE InfoInterval(r) \/ HookGrant(r)
  BY <1>1, <1>4, <1>5, <1>7, <1>13 DEF InfoInterval, HookGrant
<1>14. CASE RetrieveAgain(r) \/ UserinfoFail(r) \/ EndRequest(r)
  BY <1>6, <1>7, <1>8, <1>14 DEF RetrieveAgain, UserinfoFail, EndRequest
<1> QED
  BY <1>2, <1>9, <1>10, <1>11, <1>12, <1>13, <1>14 DEF SessionTokensNext

\* A refresh token that a request has rotated is never lost by its end, for
\* however long it takes, unless it outlasts OIDC_REFRESH_CACHE_TTL on a way
\* that does not save; and a save of an older copy leaves a token that is live
\* or can be exchanged, whichever of several concurrent requests saves last.
THEOREM RotationsKept == SessionTokensSpec => RotationRecoverable
<1> DEFINE A == \A r \in SessionRequests :
                  (/\ ses[r].pc # "idle" /\ ~ses[r].served /\ ~stored'.gone
                   /\ ses'[r].pc = "idle" \/ ses'[r].served)
                     => RotationKept(r) /\ SaveUsable(r)
<1>1. ASSUME TokensInv, [SessionTokensNext]_tokenVars
      PROVE  [A]_tokenVars
  <2> SUFFICES ASSUME SessionTokensNext, NEW r \in SessionRequests, ses[r].pc # "idle", ~ses[r].served,
                      ses'[r].pc = "idle" \/ ses'[r].served
               PROVE  RotationKept(r) /\ SaveUsable(r)
    BY <1>1
  <2> DEFINE s == ses[r]
  <2>1. s \in SesStates /\ s.made \subseteq RefreshTokens /\ s.z \in Sessions /\ s.z.rt \in RefreshTokens
        /\ s.spent \in Int
    BY <1>1, WayKnown
  <2>2. CASE TokensTick
    <3>1. PICK n, z, e : ses'[r] = [s EXCEPT !.spent = n, !.z = z, !.grace = e]
      BY <2>2 DEF TokensTick
    <3>2. ses'[r].pc = s.pc /\ ses'[r].served = s.served
      BY <2>1, <3>1 DEF SesStates
    <3> QED
      BY <3>2
  <2>3. CASE Grown
    <3>1. Keeps(s, liveToken', results')
      BY <1>1, <2>3, Carried DEF WayOk
    <3>2. \A n \in RefreshTokens : results'[n] \in Int
      BY <1>1, <2>3, GrownTypes
    <3>3. SaveUsable(r)
      <4> SUFFICES ASSUME stored' = s.z, s.grace > 0
                   PROVE  stored'.rt = liveToken' \/ results'[stored'.rt] > 0
        BY DEF SaveUsable
      <4>1. s.grace \in Int /\ results'[s.z.rt] \in Int
        BY <2>1, <3>2, TokenNumbers DEF SesStates
      <4>2. s.z.rt = liveToken' \/ results'[s.z.rt] >= s.grace
        BY <3>1 DEF Keeps
      <4> HIDE DEF s
      <4> QED
        BY <4>1, <4>2
    <3>4. RotationKept(r)
      <4> SUFFICES ASSUME NEW n \in s.made
                   PROVE  \/ stored'.rt > n
                          \/ results'[n] > 0
                          \/ s.spent >= ResultTTL /\ (s.kind = "peek" \/ ~ses'[r].served)
        BY DEF RotationKept
      <4>1. results'[n] + s.spent >= ResultTTL /\ n < s.z.rt /\ s.save /\ n \in RefreshTokens
        BY <2>1, <3>1 DEF Keeps
      <4>2. results'[n] \in Int /\ n \in Int /\ s.z.rt \in Int
        BY <2>1, <3>2, <4>1, TokenNumbers
      <4>3. results'[n] > 0 \/ s.spent >= ResultTTL
        <5> HIDE DEF s
        <5> QED
          BY <2>1, <4>1, <4>2, TokenNumbers
      <4>4. CASE ses'[r].served
        <5>1. SaveSession(r)
          BY <1>1, <4>4, ServedBySave
        <5>2. CASE stored' = s.z
          <6>1. stored'.rt > n
            BY <4>1, <4>2, <5>2
          <6> QED
            BY <6>1
        <5>3. CASE ~s.save \/ s.kind = "peek"
          BY <4>1, <4>3, <5>3
        <5>4. CASE HookError(r)
          BY <1>1, <4>4, <5>4, RestingType, TokenTypes DEF HookError, Goes
        <5> QED
          BY <5>1, <5>2, <5>3, <5>4 DEF SaveSession
      <4> QED
        BY <4>3, <4>4
    <3> QED
      BY <3>3, <3>4
  <2> QED
    BY <1>1, <2>2, <2>3, GrownOrTick
<1> QED
  BY <1>1, TokensInvariance, PTL DEF SessionTokensSpec, RotationRecoverable
=============================================================================
