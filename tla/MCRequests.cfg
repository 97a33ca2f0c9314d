SPECIFICATION RequestsSpec
CONSTANTS
    SessionRequests = {r1, r2}
    MaxToken = 2
    ResultTTL = 1
    RequestTime = 2
    TokenTTL = 2
    BeforeExpiry = 1
    UserinfoInterval = 1
    TokenFaults = {"op", "userinfo", "save"}
    OAuthRequests = {r1, r2}
    Intervals <- DirIntervals
    DefaultTTL = 2
    TokenLife = 3
    RequestLife = 1
    Audiences = {a1}
    LoginSettings <- BothLogins
    Deliveries = {r1, r2}
    LogoutTokens = {t1, t2}
    Slack = 1
    SafetyMargin = 2
    DeliveryTime = 1
    LogoutEnd = 6
    LogoutFaults = {"get", "set"}
    JarRequests = {r1, r2}
    ChunkSize = 2
    ChunksMax = 3
    LengthMax = 7
    WriteBound = 3
    Verifiers = {r1, r2}
    MaxKey = 2
    RefreshInterval = 2
    ForcedInterval = 1
    FetchBound = 1
    StaticKeys = {}
    NoKid = NoKid
    KeyFaults = {"cache", "fetch"}
    c1 = c1
    c2 = c2
    c3 = c3
    Callers = {c1, c2, c3}
    Machine <- OneMachine
    Nobody = Nobody
    None = None
    LOCK = LOCK
    FAILED = FAILED
    Tokens = {0, 1, 2, 3}
    LockTTL = 2
    CacheTTL = 8
    GrantBound = 1
    RequestBound = 2
    AccessTTL = 4
    Faults = {"older"}
SYMMETRY Symmetric
INVARIANTS
    IdentityIsOurs ReachedByRight GoodForApp ResultsSound LoginSound HonestSucceeds
    LateCopyRefused CookiesReadBack KeysBounded
PROPERTIES RotationRecoverable LookupSound PresentedOnce
