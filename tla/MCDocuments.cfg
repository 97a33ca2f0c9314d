SPECIFICATION DocumentsSpec
CHECK_DEADLOCK FALSE
CONSTANTS
    MetaWorkers = {w1, w2}
    DocInterval = 2
    SecretLife = 1
    CallBound = 1
    MaxDoc = 2
    MaxClient = 2
    MetaFaults = {"op", "file"}
    ServerCount = 3
    WithDirectives = {1, 2}
    DirectiveBound = 3
    RestartBound = 1
    Generated <- GeneratedPassphrases
    ConfigFaults = {"value", "mutex", "kdf"}
    Lifetime = 2
    MaxPassphrase = 3
    FileWorkers = {w1, w2}
    MaxInode = 2
    FileFaults = {"write", "crash"}
    RedisRequests = {w1, w2}
    PoolMax = 2
    MaxConn = 4
    RedisFaults = {"server", "lock", "reply"}
    Children = {w1, w2}
    IntMax = 2
    EventBound = 4
    MetricFaults = {"crash", "size"}
    HttpThreads = {w1, w2}
    Handles = {h1, h2, h3, h4}
    HttpPoolMax = 2
    Retries = 1
    BodyMax = 2
    HttpFaults = {"connect", "partial", "timeout", "fork"}
    Tabs = {w1, w2}
    MaxPage = 2
    DiscoverySettings <- DiscoveryCases
    Directives <- AuthzDirectives
    Objects <- AuthzObjects
    ClaimSources <- AuthzCases
SYMMETRY Symmetric
INVARIANTS
    MetadataUsable ConfigurationSound Seamless ReadsWhole ConnectionsSafe MetricsRight HandlesSafe
    DiscoverySound AccessByClaim
