SPECIFICATION Spec
CONSTANTS
    k1 = k1
    k2 = k2
    k3 = k3
    k4 = k4
    long = long
    Workers = {w1, w2}
    NoWorker = NoWorker
    Keys = {k1, k2, k3, long}
    TooLong = {long}
    NoKey = NoKey
    Values = {v1, big}
    TooBig = {big}
    NoValue = NoValue
    NSlots = 2
    Buckets = {0, 1}
    Hash <- TwoBuckets
    TTLs = {1}
    MaxTime = 1
SYMMETRY WorkerSymmetry
INVARIANT IInv
PROPERTIES ImplementsCache
