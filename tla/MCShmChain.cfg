SPECIFICATION Spec
CONSTANTS
    k1 = k1
    k2 = k2
    k3 = k3
    k4 = k4
    long = long
    Workers = {w1}
    NoWorker = NoWorker
    Keys = {k1, k2, k3, k4}
    TooLong = {}
    NoKey = NoKey
    Values = {v1}
    TooBig = {}
    NoValue = NoValue
    NSlots = 3
    Buckets = {0, 1}
    Hash <- LongChain
    TTLs = {1}
    MaxTime = 1
INVARIANTS SegmentValid SlotObtained
PROPERTIES ImplementsCache LockReleased
