SPECIFICATION Spec
CONSTANTS
    c1 = c1
    c2 = c2
    c3 = c3
    Callers = {c1, c2}
    Machine <- OneMachine
    Nobody = Nobody
    None = None
    LOCK = LOCK
    FAILED = FAILED
    Tokens = {0, 1, 2}
    LockTTL = 2
    CacheTTL = 3
    GrantBound = 3
    RequestBound = 3
    AccessTTL = 1
    Faults = {"refuse", "lose", "cache", "crash", "older"}
INVARIANT ResultGenuine
PROPERTIES EveryoneEnds
