SPECIFICATION Spec
CONSTANTS
    Requests = {r1, r2}
    AllBrowsers = {b1, b2}
    NoBrowser = NoBrowser
    NonceMargin = 1
    Settings <- BothSettings
SYMMETRY Symmetric
INVARIANTS BoundToBrowser OneSessionPerCode WithinLimit
PROPERTIES ReplayRefused InTimeMatched
