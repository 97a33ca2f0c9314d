SPECIFICATION Spec
CONSTANTS
    AllRequests = {r1, r2}
    AllBrowsers = {b1, b2}
    NoBrowser = NoBrowser
    Users = {u1, u2}
    NoUser = NoUser
    MaxId = 2
    BackChannel = TRUE
    SlackCap = 1
    Settings <- AllSettings
SYMMETRY Symmetric
INVARIANTS OneUserPerId LogoutHitsItsUser InactivityWindow
PROPERTIES LogoutEnds SubIndexKept
