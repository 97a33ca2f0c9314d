SPECIFICATION Spec
CONSTANTS
    AllRequests = {r1}
    AllBrowsers = {b1, b2}
    NoBrowser = NoBrowser
    Users = {u1}
    NoUser = NoUser
    MaxId = 2
    BackChannel = TRUE
    SlackCap = 60
    Settings <- SublessSettings
SYMMETRY Symmetric
PROPERTIES SubIndexKept
