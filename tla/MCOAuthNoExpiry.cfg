SPECIFICATION OAuthSpec
CONSTANTS
    OAuthRequests = {r1}
    Intervals = {0}
    DefaultTTL = 2
    TokenLife = 3
    RequestLife = 1
    Audiences = {a1}
INVARIANT NoExpiryNotCached
