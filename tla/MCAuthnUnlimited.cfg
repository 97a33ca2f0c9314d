SPECIFICATION Spec
CONSTANTS
    Requests = {r1}
    AllBrowsers = {b1}
    NoBrowser = NoBrowser
    NonceMargin = 1
    Settings <- UnlimitedSettings
PROPERTIES InTimeMatched
