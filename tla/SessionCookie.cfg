SPECIFICATION Spec
CONSTANTS
    None = None
    Any = Any
    RootPath = "/"
    b1 = b1
    b2 = b2
    Identity <- OneCookie
    Target <- OneBrowser
    Targets <- OnlyPrimary
    Doomed <- NoCookies
    Flaky <- OneCookie
    SyncBodies <- SyncRoot
    Queries <- NameQueries
    ClearBodies <- NoBodies
    MaxClock = 2
    MaxFaults = 0
    MaxDrift = 1
PROPERTY SessionCookiesStay
