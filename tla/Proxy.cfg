SPECIFICATION FairProxySpec
CONSTANTS
    w1 = w1
    Main = Main
    Worker <- OneWorker
    None = None
    Any = Any
    RootPath = "/"
    b1 = b1
    b2 = b2
    Identity <- OneCookie
    Target <- OneBrowser
    Targets <- OnlyPrimary
    Doomed <- NoCookies
    Flaky <- OneCookie
    SyncBodies <- SyncRoot
    Queries <- NoBodies
    ClearBodies <- ClearSome
    MaxClock = 2
    MaxFaults = 1
    MaxDrift = 0
INVARIANT IInv
PROPERTY Converges
