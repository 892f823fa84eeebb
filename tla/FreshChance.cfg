SPECIFICATION HSpec
CONSTANTS
    None = None
    Any = Any
    RootPath = "/"
    b1 = b1
    b2 = b2
    Identity <- OneCookie
    Target <- OneBrowser
    Targets <- OnlyPrimary
    Doomed <- NoCookies
    Flaky <- OneCookie
    SyncBodies <- SyncRoot
    Queries <- NoBodies
    ClearBodies <- NoBodies
    MaxClock = 2
    MaxFaults = 1
    MaxDrift = 0
PROPERTY FreshSyncGetsAChance
