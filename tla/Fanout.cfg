SPECIFICATION HFairSpec
CONSTANTS
    None = None
    Any = Any
    RootPath = "/"
    b1 = b1
    b2 = b2
    Identity <- OneCookie
    Target <- TwoBrowsers
    Targets <- Fanout
    Doomed <- NoCookies
    Flaky <- OneCookie
    SyncBodies <- SyncRoot
    Queries <- NoBodies
    ClearBodies <- NoBodies
    MaxClock = 1
    MaxFaults = 1
    MaxDrift = 1
PROPERTY OneBumpPerTick
PROPERTY Converges
