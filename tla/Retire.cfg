SPECIFICATION FairLifeSpec
CONSTANTS
    None = None
    Any = Any
    RootPath = "/"
    b1 = b1
    b2 = b2
    Identity <- TwoCookies
    Target <- OneBrowser
    Targets <- OnlyPrimary
    Doomed <- OneCookie
    Flaky <- NoCookies
    SyncBodies <- SyncApart
    Queries <- NoBodies
    ClearBodies <- NoBodies
    MaxClock = 1
    MaxFaults = 2
    MaxDrift = 1
    MaxInterruptions = 2
    s1 = s1
    Place <- OnePlace
INVARIANT StreakBoundedBeside
PROPERTY VerdictsStand
PROPERTY ComesToRest
PROPERTY ConvergesWhileActive
PROPERTY RetiresWhileActive
