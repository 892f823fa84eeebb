SPECIFICATION Spec
CONSTANTS
    None = None
    Any = Any
    RootPath = "/"
    b1 = b1
    b2 = b2
    Identity <- TwoCookies
    Target <- OneBrowser
    Targets <- OnlyPrimary
    Doomed <- NoCookies
    Flaky <- OneCookie
    SyncBodies <- SyncRoot
    Queries <- NameQueries
    ClearBodies <- ClearSome
    MaxClock = 3
    MaxFaults = 1
    MaxDrift = 1
INVARIANT TypeOK
INVARIANT NoQuarantinedPending
INVARIANT StreakBounded
INVARIANT SyncedIsStored
INVARIANT ClearedIsPurged
PROPERTY PassKeepsStore
PROPERTY ImplementsLedger
