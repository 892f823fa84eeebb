SPECIFICATION FairTunnelSpec
CONSTANTS
    c1 = c1
    c2 = c2
    c3 = c3
    h1 = h1
    h2 = h2
    Host <- Both
    Unmintable <- Long
    Pem = Pem
    Conn <- Pooled
    Kinds <- Mixed
    Workers = 2
    MaxCrashes = 1
    MaxFailedWrites = 0
INVARIANT OneAnswer
INVARIANT SplicedOnlyWhenRefused
PROPERTY EachIsServed
CHECK_DEADLOCK FALSE
