SPECIFICATION PartsSpec
CONSTANTS
    N = 3
    Nothing = Nothing
    Cookie <- TwoKept
    Source <- OneSource
    Jobs <- Requests
    MaxJobs = 3
    MaxGlitches = 1
    MaxDbErrors = 1
    Flow = {f1, f2}
    NoCard = NoCard
    Kept <- TwoCards
    MaxTroubles = 1
    MaxRequests = 3
    Host = {h1, h2, h3}
    Unmintable = {h3}
    Pem = Pem
    MaxCrashes = 2
    MaxFailedWrites = 1
    Char <- Letters
    Rows <- AllRows
    Urls <- AllUrls
INVARIANT AnswersInOrder
INVARIANT AnswersAreReal
INVARIANT LagIsExplained
INVARIANT CountsAreEarned
INVARIANT OneKeyWithoutGlitch
INVARIANT CookiesStayReadable
INVARIANT RefusedOnlyOnGlitch
INVARIANT AnswersMatch
INVARIANT WholeUnlessClosed
INVARIANT PairMatches
INVARIANT TrustLasts
INVARIANT LeafMatches
INVARIANT RefusedOnlyWhenTorn
INVARIANT NothingForeign
INVARIANT NothingWithheld
INVARIANT PassKeepsWhatSyncPut
PROPERTY SignaturesOutlastKey
PROPERTY FlowsEnd
PROPERTY LiveIsPersisted
PROPERTY AskedIsAnswered
PROPERTY SessionEndsUnlessCut
CHECK_DEADLOCK FALSE
