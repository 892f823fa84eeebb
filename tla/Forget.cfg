SPECIFICATION PanelSpec
CONSTANTS
    Flow = {f1}
    NoCard = NoCard
    Kept <- OneKept
    MaxTroubles = 0
PROPERTY ForgetSticks
CHECK_DEADLOCK FALSE
