SPECIFICATION FairSpec
CONSTANTS
    Kinds <- AllKinds
    Ids = {j1}
    NoId = NoId
    Failure = Failure
    StatusFilters = {"ALL"}
    HistoryMayFail = TRUE
PROPERTIES
    PairsEnd
CHECK_DEADLOCK FALSE
