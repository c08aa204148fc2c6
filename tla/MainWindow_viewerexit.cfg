SPECIFICATION Spec
CONSTANTS
    Kinds <- WithoutLog
    Ids = {j1, j2}
    NoId = NoId
    Failure = Failure
    StatusFilters <- MCFilters
    HistoryMayFail = FALSE
SYMMETRY Interchanged
INVARIANTS
    NoThreadOutlivesWindow
CHECK_DEADLOCK FALSE
