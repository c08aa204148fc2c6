SPECIFICATION Spec
CONSTANTS
    Kinds <- WithoutLog
    Ids = {j1, j2}
    NoId = NoId
    Failure = Failure
    StatusFilters <- MCFilters
    HistoryMayFail = TRUE
SYMMETRY Interchanged
INVARIANTS
    TypeOK
    CloseNeverKillsThread
    CancelTargetsTheRunningJob
    ImportAndRunExclusive
    TableSettled
    ViewOnlyCompleted
CHECK_DEADLOCK FALSE
