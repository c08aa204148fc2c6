SPECIFICATION Spec
CONSTANTS
    TraceCount  = 3
    ChunkSize   = 2
    Workers     = {w1, w2}
    Cancellers  = {c1, c2}
    NoWorker    = NoWorker
    NoCanceller = NoCanceller
    MaxResumes  = 2
    MaxLogFaults = 1
    MaxCrashes  = 1
    MaxDbFaults = 2
SYMMETRY ThreadSymmetry
INVARIANTS
    TypeOK
    SingleExecution
    AcceptedCancelNeverCompletes
    CheckpointNeverAhead
    MarkersHonest
    CompletedIsWhole
    LoggedCompletionIsOnDisk
    CancellationIsExplained
PROPERTIES
    WorkIsNeverLost
    ImplementsLifecycle
