SPECIFICATION FairSpec
CONSTANTS
    TraceCount  = 3
    ChunkSize   = 2
    Workers     = {w1, w2}
    Cancellers  = {c1}
    NoWorker    = NoWorker
    NoCanceller = NoCanceller
    MaxResumes  = 1
    MaxLogFaults = 1
    MaxCrashes  = 1
    MaxDbFaults = 0
INVARIANTS
    NoOrphanRunning
PROPERTIES
    ExecutionEnds
    CancelTakesEffect
