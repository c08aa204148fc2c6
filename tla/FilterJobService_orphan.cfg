SPECIFICATION Spec
CONSTANTS
    TraceCount  = 3
    ChunkSize   = 2
    Workers     = {w1}
    Cancellers  = {c1}
    NoWorker    = NoWorker
    NoCanceller = NoCanceller
    MaxResumes  = 1
    MaxLogFaults = 0
    MaxCrashes  = 0
    MaxDbFaults = 1
INVARIANT
    NoOrphanRunning
