SPECIFICATION Spec
CONSTANTS
    TraceCount  = 3
    ChunkSize   = 2
    Workers     = {w1}
    Cancellers  = {c1}
    NoWorker    = NoWorker
    NoCanceller = NoCanceller
    MaxResumes  = 1
    MaxLogFaults = 0
    MaxCrashes  = 1
    MaxDbFaults = 0
INVARIANT
    InterruptedIsReachable
