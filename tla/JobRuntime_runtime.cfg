SPECIFICATION FairSpec
CONSTANTS
    ParallelWorkers = 3
    TraceCount = 10
    ChunkSize = 8
    ChunkSizes <- MCChunkSizes
    Events <- MCEvents
    NoEvent = NoEvent
    MaxFaults = 3
INVARIANTS
    TypeOK
    PartitionIsExact
    ReturnsTheChunkInOrder
    NoTaskOutlivesTheExecution
PROPERTIES
    ImplementsAtomicRuntime
    ExecutionReturns
