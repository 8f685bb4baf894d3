SPECIFICATION VoiceFairSpec
CONSTANTS
    MaxThreads = 1
    QueueSize = 1
    BufferChunks = 2
    Workers <- MCThreads
    Listeners <- MCThreads
    Loads <- MCLoads
INVARIANTS
    HandledInOrder
    LagBounded
    OneWorkerPerSlot
PROPERTIES
    StoppedThreadsEnd
    MainReturns
