SPECIFICATION MCSpec
CONSTANTS
    Threads = {0, 1}
    NoElement = NoElement
    Algn = 8
    MaxPow = 2
    BlocksPerLevel = 4
    MaxInserts = 2
    BlockSize = 3
    MaxUsed = 5
    Inserters = {0}
    C = 1
    MaxKey = 3
    MaxElements = 2
    Retries = 0
    ARRAY_PADDING = 1
INVARIANTS
    MemoryBounded
    StopsWhenDone
PROPERTIES
    CallsReturn
    HandedOnce
    AcquireReturns
    QueueDrains
    SearchesTerminate
CHECK_DEADLOCK FALSE
