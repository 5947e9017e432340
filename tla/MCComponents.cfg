SPECIFICATION MCSpec
CONSTANTS
    t1 = t1
    t2 = t2
    i1 = i1
    i2 = i2
    Threads = {t1, t2}
    Items = {i1, i2}
    Keys = {k1}
    Vals = {v1, v2}
    Owner <- TwoOwners
    VersionModulus = 4
    MaxUses = 2
    Nothing = Nothing
    LsmKeys = {1, 2}
    MaxLevel = 3
    MaxLsmSize = 8
    INITIAL_CAPACITY = 2
    MaxHeapSize = 8
    Ranked = {1, 2, 3, 4, 5, 6, 7, 8}
    Ids = {1, 2, 3}
    bucket_count = 2
    MaxCalls = 3
    Rlx = 4
    KeyLimit = 4
    Callers = {c1, c2}
    MaxLoaded = 8
    Clients = {1, 2}
    C = 1
    MaxKey = 3
    MaxElements = 2
    Retries = 1
INVARIANTS
    TypeOK
    NoLeak
    LsmOK
    TreeOK
    OneElementPerIndex
    NoneLost
    RangeBounded
PROPERTIES
    TakenForever
    ImplementsPool
    LsmImplementsQueue
    HeapImplementsQueue
    RankExact
    QueueImplementsPool
SYMMETRY SymCallers
CHECK_DEADLOCK FALSE
