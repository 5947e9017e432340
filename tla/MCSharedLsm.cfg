SPECIFICATION MCSpec
CONSTANTS
    Threads = {1, 2}
    MaxElements = 4
    NoElement = NoElement
    Initial = 0
    MaxPow = 3
    BlocksPerLevel = 4
    Algn = 8
    Ops <- AllOps
    Loads <- AllLoads
INVARIANTS TypeOK ArraysDescending PoolOK PoolSuffices
PROPERTIES PublishedImmutable VersionsAscend ImplementsPool
CHECK_DEADLOCK FALSE
