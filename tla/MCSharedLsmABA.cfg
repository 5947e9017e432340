SPECIFICATION Spec
CONSTANTS
    Threads = {1, 2}
    MaxElements = 4
    NoElement = NoElement
    Initial = 0
    MaxPow = 4
    BlocksPerLevel = 4
    Algn = 2
    Ops <- Inserts
    Loads <- Single
PROPERTY VersionsAscend
CHECK_DEADLOCK FALSE
