SPECIFICATION MCSpec
CONSTANTS
    Threads = {1, 2}
    Items = {i1, i2}
    NoItem = NoItem
    Keys = {1, 2}
    Owner <- OwnedByOne
    MaxInserts <- TwoInserts
    MaxPow = 1
    N = 4
    Ops <- AllOps
    Shared = TRUE
    Rlx = 4
INVARIANTS ListOK ExactlyOnce
PROPERTY ListsDrain
CHECK_DEADLOCK FALSE
