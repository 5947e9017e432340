SPECIFICATION Spec
CONSTANTS
    Threads = {1, 2}
    Items = {i1, i2}
    NoItem = NoItem
    Keys = {1, 2}
    Owner <- OwnedByOne
    MaxInserts <- ThreeInserts
    MaxPow = 1
    N = 4
    Ops <- DeleteMin
    Shared = FALSE
    Rlx = 3
INVARIANTS TypeOK ListOK StorageSuffices Sorted ExactlyOnce
CHECK_DEADLOCK FALSE
SYMMETRY SymItems
