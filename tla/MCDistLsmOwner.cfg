SPECIFICATION Spec
CONSTANTS
    Threads = {1}
    Items = {i1, i2, i3, i4, i5}
    NoItem = NoItem
    Keys = {1, 2}
    Owner <- OwnedByOne
    MaxInserts <- FiveInserts
    MaxPow = 2
    N = 4
    Ops <- AllOps
    Shared = TRUE
    Rlx = 6
SYMMETRY SymItems
INVARIANTS StorageSuffices ExactlyOnce
PROPERTY ScanMin
CHECK_DEADLOCK FALSE
