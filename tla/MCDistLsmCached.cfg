SPECIFICATION Spec
CONSTANTS
    Threads = {1}
    Items = {i1, i2, i3}
    NoItem = NoItem
    Keys = {1, 2, 3}
    Owner <- OwnedByOne
    MaxInserts <- ThreeInserts
    MaxPow = 1
    N = 4
    Ops <- DeleteMin
    Shared = FALSE
    Rlx = 3
PROPERTY TakesLocalMin
CHECK_DEADLOCK FALSE
