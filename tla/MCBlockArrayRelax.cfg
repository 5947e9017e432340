SPECIFICATION Spec
CONSTANTS
    Rlx = 2
    MaxKey = 4
    Loads <- Single
    Callers = {1}
    MaxElements = 5
INVARIANTS WithinKSmallest
CHECK_DEADLOCK FALSE
