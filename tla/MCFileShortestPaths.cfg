SPECIFICATION Spec
CONSTANTS
    Threads = {0, 1, 2}
    number_of_threads = 3
    ARRAY_PADDING = 1
    Vertices = {0, 1, 2}
    Graphs <- Path
    Infinity = 99
INVARIANTS
    StopsWhenDone
    VisitedWokenUp
CHECK_DEADLOCK FALSE
