SPECIFICATION Spec
CONSTANTS
    Threads = {0, 1}
    number_of_threads = 2
    ARRAY_PADDING = 16
    Vertices = {0, 1, 2}
    Graphs <- Path
    Infinity = 99
INVARIANT WokenUp
CHECK_DEADLOCK FALSE
