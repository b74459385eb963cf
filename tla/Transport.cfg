SPECIFICATION Spec
CONSTANTS
    Capacity = 3
    Lines = 3
    Width = 1
    FIFO = 2
    RING = 2
    EVENTS = 2
    BUF = 2
    MaxNoise = 1
    MaxFailures = 1
INVARIANTS StreamTrue
PROPERTIES Announced
CHECK_DEADLOCK FALSE
