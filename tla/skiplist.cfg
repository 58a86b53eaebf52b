SPECIFICATION Spec
CONSTANTS
    Threads = {t1, t2}
    N = 3
    Empty = Empty
INVARIANT PositionIsWritten
CHECK_DEADLOCK FALSE
