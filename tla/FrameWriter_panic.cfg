CONSTANTS
    Writers = {w1, w2}
    Closers = {c1}
    BufSize = 1
SPECIFICATION FwSpec
INVARIANT NoPanic
CHECK_DEADLOCK FALSE
