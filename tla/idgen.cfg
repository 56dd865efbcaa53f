SPECIFICATION Spec
CONSTANTS
    Threads = {t1, t2, t3, t4}
    NoThread = NoThread
    IdMax = 3
    MaxCalls = 10
CHECK_DEADLOCK FALSE
INVARIANTS
    DistinctInWindow
    Consecutive
