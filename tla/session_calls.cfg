SPECIFICATION Spec
CONSTANTS
    Ops = {o1, o2, o3}
    Pushes = {n1, n2}
    NoOp = NoOp
    ActiveKinds = {"subscribe", "unsubscribe", "notify"}
    IdMax = 3
    MaxWorkers = 1
    MainEnds = FALSE
    FlagFollowsLink = FALSE
    LateKinds = {"subscribe"}
SYMMETRY Symmetry
CHECK_DEADLOCK FALSE
INVARIANTS
    Correlation
    PendingEntry
    HandlerInstalled
    NoOrphan
    
