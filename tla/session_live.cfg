SPECIFICATION FairSpec
CONSTANTS
    Ops = {o1, o2}
    Pushes = {n1}
    NoOp = NoOp
    ActiveKinds = {"register", "unregister", "call", "leave"}
    IdMax = 2
    MaxWorkers = 1
    MainEnds = TRUE
    FlagFollowsLink = TRUE
    LateKinds = {"register", "subscribe"}
CHECK_DEADLOCK FALSE
INVARIANTS
    ReceiveLoopSurvives
PROPERTIES
    KeepsPromise
    Answered
    LeaveStops
    CallbackRuns
