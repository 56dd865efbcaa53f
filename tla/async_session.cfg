SPECIFICATION FairSpec
CONSTANTS
    Ops = {o1, o2}
    Pushes = {n1}
    NoOp = NoOp
    ActiveKinds = {"register", "subscribe", "unsubscribe", "notify", "leave"}
    IdMax = 2
    LateKinds = {"subscribe"}
    CallersCancel = TRUE
    HasCallback = TRUE
    FlagFollowsLink = TRUE
CHECK_DEADLOCK FALSE
INVARIANTS
    Correlation
    LeaveCloses
    CrashExplained
PROPERTIES
    Answered
    LeaveEnds
