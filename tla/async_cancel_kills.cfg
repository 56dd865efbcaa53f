SPECIFICATION FairSpec
CONSTANTS
    Ops = {o1, o2}
    Pushes = {}
    NoOp = NoOp
    ActiveKinds = {"call"}
    IdMax = 2
    LateKinds = {}
    CallersCancel = TRUE
    HasCallback = FALSE
    FlagFollowsLink = TRUE
CHECK_DEADLOCK FALSE
PROPERTIES
    ActionsArePerformed
