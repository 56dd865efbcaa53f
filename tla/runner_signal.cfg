SPECIFICATION FairSpec
CONSTANTS
    Flavours = {"async"}
    MaxSessions = 2
    Procedures = 1
    RecursionLimit = 2
    RouterDetaches = FALSE
CHECK_DEADLOCK FALSE
PROPERTIES
    SignalStops
