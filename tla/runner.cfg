SPECIFICATION FairSpec
CONSTANTS
    Flavours = {"async", "sync"}
    MaxSessions = 3
    Procedures = 2
    RecursionLimit = 2
    RouterDetaches = TRUE
CHECK_DEADLOCK FALSE
INVARIANTS
    OneSession
    AppHasSession
    ServesAll
PROPERTIES
    Recovers
