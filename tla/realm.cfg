SPECIFICATION Spec
CONSTANTS
    Clients = {c1, c2, c3}
    NoId = NoId
    Scenarios <- MCScenarios
SYMMETRY Symmetry
CHECK_DEADLOCK FALSE
INVARIANTS
    RecipientsKnown
    InvocationWhileRegistered
    OneAnswer
    AckAfterEvents
    EventsInOrder
PROPERTIES
    CrashNeedsLoss
