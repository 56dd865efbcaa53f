SPECIFICATION TransportsSpec
CONSTANTS
    MaxOps = 2
    MaxPeerFrames = 2
    Reader = Reader
    NoOne = NoOne
    RecursionLimit = 3
    Capacity = 1
CHECK_DEADLOCK FALSE
INVARIANTS
    WholeFrames
    FramesInOrder
    HonestPings
    ReadFailures
PROPERTIES
    EveryCallEnds
