SPECIFICATION FairSpec
CONSTANTS
    Kind = {"plain", "terminal", "unusable", "refused"}
    MaxEvents = 4
    FlushSize = 2
    Backpressure = 3
    ConflictRetries = 1
    MaxFaults = 2
INVARIANTS
    NothingLost
PROPERTIES
    WritesInOrder
    EventuallyWritten
CHECK_DEADLOCK FALSE
