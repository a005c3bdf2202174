SPECIFICATION FairSpec
CONSTANTS
    Kind = {"plain", "refused"}
    MaxEvents = 3
    FlushSize = 2
    Backpressure = 3
    ConflictRetries = 0
    MaxFaults = 0
PROPERTY
    RefusedDoesNotBlock
CHECK_DEADLOCK FALSE
