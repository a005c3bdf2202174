SPECIFICATION PipelineSpec
CONSTANTS
    Kind = {"plain", "malformed", "refused"}
    MaxEvents = 4
    QueueSize = 1
    MaxPending = 2
    MaxFaults = 1
    FlushSize = 2
    Backpressure = 2
    ConflictRetries = 0
    MaxDbFaults = 1
INVARIANTS
    PermitsMatch
    NoOvertaking
CHECK_DEADLOCK FALSE
