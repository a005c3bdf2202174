SPECIFICATION AllRecordsSpec
CONSTANTS
    Task <- Two
    RootOf <- Chain
    History <- Lives
    Carrying <- SentAndReceived
    WorkerTask <- OneTask
    MissedPollsThreshold = 2
    MaxTime = 4
    MaxFaults = 1
INVARIANTS
    OutcomeSticks
    SummaryMatches
    AbsenceIsProof
PROPERTIES
    NeverBackward
    OfflineAfterMisses
    PresenceShown
CHECK_DEADLOCK FALSE
