SPECIFICATION PresenceSpec
CONSTANTS
    WorkerTask = {"task"}
    MissedPollsThreshold = 2
    MaxTime = 4
    MaxFaults = 1
INVARIANT
    NoneExecutedOffline
CHECK_DEADLOCK FALSE
