SPECIFICATION PageQueriesSpec
CONSTANTS
    Ranges = {"1h", "noon"}
    LiveRanges = {"1h"}
    Filters = {"all"}
    Typed = {"a"}
    MaxPages = 2
    MaxVisits = 2
    MaxFailures = 1
INVARIANTS
    EventsInRange
CHECK_DEADLOCK FALSE
