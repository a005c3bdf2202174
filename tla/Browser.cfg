SPECIFICATION BrowserSpec
CONSTANTS
    AllowDemo = TRUE
    Scopes <- ShownOrHidden
    Requests = {1, 2}
    MaxWrites = 1
    MaxPending = 3
    MaxSubscriptions = 2
    Bindings = {"hour", "day"}
    MaxNotified = 3
    MaxUpdates = 1
    MaxCalls = 4
    Ranges = {"1h", "noon"}
    LiveRanges = {"1h"}
    Filters = {"all"}
    Typed = {"a"}
    MaxPages = 2
    MaxVisits = 2
    MaxFailures = 1
    t1 = t1
    t2 = t2
    root1 = root1
    child1 = child1
    w1 = w1
    w2 = w2
    Single <- TwoTasks
    Workflow <- OneFlow
    Workers <- TwoWorkers
    WorkerOf <- Executing
    SeedPlan <- Planned
    Drawable = {1, 2, 3}
    Listed <- UpToOne
    EndOfTimeline = 2
    MaxAge = 0
    RefreshAge = 0
    NiceIntervals = {1}
    Minute = 2
    TargetTicks = {2}
    Nobody = Nobody
    Openable <- TwoTasks
    TypeOfTask <- Added
    Values <- Sums
    Withheld <- OneOrNone
    MaxMoves = 3
    MaxInFlight = 3
    MaxRewrites = 1
    MaxRejected = 1
    Horizon = 6
    Hour = 4
    Buckets = 3
    Grains <- TwoGrains
    RowsOf <- RowsByMode
    ValueOf <- ValueByRow
    Columns <- ColumnsByMode
    DefaultColumns <- DefaultsByMode
    Sortable = {"last_updated", "type"}
    Zones <- BehindAndAhead
    Pickable <- AllDay
    MaxActs = 2
    Texts = {"", "1", "-1"}
    Meaning <- TextMeans
    TextFor <- ValueShows
    Acceptable = {0, 1}
    Granted <- Administrator
    Patience = 1
    MaxSeats = 2
    MaxClicks = 3
    MaxErrors = 1
    MaxOthers = 1
    Selectable = {"none", "some", "all"}
    MayVary = {"none", "some"}
    PagesFor <- PagesByText
    FoundFor <- FoundByText
    MaxTours = 2
    MaxAwaited = 1
INVARIANTS
    SettingsHold
    GraphDrawsEachOnce
    TimelineShowsSigns
    AnswersFitQuestions
    DemoAgrees
PROPERTIES
    PageShowsItsTask
    ChartDrawsWhatIsCounted
    RowsAreCurrent
    PageCatchesUp
    PageFindsItsWay
    SummaryCatchesUp
    UserIsLed
CHECK_DEADLOCK FALSE
