SPECIFICATION ServicesSpec
CONSTANTS
    StoredTask <- Two
    RootOf <- Chain
    State <- RetriedOrDone
    Backup <- OldBackup
    Migrator = {m}
    Cleaner = {timer}
    Policy <- ByCountOrAge
    MaxIngested = 1
    Instance = {a, b}
    Text <- Texts
    PageSize = 1
    Searches <- PairsAndTexts
    StoredRows <- Arguments
    MaxNesting = 2
    MaxPattern = 20
    MaxRaw = 40
    MaxGrams = 40
    Reader = {ann}
    Item = {1, 2, 3}
    Size <- Sizes
    Matching = {2, 3}
    MaxResponse = 2
    Limits = {1, 2}
    ScanMax = 1
    Chunk = 2
    MaxLength = 3
    MaxWrites = 2
    Member = {1, 2}
    Reports <- Rows
    Inspected <- Polled
    Names = 1
    Shown = 1
    MaxListed = 1
    SignAge = 1
    InspectAge = 2
    Moment = 3
    MaxDisturbed = 1
    LoginLimit = 1
    BodyLimit = 2
    Piece = {1, 2}
    Deadline = 2
    Account <- Accounts
    RoleOf <- Roles
    NamedTask = {"t"}
    NamedWorker = {"w"}
    PolicyScope <- Scopes
    Browser = {browser}
    User <- Users
    Configs <- Deployments
    Claims = {"staff", "other"}
    SessionSpan = 2
    TransactionSpan = 1
    MaxClock = 2
    MaxVisits = 2
    Replica = {r, q}
    Inputs <- Operators
    MaxStarts = 2
    Id = {i}
    MaxLines = 1
    MaxMoments = 4
    Child = {p1, p2, p3}
    NoChild = none
INVARIANTS
    DamageIsContained
    SearchFinds
    ModeIsLeased
    AnswersAreEarned
    PrincipalIsProven
    AnswersAddUp
    
    SnapshotSurvives
PROPERTIES
    NothingOutlives
    CleanupMeetsLimit
CHECK_DEADLOCK FALSE
