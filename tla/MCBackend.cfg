SPECIFICATION Spec
CONSTANTS
    Sessions = {"trust", "index", "thought", "search", "graph", "cycle", "tier", "migrate",
                "skills", "broker", "peers", "files"}
    Memory = {1, 2, 3}
    Topic = {"a", "b"}
    Rows0 <- MCRows0
    AutoMode = TRUE
    MaxRequests = 2
    MaxTicks = 1
    MaxLines = 2
    OverlapLines = 1
    Path = {"a.go"}
    PathOrder <- MCOrder
    Text <- MCText
    Loop = "loop"
    Job = {"j1"}
    Timer = {"t1"}
    MaxIndexRequests = 1
    MaxRestarts = 1
    MaxFailures = 1
    Chain = {"c1"}
    Idea = {"x"}
    MaxThoughts = 4
    Item = {"a", "b", "c"}
    RRFConstant = 60
    Scale = 14295960
    Limit = {0, 1, 2}
    Entity = {"e1", "e2", "e3"}
    RelType = {"uses", "owns"}
    StartFrom = {"e1"}
    Depth = {0, 2}
    Types = {{}, {"uses"}}
    MaxLinks = 3
    MaxReadFailures = 1
    Task = {"t1", "t2"}
    TaskType = {"code-implementation", "research"}
    MaxMemories = 1
    MaxCycles = 3
    MinTrust <- MCMinTrust
    TierLimit <- MCTierLimit
    TTL <- MCTTL
    LLMTimeout = 1
    MaxRetries = 2
    Backoff <- MCBackoff
    MaxKept = 1
    MaxNow = 6
    Model = {"minilm", "bge"}
    DefaultLabel = "bge"
    NoModel = "no model"
    MaxRows = 2
    MaxMigrations = 2
    Role = {"coder", "orchestrator"}
    Scopes <- MCScopes
    LocalSkills <- MCLocal
    ExternalSkills <- MCExternal
    Server = {"files", "web"}
    Menu <- MCMenu
    BrokerRole = {"", "coder"}
    ServerRoles <- MCServerRoles
    MaxBrokerRequests = 3
    Peer = {"p1", "p2"}
    Shared = {"m1"}
    Tool = {"t1"}
    CoreTool = {"memory.add"}
    MaxPeerRequests = 3
    FineTask = {"k1", "k2"}
    Unplanned = {"gone"}
    TargetFile = {"f1", "f2"}
    NoTask = "none"
INVARIANTS
    BackendTypeOK
    SupersededIsArchived
    UnchangedIsIndexed
    HistoryReadable
    FusionRespectsDominance
    WalksAreExact
    NoSilentSkip
    SummaryInTime
    OriginalKept
    OfferedByScope
    OneOwner
PROPERTIES
    ArchivedStays
CHECK_DEADLOCK FALSE
