SPECIFICATION Spec
CONSTANTS
    Component = {"zip"}
    Process = {p1, p2}
    MaxRevision = 7
    ArtifactCriteria = {"artifact"}
    CommandCriteria = {"command"}
    RequireYodaReview = TRUE
    Item = {1, 2}
    Reader = {"r1"}
    MaximumListItems = 2
    MaxHistory = 3
    MaxDamage = 1
    Hook = {p1, p2}
    Session = {"s1"}
    Action = {"a1"}
    ChallengeTTL = 2
    Retention = 0
    MaxTime = 3
    MaxChallenge = 2
    MaxConfirmCrashes = 1
    GateProcess = {p1, p2}
    Specialist = {"case"}
    Branch = {"b1"}
    TailLimit = 1
    MaxTrail = 2
    MaxGateFaults = 1
    HookProcess = {p1, p2}
    AgentType = {"client-account-agent", "case-agent", "yoda", "darwin", "pa-expert"}
    TransitionLimit = 6
    MaxHookCrashes = 1
    Caller = {p1, p2}
    Principal = {"i1", "i2"}
    SetupPath = {"p"}
    SelectedSource = {"s1", "s2"}
    Validity = 1
    MaxTick = 1
    Request <- Requests
    Content = {"c1", "c2"}
    MaxAccountCycles = 2
    MaxYodaCycles = 2
    MaxCaseAttempts = 3
    MaximumAgentEvents = 8
    Dispatcher = {p1, p2}
    DispatchId = {"d1", "d2"}
    Party = {"o1"}
    Payload = {"x", "y"}
    Evidence <- PlanChains
    MaxBoundaryFaults = 2
    Importer = {p1, p2}
    PlanFiles <- TwoFiles
    MaxEdits = 2
    MaxImportFaults = 2
    ManagedPaths <- TwoFiles
    MaxUserEdits = 2
    MaxMigrationFaults = 3
    Run = {p1}
    Sources <- TwoFiles
    Attempt = {t1, t2}
    MaxStarts = 4
    MaxAuthoring = 2
    Tracks = {1, 2}
    MaxOperations = 2
    MaxEditsByUser = 1
    MaxFailures = 1
    Installer = {"i1"}
    InstallPlan = {"p1", "p2"}
    MaxAttempts = 4
    MaxInstallCrashes = 1
    UpdateCheck = {p1, p2}
    Release = {1, 2, 3}
    AliasExpiry = 3
    MaxRepublish = 1
    MaxUpdateCrashes = 1
    Program = {"v1", "v2"}
    MaxLaunchCalls = 5
    MaxCommandFailures = 2
    MaxLaunchFaults = 1
INVARIANTS
    RevocationStands
CHECK_DEADLOCK FALSE
