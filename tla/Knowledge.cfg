SPECIFICATION Spec
CONSTANTS
    Component = {"memory", "journal", "prompts", "owner", "observation", "promotion", "identity", "state", "agent", "atlas", "bundle", "prior", "federation", "review", "evolution", "darwin"}
    Process = {p1, p2}
    Dreamer = {p1, p2}
    Day = {1, 2}
    MaxCaptures = 2
    MaxManifests = 4
    MaxDreamCrashes = 1
    DailyHook = {p1, p2}
    Checkpoint = {"c1", "c2"}
    Summary = {"s"}
    DrainBudget = 1
    MaxQueued = 2
    MaxDailyCrashes = 1
    PromptWriter = {p1, p2}
    Owner = {"o1", "o2"}
    PromptNumber = {1, 2}
    Size = {1}
    MaxBytes = 3
    DefaultEntries = 2
    EntriesChoice = {1}
    MaxAge = 1
    MaxClock = 1
    MaxPromptCrashes = 1
    Actor = {p1, p2}
    Facets <- InterviewFacets
    TrackFacets = {"purpose"}
    Template = "template"
    Text = {"b1", "b2"}
    MaxProposal = 1
    MaxOwnerCrashes = 1
    Observation <- Observed
    MaxTransition = 4
    Wanted = {"eligible", "corroborated", "proposed", "promoted"}
    MaxCanonical = 2
    Service = {p1, p2}
    Account = {"a1", "a2"}
    Workspace = {"w1"}
    PromotionId = {"p1"}
    Digest = {"d1", "d2"}
    Grants <- AllGrants
    Interviewer = {p1, p2}
    DraftSet = {d1, d2, d3, d4}
    MaxIdentityCrashes = 2
    MaxEdits = 1
    StateWriter = {p1, p2}
    Label = {"l1", "l2"}
    SectionBody = {"b1"}
    Stamp = {1, 2}
    SectionBudget = 1
    MaxCommits = 3
    MaxStateCrashes = 1
    AgentProcess = {p1, p2}
    Plan = {1}
    Theme = {"t"}
    MaxQueries = 1
    MaxDocuments = 1
    MaxCalls = 5
    MaxAgentCrashes = 1
    AtlasSession = {p1, p2}
    EntryKey = {"k1"}
    StandingGrant = {"g1"}
    MaxAtlasOps = 2
    MaxAtlasCrashes = 1
    Source = {"a", "b"}
    MaxSourceEdits = 2
    MaxCompileFaults = 1
    MaxCompiles = 2
    Importer = {p1, p2}
    Item = {"i1"}
    PresenceRun = {"o1", "o2"}
    MaxSequence = 2
    Mark = {m1}
    MaxSnapshotItems = 2
    MaxPriorFaults = 1
    Batch = {"b1"}
    Skill = {"k1"}
    Flusher = {p1, p2}
    MaximumDeliveryAttempts = 3
    MaxFedTime = 1
    MaxFedFaults = 2
    Reviewer = {p1, p2}
    Answer = {"a", "b"}
    Lease = 2
    MaxReviewTime = 4
    MaxToken = 3
    Writer = {p1, p2}
    Pin = {"a", "b"}
    Episode = {"e1"}
    Window = {"w1"}
    Proposal = {"p1"}
    MaxRevision = 3
    MaxVersion = 2
    Worker = {p1, p2}
    Housekeeping = {"h"}
    Deep = {"d"}
    Structural = {"m"}
    MaxActions = 3
    MaxChanges = 1
    MaxCrashes = 1
INVARIANTS
    CommitsBelongTogether
    ConsumedIsDreamt
    SoleOwnerHistory
    OwnerContextSound
    ActiveIsEvidenced
    InterruptedConfirmable
    CommitsAreWhole
    AgentHonest
    AtlasKept
    PriorWorkSound
    CountedOnce
    ReceiptTellsProposal
    EvolutionSound
    DoneOnce
PROPERTIES
    RevokedForGood
CHECK_DEADLOCK FALSE
