SPECIFICATION MCSpec
CONSTANTS
    None = None
    Rows = {r1, r2, r3}
    Calls = {c1, c2}
    Concurrency = 2
    MaxRetries = 1
    MaxCrashes = 2
    Providers <- MCProviders
    Docs = {d1, d2, d3}
    Contracts = {d1, d2}
    Unreadable = {d2}
    Askers = {a1, a2}
    Keep = 2
    MaxDocs = 2
    SummaryReplies <- MCSummaryReplies
    CostReplies <- MCCostReplies
    OldSummaries <- MCOldSummaries
    MaxSummaries = 5
    MaxEdits = 1
    CharsPerToken = 4
    MarkerLength = 5
    MinHead = 3
    MaxDocuments = 3
    Lengths = {0, 1, 11, 16, 40}
    Limits = {0, 1, 5, 9, 12, 16}
    WorkerIds = {w1, w2}
    BeatTimeout = 3
    BeatRetention = 4
    MaxBeats = 7
INVARIANTS
    TypesOK
    FewActive
    RunningHasJob
    BudgetKept
    AnswersKept
    HeartbeatTrue
PROPERTIES
    SettledStays
SYMMETRY ExtractionSymmetry
CHECK_DEADLOCK FALSE
