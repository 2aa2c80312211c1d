SPECIFICATION Spec
CONSTANTS
    None = None
    Refs = {d1}
    Tags = {t1}
    Conns = {s1}
    Workers = {w1, w2}
    Requests = {q1}
    AutoSync = {FALSE}
    MaxRetries = 1
    MaxJobs = 2
    Forgetful = TRUE
    MaxRows = 1
    MaxConfigs = 1
    MaxVersion = 1
    MaxCalls = 3
    MaxRetags = 0
    MaxRepoints = 0
    MaxArchives = 0
    MaxExceptions = 0
    MaxCrashes = 1
INVARIANTS
    RetriesBounded
    OneRunPerJob
PROPERTIES
    CompletedIsFinal
    ImplementsOutbox
SYMMETRY WorkerSymmetry
CHECK_DEADLOCK FALSE
