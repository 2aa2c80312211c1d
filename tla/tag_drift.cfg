SPECIFICATION FairSpec
CONSTANTS
    None = None
    Refs = {d1}
    Tags = {t1}
    Conns = {s1, s2}
    Workers = {w1}
    Requests = {}
    AutoSync = {TRUE}
    MaxRetries = 1
    MaxJobs = 2
    Forgetful = TRUE
    MaxRows = 1
    MaxConfigs = 1
    MaxVersion = 1
    MaxCalls = 1
    MaxRetags = 0
    MaxRepoints = 2
    MaxArchives = 0
    MaxExceptions = 0
    MaxCrashes = 1
PROPERTIES
    DriftIsReported
CHECK_DEADLOCK FALSE
