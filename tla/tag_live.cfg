SPECIFICATION FairSpec
CONSTANTS
    None = None
    Refs = {d1}
    Tags = {t1}
    Conns = {s1}
    Workers = {w1}
    Requests = {}
    AutoSync = {TRUE}
    MaxRetries = 1
    MaxJobs = 2
    Forgetful = TRUE
    MaxRows = 2
    MaxConfigs = 1
    MaxVersion = 1
    MaxCalls = 2
    MaxRetags = 0
    MaxRepoints = 0
    MaxArchives = 0
    MaxExceptions = 0
    MaxCrashes = 1
PROPERTIES
    EveryJobSettles
CHECK_DEADLOCK FALSE
