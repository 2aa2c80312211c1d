SPECIFICATION Spec
CONSTANTS
    None = None
    Refs = {d1}
    Tags = {t1}
    Conns = {s1}
    Workers = {w1}
    Requests = {}
    AutoSync = {TRUE}
    MaxRetries = 1
    MaxJobs = 3
    Forgetful = FALSE
    MaxRows = 1
    MaxConfigs = 1
    MaxVersion = 1
    MaxCalls = 2
    MaxRetags = 1
    MaxRepoints = 0
    MaxArchives = 0
    MaxExceptions = 0
    MaxCrashes = 0
PROPERTIES
    ManualLinkSurvives
CHECK_DEADLOCK FALSE
