SPECIFICATION Spec
CONSTANTS
    None = None
    Refs = {d1}
    Tags = {t1, t2}
    Conns = {s1}
    Workers = {w1}
    Requests = {}
    AutoSync = {TRUE}
    MaxRetries = 1
    MaxJobs = 2
    Forgetful = FALSE
    MaxRows = 2
    MaxConfigs = 2
    MaxVersion = 2
    MaxCalls = 3
    MaxRetags = 1
    MaxRepoints = 0
    MaxArchives = 1
    MaxExceptions = 1
    MaxCrashes = 0
INVARIANTS
    TypeOK
    VersionNamesTag
    ActivatedListIsTagList
PROPERTIES
    StatusIsOwnTags
    OnlyLostTagsHide
SYMMETRY TagSymmetry
CHECK_DEADLOCK FALSE
