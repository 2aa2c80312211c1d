SPECIFICATION WebSpec
CONSTANTS
    None = None
    Ids = {i1, i2}
    Slots = {s1, s2}
    MaxRev = 2
    MaxMounts = 2
    MaxStrays = 1
    Askers = {x1}
    Hosts = {h1, h2}
    Nowhere = Nowhere
    LastPaper = 3
    Stickers = {t1, t2}
    Buried = {t2}
    PageSize = 1
    MaxPages = 2
    MaxTurns = 1
    MaxClicks = 2
INVARIANTS
    WebTypeOK
    ViewBacked
    PaperlessAnswersTrue
PROPERTIES
    ListNeverGoesBack
SYMMETRY WebSymmetry
CHECK_DEADLOCK FALSE
