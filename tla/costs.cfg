SPECIFICATION Spec
CONSTANTS
    NoEntry = NoEntry
    Entries = {e1, e2, e3}
    Bookers = {b1, b2}
    LastTime = 2
    MaxBookings = 4
    Ledgers <- MCLedgers
    Days <- ReadingDays
INVARIANTS
    CostTypeOK
    StartsDistinct
    NoGap
    ScheduleRight
PROPERTIES
    HistoryKept
SYMMETRY CostSymmetry
CHECK_DEADLOCK FALSE
