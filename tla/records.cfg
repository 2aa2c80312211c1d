SPECIFICATION Spec
CONSTANTS
    NoDoc = NoDoc
    Docs = {d1, d2}
    Sums = {s1}
    Requests = {c1, c2}
    MaxDeaths = 1
    Contracts = {p1}
    Members = {u1, u2}
    Kinds = {k1, k2}
    ShareRows = {r1, r2}
    Callers = {b1, b2}
    Nothing = Nothing
    Languages = {en, de}
    English = en
    Unset = Unset
    Lines = {q1, q2}
    MaxChoices = 2
    Accents <- MCAccents
    DefaultAccent <- MCDefaultAccent
    Blank = Blank
    Errands = {e1, e2}
    MaxPicks = 2
INVARIANTS
    RecordsTypeOK
    FilesRight
    SharesRight
    ChoiceKept
SYMMETRY RecordsSymmetry
CHECK_DEADLOCK FALSE
