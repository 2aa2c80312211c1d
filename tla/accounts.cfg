SPECIFICATION MCSpec
CONSTANTS
    None = None
    Users = {u1, u2, u3}
    Calls = {c1, c2}
    Assignable = {"USER", "ADMIN"}
    MaxAttempts = 2
    Alone = {"reject", "deleteAccount"}
    NoOne = NoOne
    Accounts = {a1, a2}
    Identities = {i1}
    Flows = {f1, f2}
    Requests = {r1, r2}
    MaxGuesses = 1
    MaxSids = 3
    MaxRequests = 4
    MaxChanges = 1
INVARIANTS
    TypesOK
    AdminRemains
    LoginRight
PROPERTIES
    MembershipKept
    SidKeepsUser
SYMMETRY MCSymmetry
CHECK_DEADLOCK FALSE
