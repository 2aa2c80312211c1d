SPECIFICATION MCSpec
CONSTANTS
    None = None
    Users = {u1, u2, u3}
    Calls = {c1, c2}
    Assignable = {"USER", "ADMIN"}
    MaxAttempts = 2
    Alone = {"deleteAccount"}
    NoOne = NoOne
    Accounts = {a1}
    Identities = {i1}
    Flows = {f1}
    Requests = {r1}
    MaxGuesses = 1
    MaxSids = 1
    MaxRequests = 0
    MaxChanges = 0
INVARIANTS
    AdminRemains
SYMMETRY MCSymmetry
CHECK_DEADLOCK FALSE
