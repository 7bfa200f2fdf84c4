SPECIFICATION Spec
CONSTANTS
    u1 = u1
    u2 = u2
    h1 = h1
    h2 = h2
    Users = {u1, u2}
    Local = {u1}
    Handlers = {h1, h2}
    Threshold = 2
    MaxTokens = 3
    MaxLinks = 2
    MaxJobs = 4
SYMMETRY MCSymmetry
INVARIANTS
    TypeOK
    SpentOnce
    ResetEndsSessions
    AdminRemains
    LockoutCounts
CHECK_DEADLOCK FALSE
