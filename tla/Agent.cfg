SPECIFICATION Spec
CONSTANTS
    q1 = q1
    c1 = c1
    h1 = h1
    h2 = h2
    Requests = {q1}
    Chats = {c1}
    RequestOf <- MCRequestOf
    NoRequest = NoRequest
    Handlers = {h1, h2}
    Items = 2
    MaxHistory = 1
    MaxRuns = 2
    MaxProposals = 2
    MaxJobs = 4
    MaxFlips = 1
SYMMETRY MCSymmetry
INVARIANTS
    TypeOK
    OneOpenRun
    VerdictMatchesWork
    NothingLeftPending
    RunningIsCarried
PROPERTIES
    EndedStaysEnded
    SwitchedOffIsInert
CHECK_DEADLOCK FALSE
