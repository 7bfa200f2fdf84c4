SPECIFICATION Spec
CONSTANTS
    f1 = f1
    f2 = f2
    i1 = i1
    h1 = h1
    h2 = h2
    Forms = {f1, f2}
    Onboardings = {i1}
    LinesOf <- MCLines
    Handlers = {h1, h2}
    MaxTickets = 3
    MaxRows = 3
    MaxJobs = 3
    NoTicket = NoTicket
    Given = Given
    Routes = {"flat", "native", "canonical"}
SYMMETRY MCSymmetry
INVARIANTS
    TypeOK
    RaisedOnce
    AnsweredTicketIsTraceable
    HandledMeansAskedFor
    ResolvedMeansMirrored
    OrderedItemsAreOwn
    RowRaisesOnce
    ToldOnce
CHECK_DEADLOCK FALSE
