SPECIFICATION Spec
CONSTANTS
    r1 = r1
    r2 = r2
    u1 = u1
    u2 = u2
    s1 = s1
    o1 = o1
    l1 = l1
    l2 = l2
    l3 = l3
    h1 = h1
    h2 = h2
    Requests = {r1}
    Users = {u1, u2}
    Skus = {s1}
    Opcos = {o1}
    Lines = {l1}
    Handlers = {h1}
    RequestOf <- MCRequestOf
    SkuOf <- MCSkuOf
    TargetOf <- MCTargetOf
    Corrections <- MCCorrections
    OpcoOf <- MCOpcoOf
    HasRitm = {l1}
    PlatformCreated = {}
    Unlimited = {}
    Seats <- MCSeats
    Allocated <- MCAllocated
    Opening <- MCOpening
    Start <- SerialStart
    Faults = {"crash"}
INVARIANT RetryCountsTheSeat
