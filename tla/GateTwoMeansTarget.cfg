SPECIFICATION Spec
CONSTANTS
    r1 = r1
    r2 = r2
    r3 = r3
    p1 = p1
    p2 = p2
    Nobody = Nobody
    Requests = {r1, r2}
    People = {p1, p2}
    Order <- MCOrder
    Batch = 2
    Sweeps = {w1}
    Checks = {}
    Edits = {e1}
    FirstTarget <- MCFirstTarget
    Corrections <- MCCorrections
    Joiners = {p1, p2}
    Ambiguous = {}
    Breakable = {}
INVARIANT GateTwoMeansTarget
