SPECIFICATION Spec
CONSTANTS
    r1 = r1
    r2 = r2
    r3 = r3
    p1 = p1
    p2 = p2
    Nobody = Nobody
    Requests = {r1, r2, r3}
    People = {p1, p2}
    Order <- MCOrder
    Batch = 2
    Sweeps = {w1}
    Checks = {}
    Edits = {}
    FirstTarget <- MCFirstTarget
    Corrections <- MCCorrections
    Joiners = {p2}
    Ambiguous = {p1}
    Breakable = {"graph", "servicenow", "process"}
INVARIANT OneRefusalPerRound
PROPERTIES
    GateOneOpens
    GateTwoOpens
