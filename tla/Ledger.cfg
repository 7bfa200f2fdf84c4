SPECIFICATION Spec
CONSTANTS
    o1 = o1
    o2 = o2
    s1 = s1
    s2 = s2
    a1 = a1
    NoAlias = NoAlias
    h1 = h1
    h2 = h2
    Opcos = {o1, o2}
    Skus = {s1, s2}
    Aliases = {a1}
    Catalogs <- MCCatalogs
    Cells <- MCCells
    Handlers = {h1, h2}
    MaxQuantity = 1
    MaxJobs = 3
    MaxMoves = 1
SYMMETRY MCSymmetry
INVARIANTS
    TypeOK
    AliasNamesOneSku
    TrailExplains
    DriftIsShown
CHECK_DEADLOCK FALSE
