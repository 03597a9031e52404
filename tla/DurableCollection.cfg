SPECIFICATION Spec
CONSTANTS
    Clients = {c1, c2}
    Ids = {s1, s2}
    Names = {n1, n2}
    Files = {f1, f2}
    MaxCommands = 5
    SwallowedErrors = {"ids", "prefix", "roots"}
    None = None
SYMMETRY MCSymmetry
INVARIANT PointerIntact
INVARIANT CollectionComplete
PROPERTY ClearsOnlyTarget
CHECK_DEADLOCK FALSE
