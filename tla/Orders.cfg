SPECIFICATION Spec
CONSTANTS
    Orders = {oA, oB}
    Requests = {r1, r2}
    MaxCrashes = 1
    None = None
SYMMETRY Symmetry
INVARIANTS
    BomCoherent
    WaitEnds
    LocatorsResolve
CHECK_DEADLOCK FALSE
