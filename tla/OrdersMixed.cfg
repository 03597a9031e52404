SPECIFICATION Spec
CONSTANTS
    Orders = {oA, oB}
    Requests = {r1, r2}
    MaxCrashes = 1
    None = None
SYMMETRY Symmetry
INVARIANT OrderDocIsInvoiceOrder
CHECK_DEADLOCK FALSE
