SPECIFICATION ParitySpec
CONSTANTS
    Writers = {w1}
    Readers = {}
    b1 = b1
    b2 = b2
    b3 = b3
    d1 = d1
    d2 = d2
    o1 = o1
    o2 = o2
    h1 = h1
    h2 = h2
    Hosts <- MCHosts
    Asked <- MCAsked
    Boms <- MCBoms
    Datas <- MCDatas
    Orders <- MCOrders
    DataOf <- MCDataOf
    OrderOf <- MCOrderOf
    NoBom = NoBom
    None = None
    MaxCrashes = 1
SYMMETRY MCSymmetry
INVARIANT ParityExact
INVARIANT ParityIsSnapshot
CHECK_DEADLOCK FALSE
