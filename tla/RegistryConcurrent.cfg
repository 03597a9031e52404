SPECIFICATION Spec
CONSTANTS
    Writers = {w1, w2}
    Readers = {r1}
    b1 = b1
    b2 = b2
    d1 = d1
    d2 = d2
    o1 = o1
    o2 = o2
    Boms <- MCBoms
    Datas <- MCDatas
    Orders <- MCOrders
    DataOf <- MCDataOf
    OrderOf <- MCOrderOf
    NoBom = NoBom
    MaxCrashes = 1
INVARIANT TypeOK
INVARIANT IndexSound
INVARIANT NoDuplicates
INVARIANT NotFoundIsTrue
INVARIANT AnswerMatchesRequest
