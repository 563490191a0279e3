\* Two requests write, submit and cancel two receipts and a return.
CONSTANTS
    r1 = r1
    r2 = r2
    p1 = p1
    p2 = p2
    b1 = b1
    Null = Null
    Requests = {r1, r2}
    Receipts = {p1, p2, b1}
    Returns = {b1}
    Time <- Times
    MaxQty <- Quantity
    MaxRows = 5
SPECIFICATION Spec
INVARIANTS
    TypeOK
    LedgerFollowsStatus
    BinCurrent
    PostedAsWritten
SYMMETRY RequestSymmetry
CHECK_DEADLOCK FALSE
