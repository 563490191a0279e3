\* Two requests at a time draft, edit and submit a sale and two returns of it.
CONSTANTS
    s1 = s1
    t1 = t1
    t2 = t2
    Requests = {r1, r2}
    Invoices <- SaleAndReturns
    Against <- OfSale
    Stocked = {s1, t1}
    MaxQty = 2
    MaxMoves = 2
    Null = Null
SPECIFICATION Spec
INVARIANTS
    TypeOK
    ReturnedWithinSold
    RefundsWithinPaid
    JournalOnce
    PostedAsWritten
SYMMETRY RequestSymmetry
CHECK_DEADLOCK FALSE
