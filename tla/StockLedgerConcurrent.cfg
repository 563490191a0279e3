\* Two requests submit and cancel four documents of one pair in any order.
CONSTANTS
    r1 = r1
    r2 = r2
    w1 = w1
    w2 = w2
    Null = Null
    MaxRows = 13
    Requests = {r1, r2}
    Pairs = {w1}
    Entries <- PairEntries
SPECIFICATION Spec
INVARIANTS
    TypeOK
    BinIsSnapshot
    EntryPostedOnce
    BooksMatchStock
PROPERTY
    HistoryKept
SYMMETRY RequestSymmetry
CHECK_DEADLOCK FALSE
