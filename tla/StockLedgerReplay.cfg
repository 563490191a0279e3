\* One request at a time: two receipts, the later one posted first.
CONSTANTS
    r1 = r1
    r2 = r2
    w1 = w1
    w2 = w2
    Null = Null
    MaxRows = 6
    Requests = {r1}
    Pairs = {w1}
    Entries <- TwoReceipts
SPECIFICATION Spec
INVARIANT
    BinCountsDocuments
CHECK_DEADLOCK FALSE
