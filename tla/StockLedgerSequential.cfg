\* One request at a time: receipts, counts and a transfer in any order.
CONSTANTS
    r1 = r1
    r2 = r2
    w1 = w1
    w2 = w2
    Null = Null
    MaxRows = 20
    Requests = {r1}
    Pairs = {w1, w2}
    Entries <- CountedEntries
SPECIFICATION Spec
INVARIANTS
    UnreplayedBalances
    CountStands
CHECK_DEADLOCK FALSE
