\* Two requests submit and cancel a journal, an expense and a closing voucher.
CONSTANTS
    j = j
    e = e
    c = c
    cash = cash
    pnl = pnl
    summary = summary
    equity = equity
    Requests = {r1, r2}
    Documents <- Books
    Kind <- KindOf
    Accounts <- Chart
    PnL = pnl
    Side <- Template
    MaxAmount <- Amounts
    Null = Null
SPECIFICATION Spec
INVARIANTS
    TypeOK
    BalancesExact
    JournalsFollowStatus
    PostedAsWritten
    OnlyManualsDeadlock
PROPERTY
    RequestsEnd
CHECK_DEADLOCK FALSE
