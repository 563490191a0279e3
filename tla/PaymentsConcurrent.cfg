\* Two requests submit and cancel two payments that anyone may edit.
CONSTANTS
    Requests = {r1, r2}
    Payments = {p1, p2}
    Parties = {"c1"}
    Invoices <- InvoicesAndReturn
    MaxPaid = 2
    MaxLines = 2
    Null = Null
SPECIFICATION Spec
INVARIANTS
    TypeOK
    JournalFollowsStatus
    WritesAreCurrent
    OutstandingExact
SYMMETRY RequestSymmetry
CHECK_DEADLOCK FALSE
