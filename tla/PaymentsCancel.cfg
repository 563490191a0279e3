\* A payment of half an invoice is submitted and cancelled.
CONSTANTS
    Requests = {r1}
    Payments = {p1}
    Parties = {"c1"}
    Invoices <- OneInvoice
    MaxPaid = 1
    MaxLines = 1
    Null = Null
SPECIFICATION Spec
INVARIANT CancelRestores
CHECK_DEADLOCK FALSE
