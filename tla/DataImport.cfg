\* A start and two retries of an import of two rows, with any kind of handler.
CONSTANTS
    Rows = {1, 2}
    MaxRequests = 3
    MaxRacing = 1
    Handlers = {"nested", "commits", "rollsBack"}
    Null = Null
SPECIFICATION Spec
INVARIANTS
    TypeOK
    
    LogsTrue
    SuccessMeansImported
PROPERTIES
    SuccessIsFinal
    Settles
CHECK_DEADLOCK FALSE
