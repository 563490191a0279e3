\* Two readers and a writer of one record.
CONSTANTS
    Requests = {r1, r2}
    Writers = {w1}
    VersionReadsFail = FALSE
    MaxWrites = 1
    MaxVersion = 2
    Null = Null
SPECIFICATION Spec
SYMMETRY ActorSymmetry
INVARIANT TypeOK
PROPERTY PromiseKept
CHECK_DEADLOCK FALSE
