SPECIFICATION Spec
CONSTANTS
    Txns = {t1, t2}
    Sites <- OneBranch
    Scope = "BRANCH"
    ResetPolicy = "YEARLY"
    DocUnique = "company"
    Kinds = {"generate", "manual"}
    Seeded <- NoSeed
    MaxYear = 2
    MaxRows = 2
    MaxDocs = 3
    Null = Null
    NoTxn = NoTxn
SYMMETRY TxnSymmetry
INVARIANT TypeOK
INVARIANT OneRowPerPartition
INVARIANT GapFree
PROPERTY CounterNeverRewinds
CHECK_DEADLOCK FALSE
