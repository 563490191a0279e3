SPECIFICATION Spec
CONSTANTS
    Txns = {t1, t2}
    Sites <- TwoBranches
    Scope = "COMPANY"
    ResetPolicy = "NEVER"
    DocUnique = "branch"
    Kinds = {"generate", "manual", "bump"}
    Seeded <- SeededCompany
    MaxYear = 1
    MaxRows = 1
    MaxDocs = 2
    Null = Null
    NoTxn = NoTxn
SYMMETRY TxnSymmetry
INVARIANT GeneratedCodesUnique
INVARIANT GeneratedNeverRefused
CHECK_DEADLOCK FALSE
