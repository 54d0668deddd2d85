SPECIFICATION Spec
CONSTANTS
    Accounts = {"a", "b", "v"}
    Validator = "v"
    Alloc <- Allocation
    Transactions <- TwoPayments
    Limits = {2}
    BlockSize = 2
    Word = 16
    Writes = {"stored"}
    MaxBlocks = 2
INVARIANTS NoDoubleSpend
CHECK_DEADLOCK FALSE
