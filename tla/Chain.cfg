SPECIFICATION Spec
CONSTANTS
    Accounts = {"a", "b", "v"}
    Validator = "v"
    Alloc <- Allocation
    Transactions <- SomeTransactions
    Limits = {0, 2}
    BlockSize = 2
    Word = 16
    Writes = {"stored", "noVertex", "noEdge"}
    MaxBlocks = 2
INVARIANTS
    TypeOK
    AppliedInOneBlock
    HeadOnDisk
    StoppedForgesNothing
PROPERTIES
    PoolWithinLimit
CHECK_DEADLOCK FALSE
