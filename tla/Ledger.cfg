SPECIFICATION Spec
CONSTANTS
    Blocks = {"b1", "b2", "c2"}
    Genesis = "g"
    Parent <- MCParent
    Index <- MCIndex
    Transactions <- MCTransactions
    Writes = {TRUE, FALSE}
    Readers = {"r1"}
    MaxFailed = 2
INVARIANTS
    TypeOK
    ListIsComplete
    LatestNotStale
    AddedIsFound
    SuccessorsFound
CHECK_DEADLOCK FALSE
