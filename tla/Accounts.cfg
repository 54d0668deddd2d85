SPECIFICATION Spec
CONSTANTS
    p1 = p1
    p2 = p2
    n1 = n1
    n2 = n2
    Procs <- MCProcs
    Names <- MCNames
    MaxAccounts = 3
SYMMETRY Symmetry
INVARIANTS
    TypeOK
    FoundByAddress
PROPERTIES
    OpenFindsAll
    DeletedStaysDeleted
CHECK_DEADLOCK FALSE
