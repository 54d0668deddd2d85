SPECIFICATION LiveSpec
CONSTANTS
    n1 = n1
    n2 = n2
    w1 = w1
    Nodes = {n1, n2}
    Workers = {w1}
    Outcomes = {TRUE, FALSE}
INVARIANTS
    TypeOK
    NoPingOnClosedHost
PROPERTIES
    ShutdownReturns
CHECK_DEADLOCK FALSE
