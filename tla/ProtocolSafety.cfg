SPECIFICATION Spec
CONSTANTS
    n1 = n1
    n2 = n2
    b1 = b1
    NoOne = NoOne
    Hosts = {n1, n2}
    Blocks = {b1}
    Validators = {n1, n2}
    InitialSet = {n1, n2}
    Threshold = 0
    LeaderID = n1
    Keys <- OwnKeys
    Slots <- TwoForFollowers
    Outcomes = {TRUE, FALSE}
    Redelivery = {TRUE}
    Movers = {n2}
    MaxCalls <- LeaderCallsTwice
INVARIANTS
    TypeOK
    PoolDrains
PROPERTIES
    ImplementsQuorumFinality
CHECK_DEADLOCK FALSE
