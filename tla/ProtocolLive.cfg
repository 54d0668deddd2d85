SPECIFICATION LiveSpec
CONSTANTS
    n1 = n1
    n2 = n2
    b1 = b1
    NoOne = NoOne
    Hosts = {n1, n2}
    Blocks = {b1}
    Validators = {n1, n2}
    InitialSet = {n1, n2}
    Threshold = 0
    LeaderID = n1
    Keys <- OwnKeys
    Slots <- TwoForFollowers
    Outcomes = {TRUE}
    Redelivery = {FALSE}
    Movers = {}
    MaxCalls <- LeaderCalls
PROPERTIES
    HandlersReturn
    AllFinalize
CHECK_DEADLOCK FALSE
