SPECIFICATION LiveSpec
CONSTANTS
    n1 = n1
    n2 = n2
    b1 = b1
    NoOne = NoOne
    Nodes = {n1, n2}
    Blocks = {b1}
    Members <- AllMembers
    QuorumThreshold = 0
    ChanCap = 1
    Contenders = {n1, n2}
    Outcomes = {TRUE}
    MaxProposers = 1
    MaxStarts = 1
PROPERTIES
    FollowersFinalize
