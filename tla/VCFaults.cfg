SPECIFICATION Spec
CONSTANTS
    n1 = n1
    n2 = n2
    b1 = b1
    NoOne = NoOne
    Nodes = {n1, n2}
    Blocks = {b1}
    Members <- AllMembers
    QuorumThreshold = 0
    ChanCap = 2
    Contenders = {n1}
    Outcomes = {TRUE, FALSE}
    MaxProposers = 1
    MaxStarts = 2
PROPERTIES
    ImplementsQuorumFinality
INVARIANTS
    IInv
