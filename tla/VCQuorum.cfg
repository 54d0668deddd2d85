SPECIFICATION LiveSpec
CONSTANTS
    n1 = n1
    n2 = n2
    n3 = n3
    b1 = b1
    NoOne = NoOne
    Nodes = {n1, n2, n3}
    Blocks = {b1}
    Members <- AllMembers
    QuorumThreshold = 2
    ChanCap = 1
    Contenders = {n1}
    Outcomes = {TRUE}
    MaxProposers = 1
    MaxStarts = 1
INVARIANTS
    TypeOK
    FinalizedHasQuorum
    FinalizedWasProposed
PROPERTIES
    LeaderFinalizes
    ImplementsQuorumFinality
