SPECIFICATION Spec
CONSTANTS
    Byte = 4
    HashSize = 2
    AddressSize = 2
    IPLength = 3
    MACLength = 2
    SignatureLength = 3
    Samples <- AllSamples
INVARIANTS
    NoPanic
    RoundTrip
    CutIsNoticed
    SignedBytesSurvive
    MerkleCommits
CHECK_DEADLOCK FALSE
