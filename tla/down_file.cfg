SPECIFICATION FairSpec
CONSTANTS
    d1 = d1
    d2 = d2
    Downloads = {d1, d2}
    Size = 2
    Announced <- Lengths
    SizeBits = 64
INVARIANTS
    LastIsWhole
    SuccessMeans
PROPERTIES
    KeepsFile
    FileIsClosed
CHECK_DEADLOCK FALSE
