SPECIFICATION FairSpec
CONSTANTS
    Lengths <- FewLengths
    Buffers <- FewBuffers
INVARIANTS
    SendsDocument
PROPERTIES
    Terminates
