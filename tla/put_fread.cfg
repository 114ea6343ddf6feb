SPECIFICATION Spec
CONSTANTS
    Lengths <- FewLengths
    Buffers <- FewBuffers
INVARIANTS
    NothingBeyond
