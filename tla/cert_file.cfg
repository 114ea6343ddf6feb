SPECIFICATION UpFairSpec
CONSTANTS
    c1 = c1
    c2 = c2
    u1 = u1
    Copiers = {c1, c2}
    Uploads = {u1}
    Size = 3
INVARIANTS
    WholeOrFailed
    SendsCertificates
PROPERTIES
    KeepsFile
    WholeForGood
    UploadEnds
CHECK_DEADLOCK FALSE
