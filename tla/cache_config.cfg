SPECIFICATION Spec
CONSTANTS
    r1 = r1
    r2 = r2
    Requests = {r1, r2}
    Kind <- PostKinds
    Handles = {h1, h2}
    NoHandle = NoHandle
    Paths = {p1, p2}
    NoPath = NoPath
    HttpPaths = {p1}
    Sizes = {1}
    HTTPALIVE_TIME = 1
    MaxTime = 0
    MaxInit = 1
SYMMETRY HandleSymmetry
INVARIANTS
    ConfigOfRequest
PROPERTIES
    KeepsPromise
