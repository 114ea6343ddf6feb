SPECIFICATION Spec
CONSTANTS
    r1 = r1
    r2 = r2
    Requests = {r1, r2, r3}
    Kind <- SameKind
    Handles = {h1, h2, h3}
    NoHandle = NoHandle
    Paths = {}
    NoPath = NoPath
    HttpPaths = {}
    Sizes = {1, 2}
    HTTPALIVE_TIME = 1
    MaxTime = 0
    MaxInit = 2
SYMMETRY Symmetry
PROPERTIES
    BoundWhenAdded
