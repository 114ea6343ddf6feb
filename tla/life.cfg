SPECIFICATION FairSpec
CONSTANTS
    r1 = r1
    r2 = r2
    f1 = f1
    k1 = k1
    k2 = k2
    a1 = a1
    a2 = a2
    Requests = {r1, r2}
    Listening = {r1}
    Reporting = {r1}
    Activities = {a1, a2}
    Fields = {f1}
    Hashes = {k1, k2}
    Null = Null
    MaxProgress = 1
    MaxAgain = 1
CHECK_DEADLOCK FALSE
INVARIANTS
    WorkersServed
    ServedUntilOverlap
    ToldInOrder
PROPERTIES
    KeepsPromise
    UsesExecutor
    UninitReturns
    EventuallySettled
