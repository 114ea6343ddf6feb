SPECIFICATION FairSpec
CONSTANTS
    Threads = {t1, t2}
    segv = segv
    pipe = pipe
    usr1 = usr1
    Order <- EachKind
    SIGSEGV = segv
    Faults = {segv}
    Platform <- BeforeInstall
    Path = path
    Null = null
    MaxInstalls = 2
INVARIANTS
    ReportedUnlessRaced
    MarkedByFirst
    OverflowOnlyOverItself
PROPERTIES
    SignalEnds
CHECK_DEADLOCK FALSE
