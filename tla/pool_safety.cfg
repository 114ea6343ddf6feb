SPECIFICATION FairSpec
CONSTANTS
    Tasks = {t1, t2, t3}
    Callers = {c1, c2}
    NoTask = NoTask
    NoOne = NoOne
    Destroyer = Destroyer
    count_begin = 1
    count_max_growth = 4
    THRESHOLD = 3
    MaxSpurious = 1
INVARIANTS
    TypeOK
    OnePlace
    NoLostWakeup
    CounterExact
    NoWorkerOutlivesPool
PROPERTIES
    JoinStable
    ExecutorSpec
    EventuallyRuns
    DestructorReturns
