CONSTANTS
    Workers = {w1, w2}
    Clients = {c1, c2}
    Closers = {s1, s2}
    Tasks = {t1, t2}
    Delays = {1, 2}
    MaxTime = 3
    NoTask = NoTask
SPECIFICATION FairSpec
INVARIANTS RunOnce ShutdownDrains WorkConserving SleepersInTime
PROPERTIES AcceptedRuns ShutdownReturns
CHECK_DEADLOCK FALSE
