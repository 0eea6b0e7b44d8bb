\* All rules obeyed, fair threads.
CONSTANTS
    th = th
    pt = pt
    k1 = k1
    k2 = k2
    Threads = {th, pt}
    PoolThreads = {pt}
    Keys = {k1}
    Periods = {0, 1}
    MaxTimers = 2
    MaxTime = 2
    Rules <- TimerRules
SPECIFICATION FairSpec
PROPERTIES
    TimerRuns DeleteReturns
CHECK_DEADLOCK FALSE
