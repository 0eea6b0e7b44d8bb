\* All rules obeyed.
CONSTANTS
    th = th
    pt = pt
    k1 = k1
    k2 = k2
    Threads = {th, pt}
    PoolThreads = {pt}
    Keys = {k1, k2}
    Periods = {1}
    MaxTimers = 3
    MaxTime = 2
    Rules <- TimerRules
SPECIFICATION Spec
INVARIANTS
    TypeOK WalkSafe  OnceRunsOnce
CHECK_DEADLOCK FALSE
