\* An event pool, all rules obeyed, fair threads.
CONSTANTS
    c1 = c1
    c2 = c2
    t1 = t1
    t2 = t2
    t3 = t3
    w1 = w1
    Clients = {c1}
    Tasks = {t1, t2}
    LoopTasks = {}
    Base = {w1}
    MaxThreads = 2
    EventPool = TRUE
    Rules <- AllRules
SPECIFICATION FairSpec
PROPERTIES
    QuickFreeStops EveryTaskEnds FreeReturns AgeReturns
CHECK_DEADLOCK FALSE
