\* The worker pool that runs two event loops.
CONSTANTS
    c1 = c1
    c2 = c2
    t1 = t1
    t2 = t2
    t3 = t3
    w1 = w1
    Clients = {c1}
    Tasks = {t1, t2}
    LoopTasks = {t1, t2}
    Base = {w1}
    MaxThreads = 2
    EventPool = FALSE
    Rules <- AllRules
SPECIFICATION FairSpec
PROPERTIES
    LoopTasksStart
CHECK_DEADLOCK FALSE
