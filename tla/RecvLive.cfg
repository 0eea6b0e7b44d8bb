\* One loop, one client, one connection, all habits, with fairness.
CONSTANTS
    WorkerCnt = 1
    EpfdSlots = 32
    c1 = c1
    f1 = f1
    f2 = f2
    k1 = k1
    k2 = k2
    x1 = x1
    Clients = {c1}
    Fds = {f1}
    MaxJobs = 2
    ThrdArg <- LoopZero
    Rules <- Kernel
    Conns = {k1}
    Acceptors = {}
    MsgLen <- TwoMessages
    NodeSize = 2
    Modes <- Async
    Habits <- AllHabits
SPECIFICATION RecvFairSpec
PROPERTIES Delivered FreeCompletes
CHECK_DEADLOCK FALSE
