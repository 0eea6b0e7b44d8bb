\* One loop, one client, one connection and one acceptor, all habits.
CONSTANTS
    WorkerCnt = 1
    EpfdSlots = 32
    c1 = c1
    f1 = f1
    f2 = f2
    k1 = k1
    k2 = k2
    x1 = x1
    Clients = {c1}
    Fds = {f1, f2}
    MaxJobs = 3
    ThrdArg <- LoopZero
    Rules <- Kernel
    Conns = {k1}
    Acceptors = {x1}
    MsgLen <- TwoMessages
    NodeSize = 2
    Modes <- BothModes
    Habits <- AllHabits
SPECIFICATION RecvSpec
INVARIANTS
    NoUseAfterFree QueuedIsWatched  FreedStaysFreed
    CallbackFd
CHECK_DEADLOCK FALSE
