CONSTANTS
    WorkerCnt = 2
    EpfdSlots = 32
    c1 = c1
    c2 = c2
    f1 = f1
    f2 = f2
    Clients = {c1}
    Fds = {f2}
    MaxJobs = 2
    ThrdArg <- MixedThrdArg
    Rules = {"keepEvent", "noReadd", "userFree"}
SPECIFICATION FairSpec
PROPERTIES
    ImplementsJobLife
    Reaped
CHECK_DEADLOCK FALSE
