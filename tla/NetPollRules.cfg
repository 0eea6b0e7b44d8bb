\* Two loops, one client, all rules obeyed.
CONSTANTS
    WorkerCnt = 2
    EpfdSlots = 32
    c1 = c1
    c2 = c2
    f1 = f1
    f2 = f2
    Clients = {c1}
    Fds = {f1, f2}
    MaxJobs = 2
    ThrdArg <- MixedThrdArg
    Rules <- AllRules
SPECIFICATION Spec
INVARIANTS
    TypeOK NoDangling OwnedOnce InterestMatchesFlags DeletedUnwatched
    OneJobPerFd ReadReady NoAbort FreedByUser
CHECK_DEADLOCK FALSE
