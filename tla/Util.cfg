SPECIFICATION UtilSpec
CONSTANTS
    m_node_cnt = 3
    PoolHabits = {"mallocOnly", "freeOwn", "resetUnused"}
    Heads = {h1, h2}
    Nodes = {n1, n2, n3, n4}
    NULL = NULL
    WordBits = 4
    PortBits = 3
    SCAN_PORT_MIN = 2
    TokenLists <- AllLists
    RangeHabits = {"portFits"}
    Callers = {c1, c2}
    RING_SIZE = 3
    LineLengths = {1, 2}
    MaxFileLen = 2
    g_logfile_max_cnt = 2
    CheckEvery = 2
    MaxMessages = 4
    MaxInits = 2
    LogHabits = {"oneWriter", "exitDrained", "restartEarly"}
INVARIANTS
    BlocksAccounted
    ListIsQueue
    
    LogIntact
CHECK_DEADLOCK FALSE
