CONSTANTS
    node_cnt = 2
    Clients <- TwoOnOneNode
    Servers <- OneServer
    ServerNode <- CallNode1
    MAX_NUM_WQ = 2
    MAX_NUM_SRQ_SLOTS = 3
    REQ_THRESHOLD = 1
    CallIds = 2
    Registered <- OneServer
    TestsNack = FALSE
    DEBUG_RMC = TRUE
    RaceWindow = FALSE

SPECIFICATION Spec
CHECK_DEADLOCK FALSE

INVARIANT AssertionsHold
