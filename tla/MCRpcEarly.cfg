CONSTANTS
    node_cnt = 2
    Clients <- TwoOnOneNode
    Servers <- OneServer
    ServerNode <- CallNode1
    MAX_NUM_WQ = 1
    MAX_NUM_SRQ_SLOTS = 3
    REQ_THRESHOLD = 0
    CallIds = 2
    Registered <- TwoOnOneNode
    TestsNack = FALSE
    DEBUG_RMC = FALSE
    RaceWindow = FALSE

SPECIFICATION Spec
CHECK_DEADLOCK FALSE

INVARIANT AssertionsHold
