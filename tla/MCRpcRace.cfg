CONSTANTS
    node_cnt = 2
    Clients <- TwoOnOneNode
    Servers <- OneServer
    ServerNode <- CallNode1
    MAX_NUM_WQ = 1
    MAX_NUM_SRQ_SLOTS = 3
    REQ_THRESHOLD = 0
    CallIds = 2
    Registered <- Everybody
    TestsNack = FALSE
    DEBUG_RMC = FALSE
    RaceWindow = TRUE

SPECIFICATION Spec
CHECK_DEADLOCK FALSE

PROPERTY GivenBackByHolder
