CONSTANTS
    MAX_NUM_WQ = 2
    node_cnt = 2
    this_nid = 0
    CtxWords = 2
    BufWords = 2
    RegZeroWords = 1
    Values <- MCValues
    InitCtx <- MCInitCtx
    AppData <- MCAppData
    Requests <- MCRequests
    SyncOnFullRing = FALSE

SPECIFICATION Spec

INVARIANTS
    TypeOK
    RingInv
    SyncCompletesItself

PROPERTIES
    NoClobber
    CallsReturn
    ImplementsOneSided
