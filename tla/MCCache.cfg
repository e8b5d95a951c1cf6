SPECIFICATION Spec
CONSTANTS
    NumCores = 2
    block_size = 4
    SizeT = 3
    MemSize = 10
    Kinds = {"RO", "RW", "WO"}
    Ranges <- AllRanges
    ResetRanges <- RemoteRanges
    MaxResets = 2
    MayGrow = FALSE
CHECK_DEADLOCK FALSE
INVARIANTS MessagesExact AcquiredRight HomeRight BufferKept
PROPERTY CallsReturn
