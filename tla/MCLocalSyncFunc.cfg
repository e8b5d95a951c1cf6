SPECIFICATION Spec
CONSTANTS
    Workers = {w1, w2, w3}
    Remotes = {r1, r2}
    NumMessages = 2
    PoolSize = 2
    Enrolled = 2
    Programs <- SeparatePrograms
    FuncLocks = FALSE
    MaxCalls <- CallBounds
    NoWorker = NoWorker
CHECK_DEADLOCK FALSE
INVARIANT MutexWakes
