SPECIFICATION Spec
CONSTANTS
    NumCores = 2
    NumWorkers = 1
    StackSize = 7
    ChunkSize = 2
    MaxTasks = 6
    BoundTasks = {1, 5}
    Spawners = {1, 2}
    FirstTasks = 3
    neighbors <- Rotated
INVARIANTS TypeOK EachTaskOnce SegmentsCovered OneThief
PROPERTY AllExecuted
