SPECIFICATION Spec
CONSTANTS
    NumCores = 2
    Children = {k1, k2}
    Fuel <- Shares
    Dec = 1
INVARIANTS TypeOK CountExact CoresOutExact ChecksHold PhasesApart
PROPERTY LoopWoken
