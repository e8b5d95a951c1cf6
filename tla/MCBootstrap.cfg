SPECIFICATION Spec
CONSTANTS
    node_cnt = 3
    domid <- ServersTxt
    InOrder = TRUE
    Refusals = {"no root", "no first"}
    MaxRefusals = 2
    StackValues = {0, 1}
CHECK_DEADLOCK FALSE
INVARIANTS TypeOK RefsPaired SpaceRight
PROPERTY AllActive
