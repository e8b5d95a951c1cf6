SPECIFICATION Spec
CONSTANTS
    node_cnt = 3
    domid <- ServersTxt
    InOrder = FALSE
    Refusals = {"no root", "no first"}
    MaxRefusals = 0
    StackValues = {0, 1}
CHECK_DEADLOCK FALSE
PROPERTY AllActive
