CONSTANTS
    Ids = {c1, c2, c3, c4}
    MinElements = 3
    Catalog = "INTERVAL_TIMER"
SPECIFICATION Spec
INVARIANT UnregisteredLeave
SYMMETRY IdSymmetry
CHECK_DEADLOCK FALSE
