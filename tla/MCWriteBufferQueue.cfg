CONSTANTS
    Items = {m1, m2, m3, m4, m5, m6}
    MaxSize = 4
SPECIFICATION Spec
INVARIANTS TypeOK Kept ActivePosExact
CHECK_DEADLOCK FALSE
