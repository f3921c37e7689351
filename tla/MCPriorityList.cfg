CONSTANTS
    Systems = {"MOVEMENT", "STATUS", "INTERVAL_TIMER"}
    Priorities = {0, 1, 2}
SPECIFICATION Spec
INVARIANT SizeIsLength
CHECK_DEADLOCK FALSE
