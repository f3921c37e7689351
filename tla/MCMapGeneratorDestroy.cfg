CONSTANTS
    TotalMaps = 1
    Polls = 2
SPECIFICATION FairSpec
INVARIANTS StaysDestroyed
CHECK_DEADLOCK FALSE
