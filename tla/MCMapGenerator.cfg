CONSTANTS
    TotalMaps = 3
    Polls = 2
SPECIFICATION FairSpec
INVARIANTS TypeOK HandedOver OneFinished
PROPERTIES AllHandedOver QuitReturns
CHECK_DEADLOCK FALSE
