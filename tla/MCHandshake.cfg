CONSTANTS
    Remotes = {r1}
    Client = r1
    MaxConv = 3
    KeepTicks = 1
    MaxSessions = 4
    Recorded = {"accept", "error", "disconnect"}
    ConnectTimeOuts = {0, 1, 6}
    ReconnectInterval = 2
    SilenceTicks = 2
    MaxReconnects = 1
    MaxPacks = 2
SPECIFICATION FairSpec
INVARIANTS NoSilentDrop
PROPERTIES BoundOnce OrphanStops ConnectSettles SleepersLeave
CHECK_DEADLOCK FALSE
