CONSTANTS
    Items = {m1, m2, m3, m4}
    MaxSize = 3
    Senders = {world, receiver}
    NoItem = NoItem
SPECIFICATION SenderSpec
INVARIANTS SenderTypeOK PoppedWasSent
PROPERTIES UsesQueue
CHECK_DEADLOCK FALSE
