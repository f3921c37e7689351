CONSTANTS
    Items = {m1, m2, m3, m4}
    MaxSize = 2
    Senders = {world, receiver}
    NoItem = NoItem
SPECIFICATION SenderFairSpec
PROPERTIES AcceptedIsSent
CHECK_DEADLOCK FALSE
