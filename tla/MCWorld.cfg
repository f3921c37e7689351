CONSTANTS
    Remotes = {r1, r2}
    MaxConv = 3
    KeepTicks = 1
    MaxSessions = 4
    PlayerLimit = 1
    Recorded = {}
SPECIFICATION Spec
INVARIANTS TypeOK OneSessionPerRemote LiveHasOwner OnlyReuseStrands AdmissionExact
CHECK_DEADLOCK FALSE
