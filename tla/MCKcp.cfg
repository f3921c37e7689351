CONSTANTS
    Endpoints <- MCEndpoints
    Script <- MCScript
    SndWnd = 2
    RcvWnd = 3
    NetCap = 2
SPECIFICATION Spec
INVARIANTS
    KcpTypeOK
    AckedIsReceived
    SendWindow
    NothingStranded
PROPERTIES
    Reliable
CHECK_DEADLOCK FALSE
