SPECIFICATION Spec
CONSTANTS
    NULL = NULL
    Conns = {c1, c2}
    NIo = 3
    NWorkers = 2
    Garbage = Garbage
    Fds = {1, 2}
    ConnSetSize = 4
    MaxReq = 2
    Depth = 1
    Decode = "framed"
    Answers = {c1, c2}
    Hangup = {c1, c2}
    WriteFails = TRUE
    BadPackets = TRUE
INVARIANTS
    ServiceInv
    RefCounted
    MessagesPinConnection
    TableExact
    OwnDescriptor
PROPERTIES
    ClosedIsFinal
    DisconnectNoticed
CHECK_DEADLOCK FALSE
