SPECIFICATION RoomSpec
CONSTANTS
    NULL = NULL
    Garbage = Garbage
    Conns = {c1, c2}
    NIo = 3
    NWorkers = 2
    Fds = {1, 2}
    ConnSetSize = 4
    MaxReq = 1
    Depth = 1
    Decode = "drain"
    Answers = {}
    Hangup = {}
    WriteFails = FALSE
    BadPackets = FALSE
    Assembled = FALSE
INVARIANTS
    SenderSafe
CHECK_DEADLOCK FALSE
