SPECIFICATION RoomSpec
CONSTANTS
    NULL = NULL
    Garbage = Garbage
    Conns = {c1, c2}
    NIo = 3
    NWorkers = 2
    Fds = {1, 2}
    ConnSetSize = 4
    MaxReq = 1
    Depth = 1
    Decode = "drain"
    Answers = {}
    Hangup = {c2}
    WriteFails = FALSE
    BadPackets = FALSE
    Assembled = TRUE
INVARIANTS
    RoomInv
    SenderSafe
    RoomRefCounted
    SameConversation
PROPERTIES
    Delivered
CHECK_DEADLOCK FALSE
