SPECIFICATION ShutdownSpec
CONSTANTS
    NULL = NULL
    Conns = {c1, c2}
    NIo = 2
    NWorkers = 2
    Garbage = Garbage
    Fds = {1, 2}
    ConnSetSize = 3
    MaxReq = 3
    Depth = 2
    Decode = "drain"
    Answers = {c1, c2}
    Hangup = {}
    WriteFails = FALSE
    BadPackets = FALSE
    Quiet = TRUE
INVARIANTS
    ShutdownInv
    EchoInOrder
    OutputWatchedUntilStop
    DestroySafe
    NothingLeft
PROPERTIES
    AnsweredUntilStop
    ShutdownEnds
CHECK_DEADLOCK FALSE
