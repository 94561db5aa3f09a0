SPECIFICATION ShutdownSpec
CONSTANTS
    NULL = NULL
    Conns = {c1}
    NIo = 2
    NWorkers = 1
    Garbage = Garbage
    Fds = {1}
    ConnSetSize = 2
    MaxReq = 1
    Depth = 1
    Decode = "drain"
    Answers = {c1}
    Hangup = {c1}
    WriteFails = FALSE
    BadPackets = FALSE
    Quiet = TRUE
INVARIANTS
    StopSafe
CHECK_DEADLOCK FALSE
