SPECIFICATION Spec
CONSTANTS
    NULL = NULL
    Conns = {c1}
    NIo = 2
    NWorkers = 1
    Garbage = Garbage
    Fds = {1}
    ConnSetSize = 4
    MaxReq = 1
    Depth = 1
    Decode = "framed"
    Answers = {c1}
    Hangup = {c1}
    WriteFails = FALSE
    BadPackets = FALSE
INVARIANTS
    FreedIsReleased
CHECK_DEADLOCK FALSE
