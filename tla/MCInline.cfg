SPECIFICATION Spec
CONSTANTS
    NULL = NULL
    Conns = {c1, c2}
    NIo = 1
    NWorkers = 0
    Garbage = Garbage
    Fds = {1, 3}
    ConnSetSize = 2
    MaxReq = 2
    Depth = 2
    Decode = "drain"
    Answers = {c1}
    Hangup = {c1, c2}
    WriteFails = FALSE
    BadPackets = TRUE
INVARIANTS
    FreedIsReleased
    TableExact
PROPERTIES
    HangupReleases
CHECK_DEADLOCK FALSE
