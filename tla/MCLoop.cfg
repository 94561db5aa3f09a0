SPECIFICATION Spec
CONSTANTS
    NULL = NULL
    Ios = {i1, i2}
    Fds = {0, 1}
    SetSize = 2
    Conditions = {{}, {"EPOLLIN"}, {"EPOLLIN", "EPOLLOUT", "EPOLLHUP"}}
INVARIANTS
    LoopInv
    PollerInSync
    TableMatches
PROPERTIES
    CallsStartedIo
    ReadyIsCalled
CHECK_DEADLOCK FALSE
