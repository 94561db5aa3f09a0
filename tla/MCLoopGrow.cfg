SPECIFICATION Spec
CONSTANTS
    NULL = NULL
    Ios = {i1, i2, i3}
    Fds = {1, 2}
    SetSize = 2
    Conditions = {{}, {"EPOLLIN"}, {"EPOLLIN", "EPOLLOUT", "EPOLLHUP"}}
INVARIANTS
    EntriesAllocated
CHECK_DEADLOCK FALSE
