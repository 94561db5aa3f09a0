SPECIFICATION QueueSpec
CONSTANTS
    Producers = {p1, p2, p3}
    EvMax = 2
    MaxPush = 2
INVARIANTS
    QueueInv
    NoLostWakeup
    ListHoldsQueue
PROPERTY
    ImplementsFifo
CHECK_DEADLOCK FALSE
