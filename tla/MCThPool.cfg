SPECIFICATION Spec
CONSTANTS
    N = 2
    MaxTask = 3
INVARIANTS
    PoolInv
    LoopHasOneThread
PROPERTIES
    DestroyReturns
    TaskRuns
CHECK_DEADLOCK FALSE
