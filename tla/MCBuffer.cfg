SPECIFICATION Spec
CONSTANTS
    InitSize = 4
    MoveCheck = 2
    MaxLen = 2
    MaxBacklog = 3
    MaxWritten = 16
INVARIANTS
    BufferInv
    IndicesOrdered
    MemoryBounded
PROPERTY
    ImplementsByteStream
