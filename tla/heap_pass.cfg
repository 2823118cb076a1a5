SPECIFICATION FairSpec
CONSTANTS
    HeapSize = 16
    HDR = 2
    Requests = {0, 1, 3, 4}
    NULL = NULL
INVARIANTS
    TypeOK
    ListTilesHeap
    HeldIsAllocated
    OnlyTailFree
PROPERTIES
    NullOnlyWhenFull
    MallocReturns
    KeepsPromises
CHECK_DEADLOCK FALSE
