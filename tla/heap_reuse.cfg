SPECIFICATION Spec
CONSTANTS
    HeapSize = 16
    HDR = 2
    Requests = {1, 3}
    NULL = NULL
INVARIANTS
    FreedIsReusable
CHECK_DEADLOCK FALSE
