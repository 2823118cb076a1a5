SPECIFICATION Spec
CONSTANTS
    MIN = 1
    MAX = 4
    BOUNCE = 3
    Sizes = {0, 1, 2, 3}
    Tags = {t1}
    InitialReserved = {0}
    RAGGED = RAGGED
    JUNK = JUNK
    t1 = t1
INVARIANTS
    BulkWordsDelivered
