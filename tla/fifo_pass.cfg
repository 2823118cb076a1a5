SPECIFICATION FairSpec
CONSTANTS
    MIN = 1
    MAX = 4
    BOUNCE = 3
    Sizes = {1, 2, 3}
    Tags = {t1, t2}
    InitialReserved = {0, 1, 3, 5, RAGGED}
    RAGGED = RAGGED
    JUNK = JUNK
    t1 = t1
    t2 = t2
INVARIANTS
    TypeOK
    PointersMatchStream
    ReservationIsFree
    ClientWordsDelivered
PROPERTIES
    ImplementsStream
    ReserveReturns
