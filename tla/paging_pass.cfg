SPECIFICATION Spec
CONSTANTS
    Entries = 3
    NumBoot = 5
    BootTables <- SmallBoot
    PagingSpace = 3
    Wrap = 2
    Frames = {10, 20}
    Counts = {1, 2, 3}
    MaxCalls = 2
    EMPTY = EMPTY
INVARIANTS
    TypeOK
    TablesFormTree
    MapEffect
    ResultIsHonest
PROPERTIES
    ImplementsAddressSpace
CHECK_DEADLOCK FALSE
