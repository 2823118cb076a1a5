SPECIFICATION Spec
CONSTANTS
    SCREEN_WIDTH = 3
    SCREEN_HEIGHT = 2
    Slots = 3
    Functions = 2
    MAX_DEVICES = 3
    Wanted <- Svga
    Unset = Unset
    BootInfos <- TestInfos
    Machines <- TestMachines
    Banner <- ShortBanner
    DisplayName <- ShortName
    MaxKeys = 3
INVARIANTS
    TypeOK
    CursorSettles
    WritesInBounds
    ScanIsFaithful
    ParseFollowsTags
PROPERTIES
    BootFinishes
CHECK_DEADLOCK FALSE
