SPECIFICATION Spec
CONSTANTS
    Cards <- MCCards
    Modes = {1}
    Room = 2
    MaxCalls = 4
    StaleSwitch = {FALSE, TRUE}
    StaleMembers = {FALSE, TRUE}
INVARIANTS
    TypeOK
    NoFlagLost
    SleepsOnNothing
    ConfiguredSafely
PROPERTIES
    FrameLeavesDisarmed
    InitReturns
CHECK_DEADLOCK FALSE
