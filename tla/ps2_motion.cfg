SPECIFICATION Spec
CONSTANTS
    CommandBytes = {97}
    Leftovers = {30}
    EarlyInput = FALSE
    MaxInputs = 3
INVARIANTS WholePackets
CHECK_DEADLOCK FALSE
