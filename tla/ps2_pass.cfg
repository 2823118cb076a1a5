SPECIFICATION Spec
CONSTANTS
    CommandBytes = {97, 68}
    Leftovers = {30}
    EarlyInput = FALSE
    MaxInputs = 3
INVARIANTS TypeOK KeysInOrder ButtonsInOrder CommandByteMerged
PROPERTIES EverythingRead
CHECK_DEADLOCK FALSE
