SPECIFICATION Spec
CONSTANTS
    Managers = {m1}
    NoManager = NoManager
    Handlers = {h1}
    NoHandler = NoHandler
    Lines = {1, 9, 12}
    MaxRaises = 2
    MaxCalls = 2
INVARIANTS AllAcknowledged
CHECK_DEADLOCK FALSE
