SPECIFICATION FairSpec
CONSTANTS
    Managers = {m1, m2}
    NoManager = NoManager
    Handlers = {h1, h2}
    NoHandler = NoHandler
    Lines = {1, 9, 12}
    MaxRaises = 2
    MaxCalls = 4
INVARIANTS TypeOK NumberMatchesLine InServiceAccounts
PROPERTIES ImplementsService TopLinesServed
CHECK_DEADLOCK FALSE
