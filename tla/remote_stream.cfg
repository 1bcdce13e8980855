SPECIFICATION Spec
CONSTANTS
    h1 = h1
    h2 = h2
    Handlers <- TwoHandlers
    Ops <- AllOps
    MaxOps = 2
    MaxRun = 2
    MaxReader = 2
    Recorded <- Brief
    MaxToken = 1
    MaxDrop = 1
    GiveUp = 2
SYMMETRY Symmetry
INVARIANTS
    TextIsJournal
    OneCompletion
PROPERTIES
    FinishedTurnStays
CHECK_DEADLOCK FALSE
