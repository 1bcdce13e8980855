SPECIFICATION FairSpec
CONSTANTS
    h1 = h1
    h2 = h2
    c1 = c1
    c2 = c2
    Handlers <- TwoHandlers
    Workers = {1, 2}
    Observers = {1, 2, 3, 4}
    Convs <- TwoConvs
    None = None
    Saved <- OneConv
    Ops <- AllOps
    MaxOps = 2
    MaxVersion = 2
    MaxDrop = 1
INVARIANTS
    NoInvalidationLost
PROPERTIES
    Settles
CHECK_DEADLOCK FALSE
