SPECIFICATION Spec
CONSTANTS
    t1 = t1
    t2 = t2
    t3 = t3
    j1 = j1
    j2 = j2
    j3 = j3
    j4 = j4
    u1 = u1
    u2 = u2
    Threads <- ThreeThreads
    Jars <- FourJars
    NoJar = NoJar
    Urls <- TwoUrls
    Open <- OneOpen
    NoUrl = NoUrl
    EnvUrl = u1
    MaxSession = 2
    MaxOp = 3
    MaxFault = 2
SYMMETRY Symmetry
INVARIANTS
    ConnectedIsConfirmed
    SignedOutStaysOut
    SavedIsCurrent
PROPERTIES
    HonouredIsKept
CHECK_DEADLOCK FALSE
