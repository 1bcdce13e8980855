SPECIFICATION ReleaseSpec
CONSTANTS
    c1 = c1
    c2 = c2
    Clients <- TwoClients
    MaxVersion = 4
    Schema <- Schemas
    Keep = 2
    MaxRuns = 3
    MaxKills = 1
    MaxFaults = 1
SYMMETRY Symmetry
INVARIANTS
    MixedIsRecorded
    FailureRestoresConfig
PROPERTIES
    OnlyPromotionRemovesCurrent
CHECK_DEADLOCK FALSE
