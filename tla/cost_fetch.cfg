SPECIFICATION Spec
CONSTANTS
    Files = {1, 2, 3, 4}
    ProviderOf <- Providers
    Keys = {1, 2}
    Setups <- AllSetups
    Retention = 1
    Window = 1
    Gap = 1
    FileBytes = 14
    ScanBytes = 17
    FileRecords = 2
    TotalRecords = 3
    WalkFiles = 2
    CacheFiles = 3
    Start = 1
    MaxNow = 2
    MaxWrites = 2
    MaxFaults = 2
INVARIANTS
    CacheIsParse
    CountedOnce
PROPERTIES
    CompleteIsWhole
    BacklogShrinks
