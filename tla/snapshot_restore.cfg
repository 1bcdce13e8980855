SPECIFICATION FairSpec
CONSTANTS
    c1 = c1
    c2 = c2
    Procs <- OneProc
    MaxKernel = 2
    MaxPoint = 2
    MaxRestore = 1
    KEEP = 1
    MaxEvents = 1
    Free = Free
    None = None
    Recovery = Recovery
INVARIANTS
    AlwaysBootable
    RestorablePoints
PROPERTIES
    InterruptedSettles
