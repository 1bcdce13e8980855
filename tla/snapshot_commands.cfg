SPECIFICATION Spec
CONSTANTS
    c1 = c1
    c2 = c2
    Procs <- TwoProcs
    MaxKernel = 2
    MaxPoint = 2
    MaxRestore = 2
    KEEP = 1
    MaxEvents = 0
    Free = Free
    None = None
    Recovery = Recovery
SYMMETRY Symmetry
INVARIANTS
    DefaultRuns
PROPERTIES
    RunningRootKept
