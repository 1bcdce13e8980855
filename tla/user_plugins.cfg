SPECIFICATION Spec
CONSTANTS
    p1 = p1
    p2 = p2
    Ids = {1, 2}
    First = {{1}}
    Procs <- TwoProcs
    None = None
    Tries = 2
    MaxOps = 2
    MaxRev = 3
    MaxNow = 2
    MaxFault = 1
INVARIANTS
    Consent
    LoadedKept
    SnapshotTrue
PROPERTIES
    EditsKept
SYMMETRY Symmetry
CHECK_DEADLOCK FALSE
