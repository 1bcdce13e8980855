SPECIFICATION FairSpec
CONSTANTS
    h1 = h1
    h2 = h2
    Helpers <- TwoHelpers
    None = None
    MaxToken = 2
    MaxFault = 2
INVARIANTS
    Guarded
    SettledIsSaved
PROPERTIES
    SavedWasShown
    TrialEnds
CHECK_DEADLOCK FALSE
