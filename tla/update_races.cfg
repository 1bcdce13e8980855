\* Two clients, two runs, two events: every interleaving of commands.
SPECIFICATION Spec
CONSTANTS
    c1 = c1
    c2 = c2
    Clients <- MCClients
    MaxRun = 2
    KeepRuns = 1
    Options <- Short
    MaxEvents = 2
    Free = Free
    Installer = Installer
    NoRun = NoRun
SYMMETRY Symmetry
INVARIANTS
    OneTransaction
    TerminalMeansStopped
    NoSecondActiveRun
PROPERTIES
    NoResurrection
    ImplementsJob
