\* Two clients, one run, one event, under fairness.
SPECIFICATION FairSpec
CONSTANTS
    c1 = c1
    c2 = c2
    Clients <- MCClients
    MaxRun = 1
    KeepRuns = 1
    Options <- Long
    MaxEvents = 1
    Free = Free
    Installer = Installer
    NoRun = NoRun
PROPERTIES
    CurrentRunSettles
    CancellationIsHonoured
    IntentPreventsWork
