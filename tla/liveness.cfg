SPECIFICATION FairSpec
CONSTANTS
    Procs = {c1, c2}
    Clients = {c1, c2}
    c1 = c1
    c2 = c2
    Files = {f1}
    ClientOf <- OwnClient
    Skew <- NoSkew
    ClockSteps <- Tick
    Ops <- LiveOps
    ServerErrors = FALSE
    Exclusive = FALSE
    MaxCrashes = 1
    MaxClientCrashes = 0
    MaxMods = 2
INVARIANTS FetchedNotOlder
PROPERTIES OpTerminates
