SPECIFICATION Spec
CONSTANTS
    Procs = {c1, c2}
    Clients = {c1, c2}
    c1 = c1
    c2 = c2
    Files = {f1}
    ClientOf <- OwnClient
    Skew <- NoSkew
    ClockSteps <- Tick
    Ops <- CacheOps
    ServerErrors = TRUE
    Exclusive = TRUE
    MaxCrashes = 1
    MaxClientCrashes = 0
    MaxMods = 3
SYMMETRY Symmetry
VIEW View
INVARIANTS TypeOK ValidatedIsCurrent
