SPECIFICATION Spec
CONSTANTS
    c1 = c1
    Procs = {p1, p2}
    Clients = {c1}
    p1 = p1
    p2 = p2
    Files = {f1}
    ClientOf <- OneClient
    Skew <- NoSkew
    ClockSteps <- Tick
    Ops <- CacheOps
    ServerErrors = FALSE
    Exclusive = TRUE
    MaxCrashes = 0
    MaxClientCrashes = 1
    MaxMods = 4
SYMMETRY Symmetry
VIEW GhostView
INVARIANTS CloseFlushesWrites
