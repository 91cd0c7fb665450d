SPECIFICATION Spec
CONSTANTS
    Procs = {c1, c2}
    Clients = {c1, c2}
    c1 = c1
    c2 = c2
    Files = {f1}
    ClientOf <- OwnClient
    Skew <- NoSkew
    ClockSteps <- Tick
    Ops <- SessionOps
    ServerErrors = FALSE
    Exclusive = TRUE
    MaxCrashes = 0
    MaxClientCrashes = 1
    MaxMods = 3
SYMMETRY Symmetry
VIEW GhostView
ACTION_CONSTRAINT OrphansWaitedFor
INVARIANTS NoLostUpdate CloseFlushesWrites
