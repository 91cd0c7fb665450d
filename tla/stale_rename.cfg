SPECIFICATION Spec
CONSTANTS
    Procs = {c1, c2}
    Clients = {c1, c2}
    c1 = c1
    c2 = c2
    Files = {f1, f2}
    ClientOf <- OwnClient
    Skew <- NoSkew
    ClockSteps <- Tick
    Ops <- NameOps
    ServerErrors = FALSE
    Exclusive = TRUE
    MaxCrashes = 0
    MaxClientCrashes = 0
    MaxMods = 4
SYMMETRY Symmetry
VIEW View
INVARIANTS ValidatedIsCurrent
