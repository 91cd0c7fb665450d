SPECIFICATION Spec
CONSTANTS
    c1 = c1
    Procs = {p1, p2}
    Clients = {c1}
    p1 = p1
    p2 = p2
    Files = {f1, f2}
    ClientOf <- OneClient
    Skew <- NoSkew
    ClockSteps <- Tick
    Ops <- ThreadOps
    ServerErrors = FALSE
    Exclusive = FALSE
    MaxCrashes = 0
    MaxClientCrashes = 0
    MaxMods = 3
SYMMETRY Symmetry
VIEW GhostView
PROPERTIES OpenFileStable
