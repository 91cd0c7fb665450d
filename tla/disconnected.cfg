SPECIFICATION Spec
CONSTANTS
    Procs = {c1}
    Clients = {c1}
    c1 = c1
    c2 = c2
    Files = {f1}
    ClientOf <- OwnClient
    Skew <- Ahead
    ClockSteps <- CoarseTick
    Ops <- RemovingOps
    ServerErrors = FALSE
    Exclusive = FALSE
    MaxCrashes = 2
    MaxClientCrashes = 1
    MaxMods = 4
SYMMETRY Symmetry
VIEW GhostView
INVARIANTS ReadYourWrites
