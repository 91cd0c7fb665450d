SPECIFICATION Spec
CONSTANTS
    p1 = p1
    p2 = p2
    None = None
    Procs = {p1, p2}
    Ops = {"read", "write"}
    Paths = {"data"}
    Lines <- ConfLines
    Startup <- Startups
    Draws = {0, 50, 100}
    MaxLines = 3
INVARIANTS TypeOK ConfigInForce ListInUse CertainInjectionHappens ConfigCanBeEdited LastWins
PROPERTIES MutexIsReleased
