SPECIFICATION Spec
CONSTANTS
    Procs = {c1, c2, c3}
    Clients = {c1, c2, c3}
    Files = {f1}
    ClientOf <- OwnClient
    a1 = a1
    a2 = a2
    b1 = b1
    Contents <- Data
    NoBytes = NoBytes
    Garbled = Garbled
    None = None
    Fetchers = {c1, c2}
    Storers = {c3}
    Namers = {}
    ShortWrites = FALSE
INVARIANTS NoInterleaving
