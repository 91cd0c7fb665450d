SPECIFICATION Spec
CONSTANTS
    Procs = {c1, c2}
    Clients = {c1, c2}
    Files = {f1}
    ClientOf <- OwnClient
    a1 = a1
    a2 = a2
    b1 = b1
    Contents <- Data
    NoBytes = NoBytes
    Garbled = Garbled
    None = None
    Fetchers = {c1}
    Storers = {c1, c2}
    Namers = {c1}
    ShortWrites = FALSE
PROPERTIES TransfersAreAtomic
