SPECIFICATION Spec
CONSTANTS
    p1 = p1
    p2 = p2
    f1 = f1
    f2 = f2
    h1 = h1
    h2 = h2
    w1 = w1
    w2 = w2
    NoFile = NoFile
    NoHandle = NoHandle
    Procs = {p1, p2}
    Files = {f1, f2}
    Handles = {h1, h2}
    Writes = {w1, w2}
    Limit = 3
    Entries = 3
    Std = Std
CONSTRAINT OneStray
SYMMETRY Symmetry
INVARIANTS TypeOK FlushStoresWrites FsyncIsBarrier WritesReachTheirFile CleanCloseStoresNothing
