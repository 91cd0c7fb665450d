SPECIFICATION Spec
CONSTANTS
    p1 = p1
    p2 = p2
    d1 = d1
    d2 = d2
    n1 = n1
    None = None
    Procs = {p1, p2}
    Dirs = {d1, d2}
    Names = {n1}
    Revalidates = TRUE
SYMMETRY Symmetry
CONSTRAINT NotOvertaken
INVARIANTS TypeOK KnownIsCached SunkIsEmpty CloseFindsFile
