SPECIFICATION Spec
CONSTANTS
    p1 = p1
    p2 = p2
    p3 = p3
    i1 = i1
    i2 = i2
    None = None
    NoGraph = NoGraph
    Torn = Torn
    Procs = {p1, p2, p3}
    Inodes = {i1, i2}
    Careful = FALSE
    MaxOutages = 0
SYMMETRY ProcSymmetry
CHECK_DEADLOCK FALSE
INVARIANTS
    GraphWhole
    InitIsTheBase
    LockAccounted
