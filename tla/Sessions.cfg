SPECIFICATION LaterSpec
CONSTANTS
    s1 = s1
    s2 = s2
    s3 = s3
    R = R
    p = p
    Outside = Outside
    None = None
    Sessions = {s1, s2, s3}
    Repos = {R}
    Paths = {p}
    WARN_MIN_FILES = 1
    WARN_MIN_EDITS = 2
    MAX_CANDIDATES = 2
    RECORDS = 7
    WORK = 5
    CLOCK = 2
    FAULTS = 1
SYMMETRY SessionSymmetry
CHECK_DEADLOCK FALSE
INVARIANTS
    TypeOK
    AtMostOnce
    ContestedExact
    HookAgreesWithReport
    NothingBuried

    
