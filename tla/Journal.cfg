SPECIFICATION Spec
CONSTANTS
    p1 = p1
    p2 = p2
    p3 = p3
    None = None
    Writers = {p1, p2, p3}
    MONTHS = 2
    Entries <- MCEntries
    MAX_JOURNAL_LINE_BYTES = 6
    SHED_MARK = 1
    APPENDS = 4
    TEARS = 1
SYMMETRY WriterSymmetry
CHECK_DEADLOCK FALSE
INVARIANTS
    TypeOK
    OneLossPerTear
    WriterOrder
PROPERTIES
    LogSpec
