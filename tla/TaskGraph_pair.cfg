SPECIFICATION Spec
CONSTANTS
    A = A
    B = B
    C = C
    alice = alice
    Alice = Alice
    bob = bob
    None = None
    Criteria = {"c"}
    Items <- TestItems
    Oversized <- LongDoubt
    Nodes = {A, B}
    Labels = {alice, Alice, bob}
    Identity <- MCIdentity
    MAX_ATTEMPTS = 2
    MAX_EVIDENCE = 1
    RETRY_LOG = 1
    Paths = {}
SYMMETRY PairSymmetry
CHECK_DEADLOCK FALSE
INVARIANTS
    TypeOK
    IndependentPass
    VerdictMatchesStatus
    NextActionsAccepted
    FailureEventsUnique
PROPERTIES
    DoubtArchived
