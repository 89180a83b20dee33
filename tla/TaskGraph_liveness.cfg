SPECIFICATION FairSpec
CONSTANTS
    A = A
    B = B
    C = C
    alice = alice
    Alice = Alice
    bob = bob
    None = None
    Criteria = {"c"}
    Items <- TestItems
    Oversized <- AnyDoubt
    Nodes = {A, B}
    Labels = {alice, bob}
    Identity <- MCIdentity
    MAX_ATTEMPTS = 2
    MAX_EVIDENCE = 1
    RETRY_LOG = 1
    Paths = {}
CHECK_DEADLOCK FALSE
PROPERTIES
    EventuallyComplete
    LedgerFairSpec
    
    FailuresStayCounted
