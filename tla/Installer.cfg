SPECIFICATION Spec
CONSTANTS
    R = R
    S = S
    None = None
    Foreign = Foreign
    Payload = Payload
    Partial = Partial
    Other = Other
    Runtimes = {R, S}
    Venv = R
    VERSIONS = 2
    BUILDS = 2
    CRASHES = 2
    EDITS = 1
INVARIANTS
    TypeOK
    HooksAccountedFor
PROPERTIES
    CompletedIsInSync
    ForeignStays
    UninstallLeavesNothing
