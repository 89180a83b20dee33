SPECIFICATION Spec
CONSTANTS
    R = R
    S = S
    None = None
    Foreign = Foreign
    Payload = Payload
    Partial = Partial
    Other = Other
    Runtimes = {R}
    Venv = R
    VERSIONS = 2
    BUILDS = 2
    CRASHES = 1
    EDITS = 0
INVARIANTS
    OwnFilesNoConflict
