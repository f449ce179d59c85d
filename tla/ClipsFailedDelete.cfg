CONSTANTS
    v1 = v1
    v2 = v2
    d1 = d1
    NoClip = NoClip
    Clips <- OneClip
    Deleters <- OneDeleter
    Env <- NoEvents
    MaxRestarts = 0
SPECIFICATION Spec
CHECK_DEADLOCK FALSE
INVARIANTS
    RollbackKeepsFiles
