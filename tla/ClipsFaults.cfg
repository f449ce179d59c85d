CONSTANTS
    v1 = v1
    v2 = v2
    d1 = d1
    NoClip = NoClip
    Clips <- TwoClips
    Deleters <- OneDeleter
    Env <- EnvEvents
    MaxRestarts = 1
SPECIFICATION FairSpec
CHECK_DEADLOCK FALSE
INVARIANTS
    TypeOK
    NamedFilesExist
    OriginalsCleanedUp
    OrphansExplained
    SnapshotsHold
    UnsettledIsLost
PROPERTIES
    ClipsSettle
