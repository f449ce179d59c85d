CONSTANTS
    k1 = k1
    k2 = k2
    d1 = d1
    d2 = d2
    Compilations <- TwoCompilations
    Deleters <- TwoDeleters
    Env <- EnvEvents
    MaxRestarts = 1
SPECIFICATION FairSpec
CHECK_DEADLOCK FALSE
INVARIANTS
    TypeOK
    CompleteIsPlayable
    OrphansExplained
    UnsettledIsLost
PROPERTIES
    JobSpec
    JobsSettle
