CONSTANTS
    s1 = s1
    s2 = s2
    k1 = k1
    k2 = k2
    d1 = d1
    d2 = d2
    NoSound = NoSound
    Sounds <- TwoSounds
    Compilations <- TwoCompilations
    Deleters <- TwoDeleters
    Env <- EnvEvents
    MaxRestarts = 1
SYMMETRY Symmetric
SPECIFICATION Spec
CHECK_DEADLOCK FALSE
INVARIANTS
    TypeOK
    ListedSounds
    OrphansExplained
    SoundsHeld
