CONSTANTS
    k1 = k1
    k2 = k2
    d1 = d1
    d2 = d2
    Compilations <- TwoCompilations
    Deleters <- NoDeleters
    Env <- NoEvents
    MaxRestarts = 0
SPECIFICATION Spec
CHECK_DEADLOCK FALSE
INVARIANTS
    OneRunning
