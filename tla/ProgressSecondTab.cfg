CONSTANTS
    c1 = c1
    c2 = c2
    Clients <- TwoClients
    Ticks = 1
    Env <- NoEvents
SPECIFICATION Spec
CHECK_DEADLOCK FALSE
INVARIANTS
    NeverStranded
