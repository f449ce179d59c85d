CONSTANTS
    c1 = c1
    c2 = c2
    Clients <- TwoClients
    Ticks = 2
    Env <- EnvEvents
SPECIFICATION FairSpec
CHECK_DEADLOCK FALSE
INVARIANTS
    TypeOK
    NothingAfterTerminal
    TerminalConserved
    ClientAgreesWithRow
    StrandedExplained
PROPERTIES
    FeedSpec
    PendingExplained
    ClientAnswered
