CONSTANTS
    t1 = t1
    t2 = t2
    p1 = p1
    p2 = p2
    Render = render
    Tabs <- TwoTabs
    Players <- TwoPlayers
    PoolSize = 2
SPECIFICATION FairSpec
INVARIANTS
    TypeOK
    LossExplained
PROPERTIES
    RenderEnds
