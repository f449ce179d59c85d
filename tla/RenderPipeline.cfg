CONSTANTS
    c1 = c1
    c2 = c2
    Music = music
    MusicLength = 2
    Garbled = garbled
    Clips <- TwoClips
    New = c2
    Uploads <- SomeUploads
    Libraries <- OneOldClip
    Bodies <- SomeBodies
    Places <- SomePlaces
    MaxPatches = 2
    PipeCap = 1
    MaxLines = 2
    Calls <- AllCalls
    Troubles <- AllTroubles
SPECIFICATION FairSpec
CHECK_DEADLOCK FALSE
INVARIANTS
    TypeOK
    ReturnsFaithfully
    CommandMatchesTimeline
    RefusalExplained
PROPERTIES
    ProgressFaithful
    CallEnds
