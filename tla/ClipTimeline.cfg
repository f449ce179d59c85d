CONSTANTS
    v1 = v1
    v2 = v2
    v3 = v3
    p1 = p1
    p2 = p2
    NoClip = NoClip
    Clips <- ThreeClips
    Files <- SomeFiles
    Step = 2
    Patchers <- TwoPatchers
    Bodies <- SomeBodies
SYMMETRY Symmetric
SPECIFICATION Spec
CHECK_DEADLOCK FALSE
INVARIANTS
    TypeOK
    WindowsHold
PROPERTIES
    PlacedInOrder
