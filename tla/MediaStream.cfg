CONSTANTS
    r1 = r1
    Requests <- OneRequest
    Headers <- AllHeaders
    Sizes <- AnySize
    ChunkSize = 2
SPECIFICATION Spec
CHECK_DEADLOCK FALSE
INVARIANTS
    TypeOK
    AnswersRange
    BodyKept
