CONSTANTS
    RxSize <- Four
    QueueSize <- Three
    ReadSize <- Two
    Chunk <- Two
    MaxChunks <- Eight
    MaxSessions <- Two
    Prompt = TRUE
SPECIFICATION Spec
CHECK_DEADLOCK FALSE
INVARIANTS
    TypeOK
    NothingStranded
    NotOverheard
PROPERTIES
    ReadReturns
