CONSTANTS
    RxSize <- Four
    QueueSize <- Three
    ReadSize <- Two
    Chunk <- Two
    MaxChunks <- Eight
    MaxSessions <- Two
    Prompt = FALSE
SPECIFICATION Spec
CHECK_DEADLOCK FALSE
INVARIANTS
    NotOverheard
