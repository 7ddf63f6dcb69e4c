CONSTANTS
    RcvSize <- Two
    SndSize <- Two
    Answers <- JustOne
    Window <- Six
    MaxRequests <- Six
    MaxMounts <- One
SPECIFICATION PipeSpec
CHECK_DEADLOCK FALSE
INVARIANTS
    NoCircularWait
