CONSTANTS
    RcvSize <- Two
    SndSize <- Two
    Answers <- JustOne
    Window <- Two
    MaxRequests <- Two
    MaxMounts <- One
SPECIFICATION PipeSpec
CHECK_DEADLOCK FALSE
INVARIANTS
    InitBeforeUse
