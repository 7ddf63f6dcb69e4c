CONSTANTS
    RcvSize <- Two
    SndSize <- Two
    Answers <- JustOne
    Window <- Two
    MaxRequests <- Two
    MaxMounts <- Two
SPECIFICATION PipeSpec
CHECK_DEADLOCK FALSE
PROPERTIES
    DataRetrieved
