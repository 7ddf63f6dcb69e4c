CONSTANTS
    RcvSize <- Two
    SndSize <- Three
    Answers <- UpToOne
    Window <- Three
    MaxRequests <- Four
    MaxMounts <- Two
SPECIFICATION PipeSpec
CHECK_DEADLOCK FALSE
INVARIANTS
    PipeTypeOK
PROPERTIES
    ImplementsLossyFifo
    UsbTaskReturns
    RequestsDealtWith
