CONSTANTS
    PacketSize <- TwoBytes
    RingSize <- ThreeBytes
    MaxChunk <- TwoBytes
    MaxBytes <- FiveBytes
SPECIFICATION Spec
INVARIANTS
    TypeOK
    NoLostWakeUp
PROPERTIES
    ImplementsLossyFifo
    PacketDealtWith
