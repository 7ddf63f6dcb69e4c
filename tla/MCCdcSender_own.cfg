CONSTANTS
    PacketSize <- TwoBytes
    RingSize <- ThreeBytes
    MaxChunk <- TwoBytes
    MaxBytes <- FiveBytes
SPECIFICATION Spec
PROPERTIES
    WokenByOwnBytes
