CONSTANTS
    FlashSize = 12
    BlockSize = 2
    BufferSize = 4
    DataSize = 3
    Md5Size = 1
    NoLimit = 8
    Erased = 9
    NoBlock = NoBlock
    Byte <- Bytes
    FirstFlash <- Factory
    Blocks <- ShortEnd
SPECIFICATION Spec
INVARIANT OnlyRealPayload
