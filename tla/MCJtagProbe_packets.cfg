CONSTANT ByteBits <- ByteOf2
CONSTANT PacketBits <- PacketOf4
CONSTANT BufferBits <- BufferOf10
CONSTANT MaxRepeats <- TwoRepeats
SPECIFICATION Spec
INVARIANTS
    PacketsLeaveAtOnce
