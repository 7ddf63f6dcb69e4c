----------------------------- MODULE MCJtagProbe -----------------------------
(***************************************************************************)
(* JtagProbe with bytes of 2 bits, packets of 2 bytes and a buffer of 5    *)
(* bytes: a repeat of two nibbles clocks up to 12 cycles, three packets.   *)
(***************************************************************************)
EXTENDS JtagProbe

ByteOf2 == 2

PacketOf4 == 4

BufferOf10 == 10

TwoRepeats == 2
=============================================================================
