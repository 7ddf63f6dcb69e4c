---------------------------- MODULE MCUF2Flasher ----------------------------
(***************************************************************************)
(* Small instances of UF2Flasher: a flash of six erase blocks of two       *)
(* bytes, a buffer of two of them, payloads of three bytes, of which a     *)
(* checksum takes one.                                                     *)
(***************************************************************************)
EXTENDS UF2Flasher

Bytes == 0 .. 9

Factory == {[a \in Addr |-> a % 2]}

Block(no, addr, md5, size, first) ==
    [no |-> no, addr |-> addr, md5 |-> md5, payload_size |-> size,
     data |-> [i \in 0 .. DataSize - 1 |-> first + i]]

(* A file of three blocks that begins and ends inside an erase block: the  *)
(* first fills the buffer to the last byte, the second has a checksum, the *)
(* third overflows the buffer.  A block of another file lies across them.  *)
TwoFiles ==
    {Block(0, 3, FALSE, 3, 2), Block(1, 6, TRUE, 2, 5), Block(2, 8, FALSE, 3, 6),
     Block(5, 5, FALSE, 3, 4)}

(* Consecutive numbers, but the second block is not the first one's        *)
(* neighbour in the flash.                                                 *)
WithGap == {Block(0, 2, FALSE, 3, 2), Block(1, 8, FALSE, 3, 5)}

(* The last block of a file: its data area is padded after one byte.       *)
ShortEnd == {Block(0, 2, TRUE, 2, 2), Block(1, 4, TRUE, 1, 5)}

ASSUME TwoFilesAssumption == Blocks = TwoFiles => WellNumbered
=============================================================================
