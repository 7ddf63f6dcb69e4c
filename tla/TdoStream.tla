------------------------------ MODULE TdoStream ------------------------------
(***************************************************************************)
(* What the JTAG interface owes its host: every TDO bit it was asked to    *)
(* capture, in order and once, in packets of PacketBits; a flush pads the  *)
(* last byte with zeros and sends what is there.  A packet is delivered    *)
(* whole or dropped whole.                                                 *)
(***************************************************************************)
EXTENDS Integers, Sequences

CONSTANTS ByteBits, PacketBits

VARIABLES
    tdo,                  \* the level of the target's TDO pin
    owed,                 \* the bits captured and not yet sent, oldest first
    flushing,             \* a flush is under way
    packet                \* the last packet delivered

vars == <<tdo, owed, flushing, packet>>

Bit == {0, 1}

Init ==
    /\ tdo \in Bit
    /\ owed = << >>
    /\ flushing = FALSE
    /\ packet = << >>

(* One TCK cycle; the target moves TDO on its falling edge. *)
Shift ==
    /\ ~flushing
    /\ tdo' \in Bit
    /\ UNCHANGED <<owed, flushing, packet>>

Capture ==
    /\ ~flushing
    /\ owed' = Append(owed, tdo)
    /\ tdo' \in Bit
    /\ UNCHANGED <<flushing, packet>>

Send(n) ==
    /\ n \in 1 .. Len(owed)
    /\ packet' \in {SubSeq(owed, 1, n), packet}
    /\ owed' = SubSeq(owed, n + 1, Len(owed))
    /\ UNCHANGED <<tdo, flushing>>

SendPacket == Send(PacketBits)

(* Zeros up to the next byte, fewer than a byte of them. *)
Flush ==
    /\ owed # << >> /\ ~flushing
    /\ \E pad \in 0 .. ByteBits - 1 :
          /\ (Len(owed) + pad) % ByteBits = 0
          /\ owed' = owed \o [i \in 1 .. pad |-> 0]
    /\ flushing' = TRUE
    /\ UNCHANGED <<tdo, packet>>

SendRest == flushing /\ Len(owed) <= PacketBits /\ Send(Len(owed))

EndFlush ==
    /\ flushing /\ owed = << >>
    /\ flushing' = FALSE
    /\ UNCHANGED <<tdo, owed, packet>>

Next == Shift \/ Capture \/ SendPacket \/ Flush \/ SendRest \/ EndFlush

Spec == Init /\ [][Next]_vars
=============================================================================
