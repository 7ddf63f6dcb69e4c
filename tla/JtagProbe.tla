------------------------------ MODULE JtagProbe ------------------------------
(***************************************************************************)
(* The JTAG engine of components/debug_probe/esp_usb_jtag.c: jtag_task     *)
(* reads commands of four bits (nibbles), clocks the target's TAP with     *)
(* them and collects the TDO bits it is asked to capture in s_tdo_bytes,   *)
(* from which it sends packets to the host.                                *)
(*                                                                         *)
(* All of its state survives from one packet of nibbles to the next, so    *)
(* the nibbles are modelled as one stream.  The levels of TMS and TDI are  *)
(* left out: of the eight clock commands, four capture TDO ("capt") and    *)
(* four do not ("clk").                                                    *)
(***************************************************************************)
EXTENDS Integers, Sequences

CONSTANTS
    ByteBits,             \* 8
    PacketBits,           \* JTAG_PROTO_MAX_BITS, the bits of a USB packet: 512
    BufferBits,           \* 8 * sizeof(s_tdo_bytes): 8192
    MaxRepeats            \* bound of the model: repeat nibbles in a row

ASSUME BitsAssumption ==
    /\ ByteBits \in Nat \ {0} /\ PacketBits \in Nat \ {0} /\ BufferBits \in Nat
    /\ PacketBits % ByteBits = 0 /\ BufferBits % ByteBits = 0

(* A sixteenth repeat in a row would shift past the 32 bits of an int.     *)
ASSUME RepeatsAssumption == MaxRepeats \in 0 .. 15

Bit == {0, 1}

Commands == {"clk", "capt", "srst", "flush", "rsv"}

Repeats == {"rep0", "rep1", "rep2", "rep3"}

Nibbles == Commands \cup Repeats

Digit == [rep0 |-> 0, rep1 |-> 1, rep2 |-> 2, rep3 |-> 3]      \* cmd - CMD_REP0

VARIABLES
    pc,                   \* of jtag_task: "fetch", "clock", "flush" or "drain"
    todo, tdo_req,        \* cycles still to be clocked, and whether they capture TDO
    prev_cmd, rep_cnt,    \* what a repeat nibble repeats, and its position
    s_tdo_bytes,          \* the TDO bits by position
    s_total_tdo_bits, s_usb_sent_bits,
    tdo,                  \* level of the target's TDO pin
    packet,               \* the last packet put into the send buffer
    asked,                \* history: captures the host has asked for since its last flush
    digits, after_srst,   \* history: repeats in a row, and whether they follow "srst"
    due                   \* history: cycles the host expects and has not had

command == <<tdo_req, prev_cmd, rep_cnt>>
buffer == <<s_tdo_bytes, s_total_tdo_bits, s_usb_sent_bits, packet>>
promise == <<asked, digits, after_srst>>
vars == <<pc, command, todo, buffer, tdo, promise, due>>

(* 1 << (2 * n) *)
Weight(n) == <<1, 4, 16, 64, 256, 1024, 4096, 16384, 65536, 262144, 1048576, 4194304,
               16777216, 67108864, 268435456>>[n + 1]

Waiting == s_total_tdo_bits - s_usb_sent_bits

Zeros == [i \in 0 .. BufferBits - 1 |-> 0]

(* Every variable keeps its type, and no bit leaves the buffer: what the   *)
(* code does not check when it writes s_tdo_bytes.                         *)
TypeOK ==
    /\ pc \in {"fetch", "clock", "flush", "drain"}
    /\ todo \in Nat /\ tdo_req \in BOOLEAN
    /\ prev_cmd \in Commands \ {"flush"} /\ rep_cnt \in 0 .. MaxRepeats
    /\ s_tdo_bytes \in [0 .. BufferBits - 1 -> Bit]
    /\ s_total_tdo_bits \in 0 .. BufferBits
    /\ s_usb_sent_bits \in 0 .. s_total_tdo_bits
    /\ tdo \in Bit /\ packet \in Seq(Bit)
    /\ asked \in 0 .. BufferBits
    /\ digits \in 0 .. MaxRepeats /\ after_srst \in BOOLEAN /\ due \in Int

Init ==
    /\ pc = "fetch"
    /\ todo = 0 /\ tdo_req = FALSE
    /\ prev_cmd = "srst" /\ rep_cnt = 0
    /\ s_tdo_bytes = Zeros
    /\ s_total_tdo_bits = 0 /\ s_usb_sent_bits = 0
    /\ tdo \in Bit /\ packet = << >>
    /\ asked = 0 /\ digits = 0 /\ after_srst = TRUE /\ due = 0

-----------------------------------------------------------------------------
(* The host *)

(* A repeat as digit n of a number in base 4; SRST0 and SRST1 clock 8    *)
(* cycles.                                                                 *)
Cycles(nib, n) ==
    IF nib \in Repeats THEN Digit[nib] * Weight(n)
    ELSE IF nib \in {"clk", "capt"} THEN 1
    ELSE IF nib = "srst" THEN 8 ELSE 0

(* The host does not ask for more bits between two flushes than the buffer *)
(* holds.  Nothing in the code checks it.                                  *)
Asks(nib) ==
    LET what   == IF nib \in Repeats THEN prev_cmd ELSE nib
        cycles == IF what \in {"clk", "capt", "srst"} THEN Cycles(nib, digits) ELSE 0
    IN  /\ asked' = IF nib = "flush" THEN 0
                    ELSE IF what = "capt" THEN asked + cycles ELSE asked
        /\ asked' <= BufferBits
        /\ IF nib \in Repeats
           THEN /\ rep_cnt < MaxRepeats
                /\ digits' = digits + 1
                /\ due' = due + cycles
                /\ UNCHANGED after_srst
           ELSE /\ digits' = 0 /\ after_srst' = (nib = "srst")
                /\ due' = cycles

-----------------------------------------------------------------------------
(* jtag_task *)

(* Mutant of RoundUp: a full byte grows by another. *)
RoundUpPast(bits) == ((bits + ByteBits) \div ByteBits) * ByteBits

RoundUp(bits) == ((bits + ByteBits - 1) \div ByteBits) * ByteBits

(* CMD_REP0 .. CMD_REP3 *)
Repeat(nib) ==
    /\ todo' = Digit[nib] * Weight(rep_cnt)
    /\ rep_cnt' = rep_cnt + 1

(* Mutant of Other: only the flush ends a run of repeats. *)
OtherKeepsCount(nib) ==
    /\ todo' = Cycles(nib, 0)
    /\ rep_cnt' = IF nib \in {"srst", "clk", "capt"} THEN rep_cnt ELSE 0

(* All others; the resets do not touch rep_cnt. *)
Other(nib) ==
    /\ todo' = Cycles(nib, 0)
    /\ rep_cnt' = IF nib = "srst" THEN rep_cnt ELSE 0

(* What follows the switch: clocks, a flush that has something to send, or *)
(* only the test for a full packet.                                        *)
Dispatch(cmd_exec) ==
    /\ tdo_req' = (cmd_exec = "capt")
    /\ s_total_tdo_bits' = IF cmd_exec = "flush" THEN RoundUp(s_total_tdo_bits)
                           ELSE s_total_tdo_bits
    /\ pc' = IF cmd_exec \in {"clk", "capt", "srst"} THEN "clock"
             ELSE IF cmd_exec = "flush" /\ s_usb_sent_bits < s_total_tdo_bits' THEN "flush"
             ELSE "drain"

(* The switch and the line at the end of the loop that keeps prev_cmd.     *)
Fetch(nib) ==
    /\ pc = "fetch"
    /\ Asks(nib)
    /\ IF nib \in Repeats THEN Repeat(nib) /\ Dispatch(prev_cmd)
                          ELSE Other(nib) /\ Dispatch(nib)
    /\ prev_cmd' = IF nib \in Repeats \cup {"flush"} THEN prev_cmd ELSE nib
    /\ UNCHANGED <<s_tdo_bytes, s_usb_sent_bits, packet, tdo>>

(* do_jtag_one: the bit is or-ed into a buffer that must hold a zero there *)
Clock ==
    /\ pc = "clock" /\ todo > 0
    /\ IF tdo_req
       THEN /\ s_tdo_bytes' = [s_tdo_bytes EXCEPT
                                 ![s_total_tdo_bits] = IF tdo = 1 THEN 1 ELSE @]
            /\ s_total_tdo_bits' = s_total_tdo_bits + 1
       ELSE UNCHANGED <<s_tdo_bytes, s_total_tdo_bits>>
    /\ tdo' \in Bit
    /\ todo' = todo - 1
    /\ due' = due - 1
    /\ UNCHANGED <<pc, command, s_usb_sent_bits, packet, promise>>

Clocked ==
    /\ pc = "clock" /\ todo = 0
    /\ pc' = "drain"
    /\ UNCHANGED <<command, todo, buffer, tdo, promise, due>>

(* esp_usb_jtag_send_data: whole bytes from that of the first unsent bit,  *)
(* dropped when there is no room within a second.                          *)
SendData(bits) ==
    LET from == (s_usb_sent_bits \div ByteBits) * ByteBits
    IN  packet' \in {[i \in 1 .. bits |-> s_tdo_bytes[from + i - 1]], packet}

(* The loop of CMD_FLUSH *)
FlushSend ==
    /\ pc = "flush" /\ Waiting > 0
    /\ LET bits == IF Waiting > PacketBits THEN PacketBits ELSE Waiting
       IN  /\ SendData(bits)
           /\ s_usb_sent_bits' = s_usb_sent_bits + bits
    /\ UNCHANGED <<pc, command, todo, s_tdo_bytes, s_total_tdo_bits, tdo, promise, due>>

(* Mutant of Emptied: the bits are left behind. *)
EmptiedDirty ==
    /\ s_total_tdo_bits' = 0 /\ s_usb_sent_bits' = 0
    /\ UNCHANGED s_tdo_bytes

Emptied ==
    /\ s_tdo_bytes' = Zeros
    /\ s_total_tdo_bits' = 0 /\ s_usb_sent_bits' = 0

FlushDone ==
    /\ pc = "flush" /\ Waiting = 0
    /\ Emptied
    /\ pc' = "drain"
    /\ UNCHANGED <<command, todo, packet, tdo, promise, due>>

(* After every nibble: one packet, if one is full. *)
DrainPacket ==
    /\ pc = "drain" /\ Waiting >= PacketBits
    /\ SendData(PacketBits)
    /\ LET sent == s_usb_sent_bits + PacketBits
       IN  /\ s_tdo_bytes' = [i \in 0 .. BufferBits - 1 |->
                                IF i \in s_usb_sent_bits .. sent - 1 THEN 0 ELSE s_tdo_bytes[i]]
           /\ s_usb_sent_bits' = IF sent = s_total_tdo_bits THEN 0 ELSE sent
           /\ s_total_tdo_bits' = IF sent = s_total_tdo_bits THEN 0 ELSE s_total_tdo_bits
    /\ pc' = "fetch"
    /\ UNCHANGED <<command, todo, tdo, promise, due>>

DrainNothing ==
    /\ pc = "drain" /\ Waiting < PacketBits
    /\ pc' = "fetch"
    /\ UNCHANGED <<command, todo, buffer, tdo, promise, due>>

TaskStep == Clock \/ Clocked \/ FlushSend \/ FlushDone \/ DrainPacket \/ DrainNothing

Next == (\E nib \in Nibbles : Fetch(nib)) \/ TaskStep

(* jtag_task is the only task at its priority on its core, and its calls   *)
(* all time out; the host may stop at any time.                            *)
Fairness == WF_vars(TaskStep)

Spec == Init /\ [][Next]_vars /\ Fairness

-----------------------------------------------------------------------------
(* Properties *)

(* A clock command and the repeat nibbles behind it clock the TAP as often *)
(* as the base-4 number they spell says, whatever came before: rep_cnt has *)
(* to be back at 0 when the run begins.  It is not so behind "srst".       *)
RunsExact == pc = "fetch" /\ ~after_srst => due = 0

Owed == [i \in 1 .. Waiting |-> s_tdo_bytes[s_usb_sent_bits + i - 1]]

Stream == INSTANCE TdoStream WITH owed <- Owed, flushing <- (pc = "flush")

(* The bits sent are the bits captured, in order and once, padded only by  *)
(* a flush: positions, the clearing of the buffer, the or-ing of bits and  *)
(* the packets of both send loops fit together.                            *)
ImplementsStream == Stream!Spec

(* "As soon as either DEBUG_PROBE_PACKET_SIZE bytes have been collected or *)
(* a CMD_FLUSH command is executed, make the usb buffer available for the  *)
(* host to receive" (lines 311-313).                                       *)
PacketsLeaveAtOnce == pc = "fetch" => Waiting < PacketBits

-----------------------------------------------------------------------------
(* The inductive invariant *)

(* Positions: packets begin at bytes, an emptied buffer begins anew, and   *)
(* the host's promise bounds what is still to be clocked.                  *)
PositionInv ==
    /\ s_usb_sent_bits % ByteBits = 0
    /\ pc = "flush" => s_total_tdo_bits % ByteBits = 0
    /\ pc # "flush" /\ Waiting = 0 => s_total_tdo_bits = 0
    /\ pc # "flush" => s_total_tdo_bits <= asked
    /\ pc = "clock" /\ tdo_req => s_total_tdo_bits + todo <= asked

(* Outside of the unsent bits the buffer holds zeros. *)
CleanInv ==
    \A i \in 0 .. BufferBits - 1 :
        i >= s_total_tdo_bits \/ (pc # "flush" /\ i < s_usb_sent_bits) => s_tdo_bytes[i] = 0

RunInv ==
    /\ digits <= rep_cnt
    /\ prev_cmd = "capt" => ~after_srst
    /\ ~after_srst => /\ digits = rep_cnt
                      /\ due = IF pc = "clock" THEN todo ELSE 0

IInv == TypeOK /\ PositionInv /\ CleanInv /\ RunInv
=============================================================================
