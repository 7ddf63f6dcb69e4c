------------------------------ MODULE CdcSender ------------------------------
(***************************************************************************)
(* The way of the target's output to the host: main/serial_bridge.c puts   *)
(* what the UART task hands it into a ring buffer, from which              *)
(* usb_sender_task writes to TinyUSB's CDC FIFO and waits for the transfer *)
(* to complete.  Task and completion callback agree by two binary          *)
(* semaphores.                                                             *)
(*                                                                         *)
(* TinyUSB (external) keeps a FIFO of one packet and one transfer in       *)
(* flight, calls back when it completes, starts the next by itself and     *)
(* ends a full packet with an empty one, which calls back once more.  The  *)
(* bytes are numbers in the order the target sent them.                    *)
(***************************************************************************)
EXTENDS Integers, Sequences

CONSTANTS
    PacketSize,           \* CFG_TUD_CDC_TX_BUFSIZE and the size of a bulk packet: 64
    RingSize,             \* USB_SEND_RINGBUFFER_SIZE: 2048
    MaxChunk,             \* bound of the model: bytes the UART task hands over at once
    MaxBytes              \* bound of the model: bytes the target sends

ASSUME SizesAssumption ==
    /\ PacketSize \in Nat \ {0} /\ RingSize \in Nat \ {0}
    /\ MaxChunk \in Nat /\ MaxBytes \in Nat

VARIABLES
    produced,             \* bytes the target has sent
    usb_sendbuf,          \* the ring buffer
    pc, int_buf, wr_len,  \* of usb_sender_task: what is left of its packet and what of that is written
    usb_tx_requested, usb_tx_done,
    ready,                \* external: the device is plugged in and configured
    fifo, in_flight, busy,    \* external: the CDC FIFO and the IN endpoint
    usb, full,            \* the TinyUSB task within cdcd_xfer_cb, after a full packet or not
    got,                  \* the last byte the host has received
    broken                \* history: the device was not ready at some time since the request

sender == <<pc, int_buf, wr_len>>
tinyusb == <<fifo, in_flight, busy>>
vars == <<produced, usb_sendbuf, sender, usb_tx_requested, usb_tx_done, ready, tinyusb, usb,
          full, got, broken>>

Byte == Nat

TypeOK ==
    /\ produced \in Nat /\ got \in Nat
    /\ usb_sendbuf \in Seq(Byte) /\ Len(usb_sendbuf) <= RingSize
    /\ pc \in {"receive", "request", "write", "flush", "wait", "timeout", "clear"}
    /\ int_buf \in Seq(Byte) /\ Len(int_buf) <= PacketSize /\ wr_len \in 0 .. Len(int_buf)
    /\ usb_tx_requested \in BOOLEAN /\ usb_tx_done \in BOOLEAN
    /\ ready \in BOOLEAN /\ busy \in BOOLEAN
    /\ fifo \in Seq(Byte) /\ Len(fifo) <= PacketSize
    /\ in_flight \in Seq(Byte) /\ Len(in_flight) <= PacketSize
    /\ usb \in {"idle", "callback", "give", "flush"}
    /\ full \in BOOLEAN /\ broken \in BOOLEAN

(* serial_bridge_init; the host may be there or not. *)
Init ==
    /\ produced = 0 /\ got = 0
    /\ usb_sendbuf = << >>
    /\ pc = "receive" /\ int_buf = << >> /\ wr_len = 0
    /\ usb_tx_requested = FALSE /\ usb_tx_done = FALSE
    /\ ready \in BOOLEAN
    /\ fifo = << >> /\ in_flight = << >> /\ busy = FALSE
    /\ usb = "idle" /\ full = FALSE /\ broken = FALSE

-----------------------------------------------------------------------------
(* The UART task *)

(* transport_data_received_callback: a chunk finds room within 10 ms, or   *)
(* all of it is dropped.                                                   *)
DataReceived(n) ==
    /\ produced + n <= MaxBytes
    /\ produced' = produced + n
    /\ \/ /\ Len(usb_sendbuf) + n <= RingSize
          /\ usb_sendbuf' = usb_sendbuf \o [i \in 1 .. n |-> produced + i]
       \/ /\ Len(usb_sendbuf) + n > RingSize
          /\ UNCHANGED usb_sendbuf
    /\ UNCHANGED <<sender, usb_tx_requested, usb_tx_done, ready, tinyusb, usb, full, got, broken>>

-----------------------------------------------------------------------------
(* usb_sender_task *)

(* Mutant of Receive: up to all that the ring buffer holds. *)
ReceiveAll ==
    /\ pc = "receive"
    /\ \E n \in 1 .. RingSize :
          /\ n <= Len(usb_sendbuf)
          /\ int_buf' = SubSeq(usb_sendbuf, 1, n)
          /\ usb_sendbuf' = SubSeq(usb_sendbuf, n + 1, Len(usb_sendbuf))
    /\ pc' = "request"
    /\ UNCHANGED <<produced, wr_len, usb_tx_requested, usb_tx_done, ready, tinyusb, usb, full, got,
                   broken>>

(* xRingbufferReceiveUpTo returns less when the buffer wraps. *)
Receive ==
    /\ pc = "receive"
    /\ \E n \in 1 .. PacketSize :
          /\ n <= Len(usb_sendbuf)
          /\ int_buf' = SubSeq(usb_sendbuf, 1, n)
          /\ usb_sendbuf' = SubSeq(usb_sendbuf, n + 1, Len(usb_sendbuf))
    /\ pc' = "request"
    /\ UNCHANGED <<produced, wr_len, usb_tx_requested, usb_tx_done, ready, tinyusb, usb, full, got,
                   broken>>

Request ==
    /\ pc = "request"
    /\ usb_tx_requested' = TRUE
    /\ broken' = ~ready
    /\ pc' = "write"
    /\ UNCHANGED <<produced, usb_sendbuf, int_buf, wr_len, usb_tx_done, ready, tinyusb, usb, full,
                   got>>

(* tud_cdc_write takes what finds room. *)
Write ==
    /\ pc = "write"
    /\ LET room == PacketSize - Len(fifo)
           n    == IF Len(int_buf) < room THEN Len(int_buf) ELSE room
       IN  /\ fifo' = fifo \o SubSeq(int_buf, 1, n)
           /\ wr_len' = n
    /\ pc' = "flush"
    /\ UNCHANGED <<produced, usb_sendbuf, int_buf, usb_tx_requested, usb_tx_done, ready, in_flight,
                   busy, usb, full, got, broken>>

(* Starts a transfer of what is in the FIFO, if none is in flight. *)
StartTransfer ==
    IF ready /\ ~busy /\ fifo # << >>
    THEN busy' = TRUE /\ in_flight' = fifo /\ fifo' = << >>
    ELSE UNCHANGED tinyusb

(* Mutant of Flush: left to TinyUSB, which does it when the FIFO is full. *)
FlushWhenFull ==
    /\ pc = "flush"
    /\ IF Len(fifo) = PacketSize THEN StartTransfer ELSE UNCHANGED tinyusb
    /\ pc' = "wait"
    /\ UNCHANGED <<produced, usb_sendbuf, int_buf, wr_len, usb_tx_requested, usb_tx_done, ready,
                   usb, full, got, broken>>

(* tud_cdc_write_flush, which tud_cdc_write also calls itself *)
Flush ==
    /\ pc = "flush"
    /\ StartTransfer
    /\ pc' = "wait"
    /\ UNCHANGED <<produced, usb_sendbuf, int_buf, wr_len, usb_tx_requested, usb_tx_done, ready,
                   usb, full, got, broken>>

(* Mutant of Waited: usb_tx_done is looked at and not taken. *)
WaitedPeeks ==
    /\ pc = "wait" /\ usb_tx_done
    /\ int_buf' = SubSeq(int_buf, wr_len + 1, Len(int_buf))
    /\ wr_len' = 0
    /\ pc' = IF wr_len = Len(int_buf) THEN "receive" ELSE "request"
    /\ UNCHANGED <<produced, usb_sendbuf, usb_tx_requested, usb_tx_done, ready, tinyusb, usb, full,
                   got, broken>>

(* usb_wait_for_tx succeeds. *)
Waited ==
    /\ pc = "wait" /\ usb_tx_done
    /\ usb_tx_done' = FALSE
    /\ int_buf' = SubSeq(int_buf, wr_len + 1, Len(int_buf))
    /\ wr_len' = 0
    /\ pc' = IF wr_len = Len(int_buf) THEN "receive" ELSE "request"
    /\ UNCHANGED <<produced, usb_sendbuf, usb_tx_requested, ready, tinyusb, usb, full, got, broken>>

(* It does not within 50 ms. *)
TimeOut ==
    /\ pc = "wait" /\ ~usb_tx_done
    /\ pc' = "timeout"
    /\ UNCHANGED <<produced, usb_sendbuf, int_buf, wr_len, usb_tx_requested, usb_tx_done, ready,
                   tinyusb, usb, full, got, broken>>

TakeBack ==
    /\ pc = "timeout"
    /\ usb_tx_requested' = FALSE
    /\ pc' = "clear"
    /\ UNCHANGED <<produced, usb_sendbuf, int_buf, wr_len, usb_tx_done, ready, tinyusb, usb, full,
                   got, broken>>

(* Mutant of WriteClear: the rest of the packet is tried again. *)
WriteClearRetry ==
    /\ pc = "clear"
    /\ fifo' = << >>
    /\ wr_len' = 0
    /\ pc' = "request"
    /\ UNCHANGED <<produced, usb_sendbuf, int_buf, usb_tx_requested, usb_tx_done, ready, in_flight,
                   busy, usb, full, got, broken>>

(* tud_cdc_write_clear, and the packet's rest is given up. *)
WriteClear ==
    /\ pc = "clear"
    /\ fifo' = << >>
    /\ int_buf' = << >> /\ wr_len' = 0
    /\ pc' = "receive"
    /\ UNCHANGED <<produced, usb_sendbuf, usb_tx_requested, usb_tx_done, ready, in_flight, busy,
                   usb, full, got, broken>>

SenderStep == Receive \/ Request \/ Write \/ Flush \/ Waited \/ TimeOut \/ TakeBack \/ WriteClear

-----------------------------------------------------------------------------
(* The TinyUSB task *)

(* The host has read the packet. *)
Complete ==
    /\ usb = "idle" /\ busy
    /\ got' = IF in_flight = << >> THEN got ELSE in_flight[Len(in_flight)]
    /\ full' = (Len(in_flight) = PacketSize)
    /\ busy' = FALSE /\ in_flight' = << >>
    /\ usb' = "callback"
    /\ UNCHANGED <<produced, usb_sendbuf, sender, usb_tx_requested, usb_tx_done, ready, fifo,
                   broken>>

(* tud_cdc_tx_complete_cb takes the request, if there is one, ... *)
TxComplete ==
    /\ usb = "callback"
    /\ usb_tx_requested' = FALSE
    /\ usb' = IF usb_tx_requested THEN "give" ELSE "flush"
    /\ UNCHANGED <<produced, usb_sendbuf, sender, usb_tx_done, ready, tinyusb, full, got, broken>>

(* ... and then wakes the sender. *)
TxDone ==
    /\ usb = "give"
    /\ usb_tx_done' = TRUE
    /\ usb' = "flush"
    /\ UNCHANGED <<produced, usb_sendbuf, sender, usb_tx_requested, ready, tinyusb, full, got,
                   broken>>

(* What came in meanwhile is sent, or an empty packet behind a full one. *)
SendNext ==
    /\ usb = "flush"
    /\ IF fifo = << >> /\ full /\ ready /\ ~busy
       THEN busy' = TRUE /\ UNCHANGED <<fifo, in_flight>>
       ELSE StartTransfer
    /\ usb' = "idle"
    /\ UNCHANGED <<produced, usb_sendbuf, sender, usb_tx_requested, usb_tx_done, ready, full, got,
                   broken>>

(* The cable is pulled or the bus is reset. *)
Unplug ==
    /\ usb = "idle" /\ ready
    /\ ready' = FALSE /\ broken' = TRUE
    /\ fifo' = << >> /\ in_flight' = << >> /\ busy' = FALSE
    /\ UNCHANGED <<produced, usb_sendbuf, sender, usb_tx_requested, usb_tx_done, usb, full, got>>

Plug ==
    /\ usb = "idle" /\ ~ready
    /\ ready' = TRUE
    /\ UNCHANGED <<produced, usb_sendbuf, sender, usb_tx_requested, usb_tx_done, tinyusb, usb,
                   full, got, broken>>

UsbStep == Complete \/ TxComplete \/ TxDone \/ SendNext \/ Unplug \/ Plug

Next == (\E n \in 1 .. MaxChunk : DataReceived(n)) \/ SenderStep \/ UsbStep

(* usb_sender_task never waits longer than 50 ms; the host may stop        *)
(* reading at any time.                                                    *)
Fairness == WF_vars(SenderStep)

Spec == Init /\ [][Next]_vars /\ Fairness

-----------------------------------------------------------------------------
(* Properties *)

(* usb_sender_task never waits for a wake-up that cannot come: while it    *)
(* waits on a device that stayed ready, a transfer is in flight or its     *)
(* callback under way, and a request is there for it to find.  Timeouts,   *)
(* late completions and those of empty packets must not use up the         *)
(* request of a later packet.                                              *)
NoLostWakeUp ==
    pc = "wait" /\ ~broken =>
        usb_tx_done \/ usb = "give" \/ (usb_tx_requested /\ (busy \/ usb = "callback"))

Rest == SubSeq(int_buf, wr_len + 1, Len(int_buf))

Output == INSTANCE LossyFifo
          WITH MaxLoss <- 2 * PacketSize, pending <- in_flight \o fifo \o Rest \o usb_sendbuf

(* The host receives the target's bytes in order and at most once, and a   *)
(* timeout or a pulled cable costs it two packets at the most.             *)
ImplementsLossyFifo == Output!Spec

(* A packet taken from the ring buffer is dealt with, whatever the host    *)
(* does.                                                                   *)
PacketDealtWith == pc # "receive" ~> pc = "receive"

(* "Semaphore should have been given before write attempt.  Sometimes      *)
(* tinyusb can send one more cb even xfer_complete len is zero" (lines 99  *)
(* and 100 of serial_bridge.c): a completion that wakes the sender is that *)
(* of the bytes it has written.                                            *)
WokenByOwnBytes ==
    [][pc = "wait" /\ usb_tx_done /\ ~usb_tx_done' /\ wr_len > 0 =>
          int_buf[wr_len] <= got \/ broken]_vars

-----------------------------------------------------------------------------
(* The inductive invariant *)

(* From before the write until the wake-up, a request waits for a callback *)
(* or one has taken it.                                                    *)
RequestInv ==
    pc \in {"write", "flush", "wait"} => usb_tx_requested \/ usb_tx_done \/ usb = "give"

(* Once the bytes have left the FIFO, a callback is going to come.         *)
CallbackInv ==
    /\ pc \in {"write", "flush", "wait"} /\ ~broken => ready
    /\ (pc = "wait" \/ (pc = "flush" /\ fifo = << >>)) /\ ~broken =>
          usb_tx_done \/ busy \/ usb \in {"callback", "give"}

(* There is something to write; the endpoint holds nothing when idle.      *)
BufferInv ==
    /\ pc \in {"request", "write"} => int_buf # << >>
    /\ pc \in {"receive", "request", "write"} => wr_len = 0
    /\ pc = "receive" => int_buf = << >>
    /\ ~busy => in_flight = << >>

IInv == TypeOK /\ RequestInv /\ CallbackInv /\ BufferInv
=============================================================================
