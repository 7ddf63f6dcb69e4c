------------------------------- MODULE UartRx -------------------------------
(***************************************************************************)
(* The one receiver of the UART and its two readers: uart_event_task of    *)
(* components/serial_handler/serial_handler.c hands what the target sends  *)
(* to the serial bridge, and during a flash session the loader reads its   *)
(* answers from the same buffer, in the TinyUSB task.  is_flashing is all  *)
(* that tells them apart: the task tests it once for an event and reads    *)
(* later.                                                                  *)
(*                                                                         *)
(* The driver (external) puts what arrives into a ring buffer and an event *)
(* into a queue; an event that finds no room in the queue is lost, what    *)
(* finds no room in the buffer is held back until a read makes room.  The  *)
(* loader (external) reads byte by byte and skips what is no answer.       *)
(***************************************************************************)
EXTENDS Integers, Sequences, SequencesExt

CONSTANTS
    RxSize,               \* rx_buffer_size: 4096
    QueueSize,            \* queue_size: 20
    ReadSize,             \* SLAVE_UART_BUF_SIZE, of dtmp: 2048
    Chunk,                \* bound of the model: bytes of one interrupt
    MaxChunks,            \* bound of the model: interrupts
    MaxSessions,          \* bound of the model: flash sessions
    Prompt                \* assumed: a read begun before the session is over when the loader first asks

(* As many reads as there may be events in the queue empty the buffer and  *)
(* what is held back.  One read takes all of an interrupt, at most the 128 *)
(* bytes of the hardware FIFO, and what has no room beside them in the     *)
(* buffer is more than one read.                                           *)
ASSUME SizesAssumption ==
    /\ RxSize \in Nat \ {0} /\ QueueSize \in Nat \ {0} /\ ReadSize \in Nat \ {0}
    /\ QueueSize * ReadSize >= RxSize + Chunk
    /\ Chunk \in 1 .. ReadSize /\ ReadSize + Chunk <= RxSize
    /\ MaxChunks \in Nat /\ MaxSessions \in Nat
    /\ Prompt \in BOOLEAN

VARIABLES
    rx, held,             \* external: the driver's ring buffer and what did not fit into it
    uart_queue,           \* external: the driver's events
    is_flashing, data_callback,
    pc, want, dtmp,       \* of uart_event_task
    target,               \* external: what the target runs
    loader, sessions,     \* of the TinyUSB task in a session, and sessions so far
    chunks,               \* interrupts so far
    overheard,            \* history: the bridge has been given an answer to the loader
    passed                \* history: bytes left in the buffer were passed over or their event erased

driver == <<rx, held, uart_queue>>
task == <<pc, want, dtmp>>
session == <<is_flashing, target, loader, sessions>>
vars == <<driver, data_callback, task, session, chunks, overheard, passed>>

Byte == {"output", "answer"}

TypeOK ==
    /\ rx \in Seq(Byte) /\ Len(rx) <= RxSize
    /\ held \in Seq(Byte) /\ Len(held) <= Chunk
    /\ uart_queue \in Seq({"data", "full", "fifo"}) /\ Len(uart_queue) <= QueueSize
    /\ is_flashing \in BOOLEAN /\ data_callback \in BOOLEAN
    /\ pc \in {"receive", "data", "length", "read", "blocked", "callback", "flush", "reset"}
    /\ want \in 0 .. ReadSize
    /\ dtmp \in Seq(Byte) /\ Len(dtmp) <= ReadSize
    /\ target \in {"app", "loader", "answering"}
    /\ loader \in {"idle", "connect", "ask", "listen"}
    /\ sessions \in 0 .. MaxSessions /\ chunks \in 0 .. MaxChunks
    /\ overheard \in BOOLEAN /\ passed \in BOOLEAN

(* serial_handler_init; the task runs before the bridge has registered.    *)
Init ==
    /\ rx = << >> /\ held = << >> /\ uart_queue = << >>
    /\ is_flashing = FALSE /\ data_callback = FALSE
    /\ pc = "receive" /\ want = 0 /\ dtmp = << >>
    /\ target = "app" /\ loader = "idle" /\ sessions = 0 /\ chunks = 0
    /\ overheard = FALSE /\ passed = FALSE

-----------------------------------------------------------------------------
(* The driver *)

Posted(e) == IF Len(uart_queue) < QueueSize THEN Append(uart_queue, e) ELSE uart_queue

Room(n) == Len(rx) + n <= RxSize

(* An interrupt with n bytes b; while bytes are held back there is none    *)
(* and what the target sends is lost.                                      *)
Interrupt(n, b) ==
    LET bytes == [i \in 1 .. n |-> b] IN
    /\ chunks < MaxChunks /\ chunks' = chunks + 1
    /\ CASE held # << >> -> UNCHANGED driver
         [] held = << >> /\ Room(n) -> rx' = rx \o bytes /\ uart_queue' = Posted("data") /\ UNCHANGED held
         [] OTHER -> held' = bytes /\ uart_queue' = Posted("full") /\ UNCHANGED rx
    /\ UNCHANGED <<data_callback, task, overheard, passed>>

(* The application of the target sends something. *)
Output(n) ==
    /\ target = "app"
    /\ Interrupt(n, "output")
    /\ UNCHANGED session

(* The target's loader answers. *)
Answer(n) ==
    /\ target = "answering" /\ target' = "loader"
    /\ Interrupt(n, "answer")
    /\ UNCHANGED <<is_flashing, loader, sessions>>

(* The hardware FIFO overruns when an interrupt comes late. *)
FifoOverflow ==
    /\ target = "app" /\ held = << >>
    /\ chunks < MaxChunks /\ chunks' = chunks + 1
    /\ uart_queue' = Posted("fifo")
    /\ UNCHANGED <<rx, held, data_callback, task, session, overheard, passed>>

(* What uart_read_bytes leaves of the buffer when it has taken n bytes: it *)
(* fetches what was held back as soon as there is room.                    *)
Taken(n) ==
    LET rest == SubSeq(rx, n + 1, Len(rx)) IN
    IF Len(rest) + Len(held) <= RxSize
    THEN rx' = rest \o held /\ held' = << >>
    ELSE rx' = rest /\ UNCHANGED held

-----------------------------------------------------------------------------
(* uart_event_task *)

(* serial_handler_register_data_callback of serial_bridge_init. *)
RegisterDataCallback ==
    /\ ~data_callback
    /\ data_callback' = TRUE
    /\ UNCHANGED <<driver, task, session, chunks, overheard, passed>>

ReceiveEvent ==
    /\ pc = "receive" /\ uart_queue # << >>
    /\ pc' = IF Head(uart_queue) = "data" THEN "data" ELSE "flush"
    /\ uart_queue' = Tail(uart_queue)
    /\ UNCHANGED <<rx, held, data_callback, want, dtmp, session, chunks, overheard, passed>>

(* Mutant of ForBridge: the session is not asked about. *)
ForBridgeAlways == data_callback

ForBridge == ~is_flashing /\ data_callback

(* Data are left to the loader, or lie there as long as nobody wants them. *)
TestFlashing ==
    /\ pc = "data"
    /\ pc' = IF ForBridge THEN "length" ELSE "receive"
    /\ passed' = (passed \/ ~ForBridge)
    /\ UNCHANGED <<driver, data_callback, want, dtmp, session, chunks, overheard>>

(* Mutants of ReadLength: the whole of dtmp; whatever its size; a byte for *)
(* each event.                                                             *)
ReadLengthOfBuffer(n) == ReadSize
ReadLengthOfAll(n) == n
ReadLengthOfOne(n) == IF n > 0 THEN 1 ELSE 0

ReadLength(n) == IF n < ReadSize THEN n ELSE ReadSize

GetBufferedLength ==
    /\ pc = "length"
    /\ want' = ReadLength(Len(rx)) /\ pc' = "read"
    /\ UNCHANGED <<driver, data_callback, dtmp, session, chunks, overheard, passed>>

(* uart_read_bytes waits for all of them without end, and as long as it    *)
(* waits the loader cannot read either.                                    *)
ReadBytes ==
    /\ \/ pc = "read"
       \/ pc = "blocked" /\ Len(rx) >= want
    /\ IF Len(rx) >= want
       THEN /\ dtmp' = SubSeq(rx, 1, want) /\ Taken(want)
            /\ pc' = "callback"
            /\ passed' = (passed /\ rx' # << >>)
       ELSE /\ pc' = "blocked"
            /\ UNCHANGED <<rx, held, dtmp, passed>>
    /\ UNCHANGED <<uart_queue, data_callback, want, session, chunks, overheard>>

DataCallback ==
    /\ pc = "callback"
    /\ overheard' = (overheard \/ Contains(dtmp, "answer"))
    /\ pc' = "receive" /\ want' = 0 /\ dtmp' = << >>
    /\ UNCHANGED <<driver, data_callback, session, chunks, passed>>

(* UART_FIFO_OVF and UART_BUFFER_FULL: in a session too. *)
FlushInput ==
    /\ pc = "flush"
    /\ rx' = << >> /\ held' = << >> /\ passed' = FALSE
    /\ pc' = "reset"
    /\ UNCHANGED <<uart_queue, data_callback, want, dtmp, session, chunks, overheard>>

QueueReset ==
    /\ pc = "reset"
    /\ passed' = (passed \/ uart_queue # << >>)
    /\ uart_queue' = << >>
    /\ pc' = "receive"
    /\ UNCHANGED <<rx, held, data_callback, want, dtmp, session, chunks, overheard>>

uart_event_task ==
    ReceiveEvent \/ TestFlashing \/ GetBufferedLength \/ ReadBytes \/ DataCallback
        \/ FlushInput \/ QueueReset

-----------------------------------------------------------------------------
(* A flash session *)

FlashConnect ==
    /\ loader = "idle" /\ ~is_flashing /\ sessions < MaxSessions
    /\ is_flashing' = TRUE /\ loader' = "connect" /\ sessions' = sessions + 1
    /\ UNCHANGED <<driver, data_callback, task, target, chunks, overheard, passed>>

(* esp_loader_connect resets the target into its loader, which takes 150 ms. *)
EnterBootloader ==
    /\ loader = "connect"
    /\ Prompt => pc \notin {"length", "read", "blocked", "callback"}
    /\ target' = "loader" /\ loader' = "ask"
    /\ UNCHANGED <<driver, data_callback, task, is_flashing, sessions, chunks, overheard, passed>>

(* A command of the loader. *)
Ask ==
    /\ loader = "ask" /\ chunks < MaxChunks
    /\ target' = "answering" /\ loader' = "listen"
    /\ UNCHANGED <<driver, data_callback, task, is_flashing, sessions, chunks, overheard, passed>>

(* The loader takes a byte, skips output and has its answer when it has    *)
(* read the last byte of it.  Without an answer it gives up, and the       *)
(* bridge aborts: the model stops there.                                   *)
Listen ==
    /\ loader = "listen" /\ pc # "blocked" /\ rx # << >>
    /\ Taken(1)
    /\ loader' = IF target = "loader" /\ ~Contains(rx' \o held', "answer") THEN "ask" ELSE "listen"
    /\ passed' = (passed /\ rx' # << >>)
    /\ UNCHANGED <<uart_queue, data_callback, task, is_flashing, target, sessions, chunks, overheard>>

(* serial_handler_flash_finish: the target runs its application again. *)
FlashFinish ==
    /\ loader = "ask"
    /\ is_flashing' = FALSE /\ loader' = "idle" /\ target' = "app"
    /\ UNCHANGED <<driver, data_callback, task, sessions, chunks, overheard, passed>>

-----------------------------------------------------------------------------
Next ==
    \/ \E n \in 1 .. Chunk : Output(n) \/ Answer(n)
    \/ FifoOverflow
    \/ RegisterDataCallback
    \/ uart_event_task
    \/ FlashConnect \/ EnterBootloader \/ Ask \/ Listen \/ FlashFinish

(* The scheduler runs uart_event_task. *)
Spec == Init /\ [][Next]_vars /\ WF_vars(uart_event_task)

-----------------------------------------------------------------------------
(* Bytes do not lie in the driver without an event that will fetch them,   *)
(* however many events a full queue has lost: only those a session or a    *)
(* missing callback has passed over may, and those whose event the reset   *)
(* of the queue has erased after the flush.                                *)
NothingStranded ==
    pc = "receive" /\ uart_queue = << >> /\ rx # << >> => passed

(* The bridge never takes an answer that the loader waits for, although    *)
(* the task's test of is_flashing and its read are two steps, as long as   *)
(* that read is over when the loader first asks (Prompt).                  *)
NotOverheard == ~overheard

(* uart_event_task, which reads with no timeout, always comes back: what   *)
(* it has counted is still there when it reads.                            *)
ReadReturns == pc = "read" ~> pc = "receive"

(* "When flashing, ESP loader will read data directly from UART" (line 205 *)
(* of serial_handler.c): while the loader waits nobody discards what the   *)
(* target has answered.                                                    *)
AnswersKept ==
    [][FlushInput => ~Contains(rx \o held, "answer")]_vars
=============================================================================
