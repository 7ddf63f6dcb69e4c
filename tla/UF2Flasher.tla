----------------------------- MODULE UF2Flasher -----------------------------
(***************************************************************************)
(* Drag-and-drop flashing: the mass-storage callbacks of main/msc.c and    *)
(* the flash session of components/serial_handler/serial_handler.c.        *)
(*                                                                         *)
(* The TinyUSB task runs tud_msc_write10_cb for every 512-byte sector the  *)
(* host writes and tud_msc_write10_complete_cb when the SCSI command ends. *)
(* UF2 payloads are collected in a buffer that is written out in whole     *)
(* erase blocks, after reading the neighbouring bytes back so that they    *)
(* survive the erase.  Between two loader calls of a callback the bridge   *)
(* may stop (eub_abort of this or of any other task, or a power cut), so   *)
(* the calls that change the target's flash are steps of their own.        *)
(***************************************************************************)
EXTENDS Integers

CONSTANTS
    FlashSize,   \* bytes of target flash
    BlockSize,   \* FLASH_BLOCK_SIZE, and the block_size of the loader calls
    BufferSize,  \* BUFFER_SIZE
    DataSize,    \* UF2_DATA_SIZE
    Md5Size,     \* UF2_MD5_SIZE
    NoLimit,     \* block_no is a uint32_t: 0 .. NoLimit - 1
    Byte,        \* values of a byte
    Erased,      \* the byte an erase leaves behind
    FirstFlash,  \* what the target's flash may hold at first
    Blocks,      \* the UF2 blocks a host may write
    NoBlock      \* no UF2 block yet

Addr == 0 .. FlashSize - 1

UF2 == [no : 0 .. NoLimit - 1, addr : Nat, md5 : BOOLEAN, payload_size : Nat,
        data : [0 .. DataSize - 1 -> Byte]]

ASSUME SizeAssumption ==
    /\ BlockSize \in Nat \ {0}
    /\ BufferSize \in Nat \ {0} /\ BufferSize % BlockSize = 0
    /\ FlashSize \in Nat \ {0} /\ FlashSize % BlockSize = 0
    /\ DataSize \in Nat /\ Md5Size \in Nat /\ Md5Size < DataSize
    /\ NoLimit \in Nat \ {0}

ASSUME BlockAssumption ==
    /\ Erased \in Byte
    /\ FirstFlash \subseteq [Addr -> Byte]
    /\ Blocks \subseteq UF2
    /\ \A b \in Blocks : b.addr + DataSize <= FlashSize
    /\ NoBlock \notin Blocks

(* real_payload_size of tud_msc_write10_cb: p->payload_size plays no part. *)
RealPayloadSize(b) == IF b.md5 THEN DataSize - Md5Size ELSE DataSize

(* block_no stored in the int msc_last_block_written, which is read as     *)
(* unsigned again: only the largest number changes, into the -1 that means *)
(* "not connected".                                                        *)
AsInt(no) == IF no = NoLimit - 1 THEN -1 ELSE no

(* Mutant of Sequential: a later block passes for the next one. *)
SequentialOrLater(b, last) == b.no > last

Sequential(b, last) == (b.no - 1) % NoLimit = last % NoLimit

Base(a) == a - (a % BlockSize)                         \* addr & ~(FLASH_BLOCK_SIZE - 1)

(* Mutants of Pad: a whole block where none is missing; no padding. *)
PadWhole(end) == BlockSize - (end % BlockSize)
PadNone(end) == 0

Pad(end) == (BlockSize - (end % BlockSize)) % BlockSize

(* The host the code relies on: a block numbered after another one follows *)
(* it in the flash too, and no block bears the number that reads as -1.    *)
WellNumbered ==
    /\ \A b \in Blocks : b.no # NoLimit - 1
    /\ \A b, c \in Blocks : c.no = b.no + 1 => c.addr = b.addr + RealPayloadSize(b)

VARIABLES
    flash,                   \* flash of the target
    buffer,                  \* static buffer of handle_data
    last_written_pos,
    aligned_addr,
    msc_last_block_written,
    is_flashing,             \* s_transport.is_flashing
    s_flash,                 \* s_flash_addr, s_flash_total_size, s_flash_operation_started
    reset_active,            \* the reset timer runs
    pc,                      \* what the TinyUSB task does next
    ret,                     \* what it does once the buffer is written out
    p,                       \* the block of the last WRITE10
    done,                    \* bytes of p handed to handle_data's buffer and written out
    written                  \* bytes of the buffer esp_loader_flash_write has taken

msc == <<buffer, last_written_pos, aligned_addr, msc_last_block_written>>
call == <<pc, ret, p, done, written>>
vars == <<flash, msc, is_flashing, s_flash, reset_active, call>>

TypeOK ==
    /\ flash \in [Addr -> Byte]
    /\ buffer \in [0 .. BufferSize - 1 -> Byte]
    /\ last_written_pos \in 0 .. BufferSize
    /\ aligned_addr \in Addr
    /\ msc_last_block_written \in -1 .. NoLimit - 1
    /\ is_flashing \in BOOLEAN
    /\ s_flash \in [addr : Addr, size : 0 .. BufferSize, started : BOOLEAN]
    /\ reset_active \in BOOLEAN
    /\ pc \in {"idle", "connect", "flush", "align", "copy", "erase", "write", "finish"}
    /\ ret \in {"overflow", "align", "finish"}
    /\ p \in Blocks \cup {NoBlock}
    /\ done \in 0 .. DataSize
    /\ written \in 0 .. BufferSize

Init ==
    /\ flash \in FirstFlash
    /\ buffer = [i \in 0 .. BufferSize - 1 |-> Erased]
    /\ last_written_pos = 0 /\ aligned_addr = 0 /\ msc_last_block_written = -1
    /\ is_flashing = FALSE /\ reset_active = FALSE
    /\ s_flash = [addr |-> 0, size |-> 0, started |-> FALSE]
    /\ pc = "idle" /\ ret = "finish" /\ p = NoBlock /\ done = 0 /\ written = 0

-----------------------------------------------------------------------------
Stored(n) == [i \in 0 .. BufferSize - 1 |->               \* memcpy of n bytes of p
                IF i >= last_written_pos /\ i < last_written_pos + n
                THEN p.data[done + i - last_written_pos] ELSE buffer[i]]

(* Mutant of ReadBack: the neighbouring bytes are left as they are. *)
ReadBackNothing(from, n) == buffer

ReadBack(from, n) == [i \in 0 .. BufferSize - 1 |->       \* serial_handler_flash_read
                IF i >= from /\ i < from + n THEN flash[aligned_addr' + i] ELSE buffer[i]]

FlashData(size) ==                                        \* serial_handler_flash_start
    /\ s_flash' = [addr |-> aligned_addr, size |-> size, started |-> FALSE]
    /\ written' = 0
    /\ pc' = "erase"

(* tud_msc_write10_cb up to the first call that may block. *)
Write10(b) ==
    /\ pc = "idle" /\ ~reset_active
    /\ p' = b /\ done' = 0 /\ ret' = "align"
    /\ pc' = IF msc_last_block_written = -1 THEN "connect"
             ELSE IF ~Sequential(b, msc_last_block_written) THEN "flush" ELSE "align"
    /\ UNCHANGED <<flash, msc, is_flashing, s_flash, reset_active, written>>

(* init_flash; a refused or failed connect ends in Reboot. *)
Connect ==
    /\ pc = "connect" /\ ~is_flashing
    /\ is_flashing' = TRUE
    /\ pc' = "align"
    /\ UNCHANGED <<flash, msc, s_flash, reset_active, ret, p, done, written>>

(* handle_data(0, NULL, 0, true) *)
Flush ==
    /\ pc = "flush"
    /\ IF last_written_pos = 0
       THEN /\ pc' = ret
            /\ UNCHANGED <<buffer, last_written_pos, aligned_addr, s_flash, written>>
       ELSE /\ is_flashing
            /\ UNCHANGED aligned_addr
            /\ LET pad == Pad(aligned_addr + last_written_pos)
               IN  /\ buffer' = ReadBack(last_written_pos, pad)
                   /\ last_written_pos' = last_written_pos + pad
                   /\ FlashData(last_written_pos + pad)
    /\ UNCHANGED <<flash, msc_last_block_written, is_flashing, reset_active, ret, p, done>>

(* handle_data(addr, data, len, false): the empty buffer is aligned ... *)
AlignBuffer ==
    /\ pc = "align" /\ is_flashing
    /\ IF last_written_pos = 0
       THEN LET addr == p.addr + done
            IN  /\ aligned_addr' = Base(addr)
                /\ last_written_pos' = addr - Base(addr)
                /\ buffer' = ReadBack(0, addr - Base(addr))
       ELSE UNCHANGED <<aligned_addr, last_written_pos, buffer>>
    /\ pc' = "copy"
    /\ UNCHANGED <<flash, msc_last_block_written, is_flashing, s_flash, reset_active,
                   ret, p, done, written>>

(* ... the data that fits is added to it, which ends the callback ... *)
AppendAll ==
    /\ pc = "copy"
    /\ LET len == RealPayloadSize(p) - done
       IN  /\ len <= BufferSize - last_written_pos
           /\ buffer' = Stored(len)
           /\ last_written_pos' = last_written_pos + len
    /\ msc_last_block_written' = AsInt(p.no)
    /\ pc' = "idle"
    /\ UNCHANGED <<flash, aligned_addr, is_flashing, s_flash, reset_active, ret, p, done, written>>

(* ... and a buffer that overflows is filled up and written out first. *)
AppendOverflow ==
    /\ pc = "copy" /\ is_flashing
    /\ LET room == BufferSize - last_written_pos
       IN  /\ RealPayloadSize(p) - done > room
           /\ buffer' = Stored(room)
    /\ FlashData(BufferSize)
    /\ ret' = "overflow"
    /\ UNCHANGED <<flash, last_written_pos, aligned_addr, msc_last_block_written,
                   is_flashing, reset_active, p, done>>

(* esp_loader_flash_start erases every block the range touches. *)
EraseRange(addr, size) ==
    {a \in Addr : \E x \in addr .. addr + size - 1 : Base(x) = Base(a)}

Erase ==
    /\ pc = "erase" /\ is_flashing /\ ~s_flash.started
    /\ flash' = [a \in Addr |-> IF a \in EraseRange(s_flash.addr, s_flash.size)
                                THEN Erased ELSE flash[a]]
    /\ s_flash' = [s_flash EXCEPT !.started = TRUE]
    /\ pc' = "write"
    /\ UNCHANGED <<msc, is_flashing, reset_active, ret, p, done, written>>

Programmed(n) == [a \in Addr |->              \* the first n bytes of the current chunk
    LET i == a - s_flash.addr
    IN  IF i >= written /\ i < written + n THEN buffer[i] ELSE flash[a]]

Chunk == IF s_flash.size - written < BlockSize THEN s_flash.size - written ELSE BlockSize

(* One esp_loader_flash_write of serial_handler_flash_write. *)
WriteChunk ==
    /\ pc = "write" /\ written < s_flash.size
    /\ flash' = Programmed(Chunk)
    /\ written' = written + Chunk
    /\ UNCHANGED <<msc, is_flashing, s_flash, reset_active, pc, ret, p, done>>

(* serial_handler_flash_write and flash_data return to handle_data. *)
WrittenOut ==
    /\ pc = "write" /\ written = s_flash.size
    /\ last_written_pos' = 0
    /\ done' = IF ret = "overflow" THEN done + (BufferSize - last_written_pos) ELSE done
    /\ pc' = IF ret = "finish" THEN "finish" ELSE "align"
    /\ UNCHANGED <<flash, buffer, aligned_addr, msc_last_block_written, is_flashing, s_flash,
                   reset_active, ret, p, written>>

(* Mutant of Complete: the buffer is not flushed. *)
CompleteUnflushed ==
    /\ pc = "idle" /\ msc_last_block_written # -1
    /\ pc' = "finish" /\ ret' = "finish"
    /\ UNCHANGED <<flash, msc, is_flashing, s_flash, reset_active, p, done, written>>

(* tud_msc_write10_complete_cb, which does nothing outside a session *)
Complete ==
    /\ pc = "idle" /\ msc_last_block_written # -1
    /\ pc' = "flush" /\ ret' = "finish"
    /\ UNCHANGED <<flash, msc, is_flashing, s_flash, reset_active, p, done, written>>

(* Mutant of Finish: the mass-storage side stays connected. *)
FinishConnected ==
    /\ pc = "finish" /\ is_flashing
    /\ is_flashing' = FALSE
    /\ s_flash' = [addr |-> 0, size |-> 0, started |-> FALSE]
    /\ reset_active' = TRUE
    /\ pc' = "idle"
    /\ UNCHANGED <<flash, msc, ret, p, done, written>>

(* serial_handler_flash_finish(true): the target is put into reset. *)
Finish ==
    /\ pc = "finish" /\ is_flashing
    /\ is_flashing' = FALSE
    /\ s_flash' = [addr |-> 0, size |-> 0, started |-> FALSE]
    /\ reset_active' = TRUE
    /\ msc_last_block_written' = -1
    /\ pc' = "idle"
    /\ UNCHANGED <<flash, buffer, last_written_pos, aligned_addr, ret, p, done, written>>

(* The reset timer expires. *)
ResetDone ==
    /\ reset_active
    /\ reset_active' = FALSE
    /\ UNCHANGED <<flash, msc, is_flashing, s_flash, call>>

(* eub_abort, here or in another task, or a power cut: every static is set *)
(* up again, the flash keeps what the loader had programmed.               *)
Reboot ==
    /\ flash' \in {flash} \cup {Programmed(n) : n \in IF pc = "write" THEN 1 .. Chunk ELSE {}}
    /\ buffer' = [i \in 0 .. BufferSize - 1 |-> Erased]
    /\ last_written_pos' = 0 /\ aligned_addr' = 0 /\ msc_last_block_written' = -1
    /\ is_flashing' = FALSE /\ reset_active' = FALSE
    /\ s_flash' = [addr |-> 0, size |-> 0, started |-> FALSE]
    /\ pc' = "idle" /\ ret' = "finish" /\ p' = NoBlock /\ done' = 0 /\ written' = 0

CallStep ==
    \/ Connect \/ Flush \/ AlignBuffer \/ AppendAll \/ AppendOverflow
    \/ Erase \/ WriteChunk \/ WrittenOut \/ Finish

Next ==
    \/ \E b \in Blocks : Write10(b)
    \/ Complete
    \/ CallStep
    \/ ResetDone
    \/ Reboot

(* The TinyUSB task runs on, and the loader calls have timeouts. *)
Spec == Init /\ [][Next]_vars /\ WF_vars(CallStep)
-----------------------------------------------------------------------------
(* What the host is to find in the flash: the payload in hand lies over    *)
(* the buffered bytes, and these lie over the flash.                       *)
InHand == pc \notin {"idle", "finish"} /\ ret # "finish"

Held == IF pc \in {"erase", "write"} THEN s_flash.size ELSE last_written_pos

Buffered(a) == a \in aligned_addr .. aligned_addr + Held - 1

View == [a \in Addr |->
    IF InHand /\ a \in p.addr + done .. p.addr + RealPayloadSize(p) - 1 THEN p.data[a - p.addr]
    ELSE IF Buffered(a) THEN buffer[a - aligned_addr]
    ELSE flash[a]]

Open == pc # "idle" \/ msc_last_block_written # -1

(* Whatever the order of writes, flushes and crashes, the flash the host   *)
(* finds is the one FlashImage promises: each payload at its own address,  *)
(* the neighbours that share an erase block with it as they were, nothing  *)
(* lost once the write command has been completed, and a crash in between  *)
(* damaging no more than the buffered range and the payload in hand.       *)
Image == INSTANCE FlashImage WITH
    image <- View, open <- Open,
    Payloads <- {[addr |-> b.addr, len |-> RealPayloadSize(b), data |-> b.data] : b \in Blocks}

ImplementsImage == Image!Spec

(* An erase wipes whole 4 KB blocks (serial_handler_flash_write), so every *)
(* byte it wipes must be in the buffer, ready to be written back.          *)
ErasesOnlyTheBuffered ==
    pc = "erase" => \A a \in EraseRange(s_flash.addr, s_flash.size) : Buffered(a)

(* handle_data appends to the buffer without looking at the address of the *)
(* block: the bytes must be appended where that address says.              *)
AddressHonoured ==
    pc = "copy" => p.addr + done = aligned_addr + last_written_pos

(* The session functions are called inside a session and connect outside   *)
(* one: none of their ESP_ERR_INVALID_STATE returns, each of which ends in *)
(* eub_abort, is ever taken, and no session outlives its command.          *)
SessionMatchesCall ==
    /\ pc = "idle" => (is_flashing <=> msc_last_block_written # -1)
    /\ pc = "connect" => ~is_flashing
    /\ pc \notin {"idle", "connect"} => is_flashing

(* The target is reset, and its next session can begin, only when nothing  *)
(* the host wrote is left in the buffer.                                   *)
FlushedBeforeReset == (pc = "finish" \/ reset_active \/ ~is_flashing) => last_written_pos = 0

(* CHANGELOG.md: "flash only real payload when UF2_FLAG_MD5_PRESENT flag   *)
(* is set": no more of a block is flashed than its payload_size.           *)
OnlyRealPayload == pc = "copy" => RealPayloadSize(p) <= p.payload_size
-----------------------------------------------------------------------------
(* The inductive invariant behind the properties above.                    *)
End == aligned_addr + last_written_pos

SessionInv ==
    /\ SessionMatchesCall
    /\ ~is_flashing => last_written_pos = 0
    /\ pc = "finish" => last_written_pos = 0
    /\ reset_active => pc = "idle" /\ ~is_flashing

CallInv ==
    /\ Open => p \in Blocks
    /\ InHand => done < RealPayloadSize(p)
    /\ pc \in {"connect", "align", "copy"} => ret # "finish"
    /\ pc = "flush" => ret # "overflow"
    /\ pc = "finish" => ret = "finish"

PlaceInv ==
    /\ aligned_addr % BlockSize = 0
    /\ End <= FlashSize
    /\ pc = "idle" /\ msc_last_block_written # -1 =>
          msc_last_block_written = p.no /\ End = p.addr + RealPayloadSize(p)
    /\ pc = "align" /\ last_written_pos > 0 => p.addr + done = End
    /\ AddressHonoured

OverflowInv ==
    /\ s_flash.size = BufferSize
    /\ p.addr + done = End
    /\ BufferSize - last_written_pos < RealPayloadSize(p) - done
    /\ \A i \in last_written_pos .. BufferSize - 1 : buffer[i] = p.data[done + i - last_written_pos]

WriteInv == pc \in {"erase", "write"} =>
    /\ s_flash.addr = aligned_addr
    /\ s_flash.size % BlockSize = 0
    /\ aligned_addr + s_flash.size <= FlashSize
    /\ written <= s_flash.size
    /\ IF ret = "overflow" THEN OverflowInv ELSE s_flash.size = last_written_pos
    /\ pc = "erase" => written = 0 /\ ~s_flash.started
    /\ pc = "write" => \A i \in 0 .. written - 1 : flash[aligned_addr + i] = buffer[i]

IInv == TypeOK /\ SessionInv /\ CallInv /\ PlaceInv /\ WriteInv
=============================================================================
