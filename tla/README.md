# Formal model of the ESP USB bridge

TLA+ specifications of the firmware in `src/`, checked with TLC and, in large
part, proved with TLAPS. The firmware turns an ESP32-S2/S3 into a USB device with
three functions for a *target* chip: a serial port (CDC) whose DTR and RTS
drive the target's BOOT and RST pins, a mass-storage disk onto which UF2 files
are dropped to be flashed, and a vendor interface for JTAG or SWD.

## 1. Inventory

The tasks: `tusb_device_task` runs every USB callback; the esp_timer task runs
the callbacks of three one-shot timers; `uart_event_task` moves bytes from the
target to a ring buffer and `usb_sender_task` from there to the host;
`jtag_task` (or `swd_task`) and `usb_send_task` serve the debug interface;
`render_task` draws the status LED. They run on two cores and share static
variables, few of them under a lock.

| Component | Source | State | Operations | Correct when |
|---|---|---|---|---|
| UF2 flasher | `main/msc.c`, session functions of `serial_handler.c` | block buffer, its address and fill, last block number, `is_flashing`, `s_flash_*`, reset timer | `tud_msc_write10_cb`, `handle_data`, `tud_msc_write10_complete_cb`, flash connect/start/write/read/finish | every payload reaches its own address, the neighbours in a shared erase block survive, nothing is lost after completion, no call is made in the wrong session state |
| Target lines | `serial_handler.c`, `main/serial_bridge.c` | levels of BOOT and RST, `s_prev_rst`, `s_target_running`, the TxD pad, its mutex, three timers | line state, serial data, connect and finish of a session, three timer callbacks | the target leaves reset, the pad is driven while somebody talks and released when nobody does |
| CDC sender | `main/serial_bridge.c` | ring buffer, two binary semaphores | data callback, sender task, completion callback | bytes reach the host in order and once, or are dropped as a whole tail after a timeout |
| UART receiver | `serial_handler.c` | UART event queue, `is_flashing` | `uart_event_task` | the loader's replies are not read by the bridge |
| Mass-storage disk | `main/msc.c` | FAT16 skeleton, `ejected` | read10, start/stop, unit ready | reads match the layout, no read leaves its sector |
| Vendor driver | `main/eub_vendord.c` | endpoints, OUT buffer, send task | open, reset, transfer callback, send task, start | packets keep their order; no circular wait |
| JTAG probe | `esp_usb_jtag.c`, `debug_gpio.*` | two ring buffers, TDO bit buffer, repeat state | command nibbles, flush, TDI bootstrapping | the TDO bits sent are those clocked in, in order, none twice |
| SWD probe, DAP | `swd.c`, `DAP/` (CMSIS-DAP, third party) | two ring buffers; DAP state | request/response task | one response per request, posted reads matched to their requests |
| Status LED | `status_led.c` | mount flag, fatal flag, three ticks | blips, render task, fatal blink | priority of states, a fatal error is visible |
| Abort | `util.c` | - | `eub_abort` | a restart from any point is safe |
| Startup, configuration | `main/main.c`, CMake, Kconfig, sdkconfig | - | straight-line initialisation, descriptors | - |

Interactions: `msc.c` calls the session functions of `serial_handler.c`, which
drive the target's flash through the esp-serial-flasher component (external)
and its pins through `serial_handler_set_boot_reset_pins`; `serial_bridge.c`
drives the same pins and the same UART; `serial_handler_is_reset_active` makes
`msc.c` wait for the reset timer; the LED reads `is_flashing` and the reset
timer; `serial_bridge.c` suspends the JTAG task around a reset of an ESP32.

What is hard: two tasks changing pins, `s_prev_rst` and the TxD pad without a
common lock; timer callbacks that outlive `esp_timer_stop`; flags tested before
and used after a mutex; erase blocks shared by data and bystanders, with a
crash possible between erase and program; sessions opened and closed under a
host that repeats, reorders and mixes writes; buffers at their limits and waits
in a circle in the debug interface. `PROJECT.json` lists each hazard at its line.

## 2. How the project is built up

Flashing comes first, as it changes somebody's chip, then the lines that decide
whether the target runs, then the paths of the bytes, then what is left:

| Step | Modules | Abstract specification | Proofs |
|---|---|---|---|
| 1 | `UF2Flasher` | `FlashImage` | `UF2FlasherProofs` |
| 2 | `TargetLines` | - | `TargetLinesProofs` |
| 3 | `JtagProbe` | `TdoStream` | `DebugProbeProofs` |
| 4 | `CdcSender` | `LossyFifo` | `CdcSenderProofs` |
| 5 | `DebugPipe`, which composes both directions between USB and the probe | `LossyFifo` | `DebugProbeProofs` |
| 6 | `UartRx`, which composes the receiver with a flash session | - | `UartRxProofs` |
| 7 | `Dap`, which extends `SwdTransfer` | `RegisterAccess` | `DapProofs` |
| 8 | `StatusLed` | - | `StatusLedProofs` |
| 9 | `MscDisk`, which composes the disk with the entrance of the flasher | a host that reads the file system | `MscDiskProofs` |

Each component has an MC module with the values of
its constants, the operators of its mutants, and one or more `.cfg` files.

Left for later: the suspension of the JTAG task from `tud_cdc_line_state_cb`
(section 6) and a refused connect in `TargetLines`.

## 3. Modules

### FlashImage, UF2Flasher: drag-and-drop flashing

`FlashImage` is the promise to the host, in two variables: the contents of the
flash as the host is to find them, and whether a write is still open. `Write`
lays a payload over the image, `Close` makes it durable, and `Lose` is a crash
in between, which may damage one buffer's worth of flash from a block boundary
and the payload in hand, nothing else.

`UF2Flasher` is the code. The TinyUSB task is sequential, so its state is a
program counter `pc` with one value for each place where a callback may block
in the loader, that is, where a crash leaves a different flash behind:

| Action | Code |
|---|---|
| `Write10(b)` | `tud_msc_write10_cb` up to its first blocking call; `Sequential` is the test of line 540 |
| `Connect` | `init_flash`, `serial_handler_flash_connect` |
| `Flush` | `handle_data(0, NULL, 0, true)`: pad from the flash, write out |
| `AlignBuffer` | the empty buffer begun at the boundary below the address |
| `AppendAll`, `AppendOverflow` | the copy, and the recursive case of a full buffer |
| `Erase`, `WriteChunk`, `WrittenOut` | `serial_handler_flash_write` inside `flash_data` |
| `Complete`, `Finish` | `tud_msc_write10_complete_cb`, `finish_flash` |
| `ResetDone` | the reset timer |
| `Reboot` | `eub_abort` here or in another task, or a power cut |

Memory is modelled byte by byte but in a small flash; all sizes are constants.
`EraseRange` and `Programmed` are the external loader: it erases every block
the range touches, and a write interrupted by a crash may have programmed any
prefix of its chunk. A failed loader call leads to `eub_abort`, so `Reboot` is
its model. `block_no` keeps its width: it is stored modulo `NoLimit`, whose last
value reads back as the -1 that means "not connected".

The refinement maps the image to `View`: the payload in hand over the buffer
over the flash. `ImplementsImage` says that every behaviour of the code is one
of `FlashImage`.

### TargetLines: BOOT, RST and TxD

Two tasks, `usb` and `tmr`, with a `pc` each. The body of
`serial_handler_set_boot_reset_pins` is cut at every access to shared state
(`SetBoot`, `SetRst`, `ReadPrev`, `WritePrev`, `StoreRunning`, `Acquire`,
`Rearm`) and runs in either task. `LineState` is `tud_cdc_line_state_cb`; `Send`
and `WriteBytes` are `serial_handler_send_data`; `Connect` and `Claim` are
`serial_handler_flash_connect` before and after the store to `is_flashing`;
`LoaderPulse` and `LoaderSync` are the loader's own reset of the target;
`Finish` and `ArmReset` are `serial_handler_flash_finish`. In the timer task
`PinsTimer` is `state_change_timer_cb` or `reset_timer_cb`; `ReleaseTimer`,
`Check`, `WaitTxDone`, `Release` and `Defer` are `tx_release_timer_cb`.

Time is abstract. A timer is off, *fresh* or *armed*; a fresh one, armed since
the current USB callback began, does not expire before that callback ends,
because its period (10 ms at least) is far longer than the few register
accesses of a callback. The loader's exchange, which is long, is the exception:
within it any timer may expire, and a release callback that has passed its
tests, which waits at most 20 ms for the UART, is over when the loader, 100 ms
later, lets the target out of its reset (`LoaderSync`). An armed timer may
expire at any moment. The three tests at the head of `tx_release_timer_cb` are
one step.

`line`, `owner` and `overtaken` are history variables: the host's last line
state, whether the pins should follow it, and whether calls of
`serial_handler_set_boot_reset_pins` have overlapped and none that stops the
target has had the pins to itself since. `mode` is what the target does, as
BOOT and RST decide it: it is in reset, in its boot ROM or in its application.
`QuietRelease` is about `mode`, not about the code's own `s_target_running`
alone: a pad let go while no USB callback runs is that of a target in its
application, with no session open and no reset pulse running. It excepts
`overtaken`, because there the code does let go of a target in reset:
`ReleasedToRun`, the same without the exception, fails (section 4).

### TdoStream, JtagProbe: the TDO bits of the JTAG interface

`TdoStream` is what the host is owed: every bit it asked to capture, in order
and once, in packets; a flush pads the last byte with fewer than `ByteBits`
zeros and sends the rest. A packet is delivered or dropped as a whole.
`JtagProbe` is `jtag_task` of `esp_usb_jtag.c`, which reads nibbles:

| Action | Code |
|---|---|
| `Fetch(nib)` | the head of the loop: `prev_cmd`, `rep_cnt` and the number of cycles of a nibble |
| `Clock` | one `do_jtag_one`: the level of TDO is read before the edge, and stored if it is to be captured |
| `Clocked` | the end of the repetition |
| `FlushSend`, `FlushDone` | the loop of `CMD_FLUSH` and the reset of the bit counters behind it |
| `DrainPacket`, `DrainNothing` | the test for a full packet after each nibble |
| `SendData` | `esp_usb_jtag_send_data`, whose packet may be dropped after its timeout |

`Asks` states what the host must keep to: no more captures between two flushes
than `s_tdo_bytes` holds, and at most 15 repeat nibbles in a row, as the code
shifts an `int`. `asked`, `digits`, `due` and `after_srst` are history. The
refinement maps `owed` to the bits between `s_usb_sent_bits` and
`s_total_tdo_bits`. `RunsExact` compares the cycles clocked with the base-4
number that the repeats spell; the runs begun by a reset command are excepted,
since that command leaves `rep_cnt` as it is and its repeats weigh more than
their position says.

### LossyFifo, CdcSender: from the target to the host

`LossyFifo` numbers the bytes as they come: each reaches the host at most once
and in order; those refused are lost, and of those under way at most `MaxLoss`
at a time. In `CdcSender` two tasks and an interrupt-like callback meet:

| Action | Code |
|---|---|
| `DataReceived(n)` | `transport_data_received_callback`: all `n` bytes into the ring buffer, or none |
| `Receive`, `Request`, `Write`, `Flush` | the loop of `usb_sender_task` up to the wait; `Write` is `tud_cdc_write`, which takes what fits |
| `Waited`, `TimeOut`, `TakeBack`, `WriteClear` | `usb_wait_for_tx` with 50 ms, and the two steps of giving up |
| `Complete`, `TxComplete`, `TxDone`, `SendNext` | TinyUSB's `cdcd_xfer_cb` around `tud_cdc_tx_complete_cb`: the take of the request and the give of the completion are two steps |
| `Unplug`, `Plug` | the device becomes not ready, ready again |

The FIFO and the transfer in flight are TinyUSB's (external). `MaxLoss` is two
packets: the rest of `int_buf` and the FIFO.

### DebugPipe: between the endpoints and the probe

`eub_vendord.c`, `debug_probe.c`, the two ring buffers of `esp_usb_jtag.c` or
`swd.c` and the mounts of `main.c`, with requests and answers as opaque items:

| Action | Code |
|---|---|
| `Mount`, `StartSender`, `MakeBuffers`, `CreateProbe` | `tud_mount_cb`: `eub_vendord_start`, then `debug_probe_init` |
| `Reset` | `eub_vendord_reset` |
| `OutComplete`, `ProcessData`, `ProcessFails`, `Rearm` | `eub_vendord_xfer_cb` of the OUT endpoint: 1 s for room, `eub_abort` without it |
| `InComplete` | the same of the IN endpoint |
| `SendReceive`, `SendGets`, `Transfer`, `TransferTimesOut`, `TransferNowhere`, `SendFree` | `usb_send_task`: the item is freed after the transfer has been started |
| `ProbeReceive`, `ProbeGets`, `ProbeSends`, `ProbeDrops`, `ProbeReturns` | `jtag_task` or `swd_task` of each mount |
| `HostSends`, `HostReads` | the host (external) |

The definitions that other modules have too are called `PipeInit`, `PipeNext`,
`PipeSpec`, `PipeTypeOK` here.

The send buffer is a ring of places (`slots`, `first`, `used`), because the
item in flight is read from its place after it has been given back: `flying`
is that place. What the host gets is therefore what the place holds at the time
it reads. The receive buffer needs counts only: places taken (`rcv`), and those
of items that one mount's task has returned while the other's may still hold an
older one (`returned`); which of the two is older is left open. `Window` is an
assumption on the host: it lets no more answers be due than the send buffer
holds. With it the pipe implements `LossyFifo` and
every packet is sent as it was started (both proved, section 5); without it,
`SentAsStarted` fails (section 4). `remount` is the case of a second
mount, which leaves the sender at the first mount's buffer.

### UartRx: one receiver, two readers

`uart_event_task` reads for the bridge, the loader reads in a session. The task
is cut where it can be preempted: `ReceiveEvent`, `TestFlashing`,
`GetBufferedLength`, `ReadBytes` (no timeout), `DataCallback`; `FlushInput` and
`QueueReset` are its handling of an overflow. `FlashConnect` and `FlashFinish`
are the stores of `is_flashing`; `EnterBootloader`, `Ask` and `Listen` the
loader. `Output(n)`, `Answer(n)` and `FifoOverflow` are the driver's interrupt,
with `Posted` for an event that a full queue loses and `held` for bytes that the
ring buffer cannot take.

`SizesAssumption` is what the count of bytes rests on: as many reads as the
queue has events empty the buffer and what is held back (20 x 2048 against
4096 + 128), a read takes all that one interrupt can bring (2048 against 128),
and a buffer that has no room for an interrupt has more than one read in it
(2048 + 128 against 4096). `Prompt` is about time: a read begun before a session
is over when the loader first asks, as it resets the target first, which takes
tens of milliseconds. `overheard` and `passed` are history.

### RegisterAccess, SwdTransfer, Dap: SWD transfers

`RegisterAccess` is what a transfer command promises: its requests one by one,
and for each plain read the value that *its* access has read; a command that
fails may lack the last value. `SwdTransfer` is `DAP_SWD_Transfer`,
`DAP_SWD_TransferBlock` and `DAP_SWD_WriteABORT` of `DAP.c`, with one action
for each transfer on the bus:

| Action | Code |
|---|---|
| `NextRequest`, `Retry`, `Break`, `End` | the loop over the requests, its retries on WAIT, and its exits |
| `Fetch`, `Pipeline`, `Post`, `Read` | the four ways of a read: the posted data of the request before, with or without the next read in the same access |
| `MatchPost`, `MatchRead`, `MaskWrite`, `Write` | reads until a value matches, the mask, writes |
| `Last`, `Check` | after the loop: the data still posted, or the read of RDBUFF that checks the last write |
| `BlockPost`, `BlockRead`, `BlockWrite` | `DAP_SWD_TransferBlock` |

The target is external (`Accepted`, `Damaged`, `Refused`): it posts the reads of
an access port, numbers them, answers WAIT, FAULT or nothing, and has a sticky
flag; `doubt` says whether a write has failed that the host does not know of.
`Dap` adds the port: `Connect`, `Disconnect`, `Setup` (a mount between two
commands; section 6), `SWJ_Clock`
with the integer arithmetic of the delay, `SWD_Sequence`, `Configure`, and in
`Turn`, `TurnBack` who drives SWDIO during and after each transfer
(`SW_DP.c`). The refinement maps `results` to the words stored, with the data
still posted behind them, and `running` to a `pc` other than idle.

### StatusLed: the pixel

`Blip`, `tud_mount_cb`, `tud_umount_cb` and `Busy` are the events of the other
tasks. `render_task` is cut at its accesses: `FrameBegins` (the test of
`s_fatal`), `ReadTick`, `ChooseMode`, `ChooseBlip`, `Put`. `Fatal` and
`eub_abort` are `status_led_fatal` in the task that gives up, which waits
`Handover` ticks and then owns the pixel. `Tick` is the clock; a sleeping task
wakes at its tick. `tick` wraps at `NoLimit`. `TimingAssumption` says that a
frame takes fewer ticks than `Handover`, `HoldAssumption` that an event is held
for longer than a sleep and two frames. `ChooseMode` reads its three sources
at once. Breathing and flicker are one colour.

### MscDisk: the disk

The layout is stated twice in `msc.c`, and so here: by the boot sector, the FAT
and the directory, which the host follows (`FirstData`, `ClusterSector`,
`FreeClusters`, `AreaStart`), and by sector numbers (`FIRST_ROOT_SECTOR`,
`IS_LBA_PINOUT`, `IS_LBA_ELSE`), which the code compares. `Read` is
`tud_msc_read10_cb` for each sector of a command, `Write`
`tud_msc_write10_cb`, which takes nothing while the target is being reset
(`MayTake`) and is called again, `Complete` its completion; `reset_timer_cb`,
`tud_msc_test_unit_ready_cb` and `tud_msc_start_stop_cb` are the others. A byte
is an area and an offset; `session` counts the UF2 blocks taken in the open
session. `SessionOfCommand` says that these are the blocks of the command under
way, all of them and nothing else, and that no session is open while the target
is in its reset: it fails when the test for the reset window is left out, and
when the host's free sectors are not those that `IS_LBA_ELSE` admits.
`RoomAssumption` is that the disk has room for its own
two files. What the flasher does with a block is `UF2Flasher`.

## 4. Runs

| Run | Distinct states | Shows |
|---|---|---|
| `files` | 100 thousand | erases only what is buffered, appends at the right address, calls the session functions in the right state, resets with an empty buffer; implements `FlashImage` |
| `lines` | 201 thousand | the pad keeps a timer, the target is not left in reset, the reset timer is never refused, the pad is let go between callbacks only of a target in its application (unless pin changes overlapped), the pad is released once target and host are at rest |
| `stream` | 803 thousand | no bit outside the buffer, runs of the right length, implements `TdoStream` |
| `output` | 23 thousand | no lost wake-up, implements `LossyFifo`, every packet is dealt with |
| `pipe` | 285 thousand | implements `LossyFifo` over resets and a second mount; no callback hangs, each request is dealt with |
| `commands` | 484 thousand | words match the count, no OK over an unnoticed failed write, SWDIO driven between commands, the clock never faster than asked, implements `RegisterAccess`, each command ends |
| `pixel` | 2.9 million | the fatal blink is not painted over, no event goes unshown |
| `receiver` | 196 thousand | nothing lies in the receiver without an event, the bridge takes no answer of the loader, the read without a timeout returns |
| `disk` | 6 thousand | files read in full; the UF2 blocks of a command are taken in one session, never while the target is in its reset |
| `gap` | violation | `AddressHonoured`: blocks with consecutive numbers at addresses that are not (`msc.c:459`) |
| `mid_flash` | violation | `DrivenMidFlash`: the release callback between `tx_acquire` and the store to `is_flashing` (`serial_handler.c:433`) |
| `remount` | violation | `DataRetrieved`: after a second mount the sender still waits at the first mount's buffer (`main.c:146`) |

`findings` in `PROJECT.json` quotes the text each violation contradicts.

### Further counterexamples, by hand

These configurations are kept beside the runs. Each checks one property that a
comment or header suggests and that TLC refutes, to be repeated with
`tlc -config <cfg> <module>`:

| Configuration | Property | What happens | Code, and what suggests the property |
|---|---|---|---|
| `MCUF2Flasher_short` | `OnlyRealPayload` | the padding behind a short payload is flashed | `msc.c:547`; `CHANGELOG.md:11` |
| `MCTargetLines_first_byte` | `FirstByteDriven` | released between `tx_acquire` and the write | `serial_handler.c:370` |
| `MCTargetLines_until_run` | `DrivenUntilRun` | the release callback has tested the running flag before a line state clears it: the pad is let go although the target has not been started | `serial_handler.c:639`; its lines 138-139 |
| `MCTargetLines_stale` | `ReleasedToRun` | a timer callback already dispatched reads `s_prev_rst` low, a newer line state takes RST low, the callback stores `s_target_running` over it: the pad of a target in reset is let go | `serial_handler.c:638`, `:647`; its lines 138-139 |
| `MCTargetLines_line_state` | `LineStateWins` | a dispatched timer callback sets the pins after a newer line state | `serial_bridge.c:149`, `:152` |
| `MCTargetLines_held` | `HeldInReset` | a line state ends the reset early | `serial_bridge.c:161`; `serial_handler.h:187` |
| `MCTargetLines_exclusive` | `ExclusiveAccess` | host data during a session | `serial_handler.c:373`; `serial_handler.h:115` |
| `MCTargetLines_backstop` | `Backstop` | BOOT raised without a reset, then silence: never released | `serial_handler.c:142`; `Kconfig:44-46` |
| `MCJtagProbe_packets` | `PacketsLeaveAtOnce` | one packet leaves per nibble, though a repeat may fill several | `esp_usb_jtag.c:311-314` |
| `MCCdcSender_own` | `WokenByOwnBytes` | a late completion wakes the sender for its next packet | `serial_bridge.c:98-100` |
| `MCDebugPipe_init` | `InitBeforeUse` | the send task runs before the probe has buffers | `main.c:144` |
| `MCDebugPipe_freed` | `SentAsStarted` | a host that lets answers pile up reads a place that has been written again | `eub_vendord.c:231` |
| `MCDebugPipe_circular` | `NoCircularWait` | USB, probe and send task wait for each other until their timeouts | `eub_vendord.c:176` |
| `MCUartRx_answers` | `AnswersKept` | an overflow handled in a session flushes the loader's answers | `serial_handler.c:205`, `:207-216` |
| `MCUartRx_overheard` | `NotOverheard` | without `Prompt`, the bridge takes an answer | `serial_handler.c:196` |

The violations are narrow races, missing checks of `is_flashing` or of the reset
window, and plain cases (`short`, `backstop`, `remount`). None contradicts the
passing properties, which say what the code does guarantee: `QuietRelease` (but
where pin changes overlapped) and `PadNeverStranded` bound the harm of the races
on TxD, `NotLeftInReset` that of the races on RST, `ImplementsLossyFifo` that of
late completions and lost items.

### Bounds

`files`: erase blocks of 2 bytes, a buffer of 2 blocks, a flash of 6, payloads
of 3 bytes (2 with checksum): the smallest sizes at which a payload is longer
than a block and shorter than the buffer, lies in every position to a boundary,
fills the buffer exactly, and overflows it; four blocks of two overlapping
files give every order, repetition and mixture. `lines` has no bound: it takes
all four line states. `stream`: bytes of 2 bits, packets of 4, a buffer of 10
(two packets and a half) and two repeats, so that runs cross packets, end in a
byte and fill the buffer; any number of nibbles. `output`: packets of 2, a ring
of 3, chunks of up to 2, five bytes, so that a chunk does not fit, a packet is
full or not, and a late completion meets the next packet. `pipe`: a receive
buffer of two, a send buffer of three, four requests with or without an answer,
two mounts, so that both buffers fill, each place is used again and the tasks of
both mounts may each hold an item of the same buffer. `commands`:
three requests, which is one more than a posted read and its follower, one
retry, one match retry, two values, clocks on both sides of the fast case.
`pixel`: 100 ticks per second and a frame of 20 ms, as in the code; blips (90
and 250 ms) and blinks (150 ms) are cut to 50 and 10 ms, which is as short as
every event may be to be seen; a tick counter of 6 values, so that it wraps
within the run; one tick for a frame; two tasks that abort. `receiver`: a buffer of four bytes, a queue
of three, reads of two, eight interrupts, two sessions, so that buffer and
queue overflow before, in and after a session. `disk`: eight clusters of two
sectors of eight bytes, `PINOUT.MD` empty, a sector, part
of its second sector and longer than its cluster; three writes.

### Fairness and deadlock

`files` states weak fairness of the steps of a begun callback (the TinyUSB task
is never suspended, every loader call has a timeout) and nothing of the host or
of crashes; its properties are all safety. `lines` assumes weak fairness of each task and of
the UART's shifting, and strong fairness of each timer callback: the esp_timer task serves expired timers in order of
their time, so one cannot be starved, although it may be disabled for a moment
while another runs. `stream`: the JTAG task is the only one of its priority on
its core, and all its calls time out. `output`: the sender, which never waits
longer than 50 ms. `pipe`: the send task, each probe task, and the TinyUSB task
within a callback; a host that never reads is among the behaviours. `commands`:
the task goes on with a command it has begun. `receiver`: the event task.
`pixel` and `disk` state only safety.

Deadlock is checked except in `pipe`, `remount` and `receiver`, whose bounded
inputs run out or whose system stops with `eub_abort`, and in `pixel`, where
both tasks may have aborted.

Each property of a passing run has a mutant, an operator placed above the
definition it alters (`PadNone`, `RoundUpPast`, `FlushWhenFull`,
`FetchKeepsPosted`, `HandoverShort`, ...), which makes the property fail.

### Observed without a run

- `DAP.c:127` announces Atomic Commands; `ID_DAP_ExecuteCommands` is answered
  as invalid.
- A second `Disconnect` deletes GPIO bundles already deleted
  (`debug_gpio.c:139-140`); `Disconnect` leaves this case out by its guard.
- A match read that fails on the bus compares the `data` of the read before it
  (`DAP.c:783`).
- The comments of `status_led.h` give the mounted and the unmounted colour the
  other way round than the code; `PORT_SWD_SETUP` describes levels that
  `debug_probe_init_swd_pins` does not set.
- After a session the UART stays at the loader's speed (`msc.c:474`,
  `serial_handler.c:592`) until the host sends a line coding.
- Bytes that arrive between `uart_flush_input` and `xQueueReset`
  (`serial_handler.c:209`, `:214`), or that a session leaves, lie until the next
  event. `NothingStranded` excepts exactly these.
- An event in tick 0 reads as none, and one that is 2^32 ticks old as recent
  (`status_led.c:58`).
- `ejected` is never cleared, not even by a load (`msc.c:235`).

## 5. Proofs

All proofs follow one plan: a stronger invariant (`IInv`, `PipeInv`), shown to hold at first
and to be kept by each action in a lemma of its own, from which the properties
follow. The refinements map each action to a step of the abstract specification
or to a stutter. What is assumed are the named assumptions on the constants
only; each of them is evaluated by TLC in the runs.

### UF2FlasherProofs

`UF2FlasherProofs` proves, for all sizes satisfying `SizeAssumption` and all
sets of blocks satisfying `BlockAssumption` and `WellNumbered`, that
`TypeOK`, `ErasesOnlyTheBuffered`, `AddressHonoured`, `SessionMatchesCall` and
`FlushedBeforeReset` are invariants and that `Spec` implements
`FlashImage!Spec`. `SizeAssumption` holds of the code's sizes (4 KB, 16 KB,
476, 24); `BlockAssumption` bounds addresses by the flash. `WellNumbered` is a
condition on the host: numbers in sequence mean neighbours in the flash, and no
block is numbered 0xFFFFFFFF. The run `gap` shows that it is needed.

The properties are not inductive by themselves. `IInv` adds where the buffer
ends relative to the block in hand (`PlaceInv`), that what is being written out
is aligned, within the flash and already equal to the flash up to `written`
(`WriteInv`), and that the part of an overflowing payload copied into the
buffer is still in hand (`OverflowInv`). The proof is one lemma per action; the
arithmetic of boundaries (`Base`, `Pad`, `EraseRange`) is in lemmas of its own.
The refinement needs one more lemma per action: all but `Write10`, `Finish` and
`Reboot` leave `View` unchanged.

### TargetLinesProofs

`TargetLinesProofs` proves the invariants of `lines` and the action property
`QuietRelease`. Its `IInv` adds the agreement between program counters and
arguments (`CallInv`), that sessions find the reset timer at rest
(`SessionInv`), who is to raise RST (`LowInv`), why a release that has
passed its checks is safe (`QuietInv`), and what the flag says of the target
(`RunInv`): without an overlap, and outside a session, `s_target_running` is set
only of a target in its application, or a USB callback is about to clear it.
The last two rest on the timing assumptions described above. What `overtaken`
excepts is needed: `MCTargetLines_stale` is the counterexample.

### DebugProbeProofs

Of `JtagProbe`, for all sizes under `BitsAssumption` and `RepeatsAssumption`: `TypeOK`,
`RunsExact` and the refinement of `TdoStream`. `IInv` adds where the bit
counters stand (`PositionInv`: the bits waiting and those still to be captured
fit the buffer, which rests on `Asks`), that the buffer is zero behind the last
bit (`CleanInv`: it makes the padding zeros), and how `rep_cnt`, `digits` and
`due` agree (`RunInv`).

Of `DebugPipe`, for all buffers, windows and numbers of mounts and every set of
answers with a largest one: `PipeTypeOK`, and, for a host whose `Window` is at
most `SndSize`, the refinement of `LossyFifo` and `SentAsStarted`. Even
the types need the other parts of `PipeInv`: the items held and those returned
ahead of an older one have their places (`HeldInv`), which has to outlive resets and the buffers of a second
mount (`MountInv`). `FlyingInv` says which place a transfer reads from: that of
the item `usb_send_task` holds or, once it has been given back, the one before
the oldest. `WindowInv` is the count behind the refinement: answers under way,
those still to be made of requests at work and the largest number the
others may have come to at most `Window`, so that the probe never gets round the
ring to the place a transfer reads from (`RoomBesideFlight`,
`NotOverwritten`). `Expected`, what the host counts, is never less than that
sum (`OwingBound`). `Window <= SndSize` is needed: with a larger one,
`MCDebugPipe_freed` is a counterexample.

### CdcSenderProofs

For all sizes and every interleaving: `TypeOK`, `NoLostWakeUp` and the
refinement of `LossyFifo`. `RequestInv` says who holds the request semaphore at
each `pc`, `CallbackInv` what a callback under way implies about the transfer,
`BufferInv` that there is something to write and that an idle endpoint holds
nothing. The refinement is one lemma per action; a step that moves bytes between
ring, `int_buf`, FIFO and transfer leaves their concatenation unchanged.

### DapProofs

For commands of every length and all retry counts: `TypeOK`, `WritesConfirmed`,
`WordsOfCount`, `NeverFaster`, `DrivenBetweenCommands` and the refinement of
`RegisterAccess`.
`PlaceInv` says what is under way at each `pc`, `BlockInv` that the requests
left of a block are alike, `DoubtInv` that an unnoticed failure leaves
`check_write` set or the response not OK, `ClockInv` that the delay chosen is
slow enough, `PortInv` that SWDIO is driven outside a transfer. `NeverFaster`
rests on two lemmas about the division in `SlowDelay`. `WordsOfCount` equates
the words stored with the reads among the requests counted: `WordsInv` says,
for the loop and for a block, which requests are still to come and that a posted
read is the one counted read without a word; each request counted adds to
`Counted` what it adds to the words.

### StatusLedProofs

`TypeOK`, `FatalOwnsPixel` and `EventsShown` for every tick rate, frame length
and set of failing tasks under `TimingAssumption` and `HoldAssumption`. For
`FatalOwnsPixel`, the invariant `Separate` is about a sum that only
grows, what is left of a failing task's wait and what the frame under way has
spent: it is never less than `Handover`, so the wait ends after the frame. For
`EventsShown`, `Watched` bounds the age of an event not yet shown: age and time
left to the end of the frame or of the sleep are at most what the frame that
missed it has spent and the next period and frame. `Older` is the arithmetic of
the wrapping clock: as long as an age does not wrap, a tick adds one to it.

### MscDiskProofs

`TypeOK` (under `RoomAssumption`), `SessionOfCommand` and `FilesReadable` for every
geometry under `GeometryAssumption`. The main lemmas say that the sectors the file system
shows as free are those from `FIRST_ELSE_SECTOR` on, and that the sectors of
each area are where the code looks for them; `BlockInv` relates the sectors
of a command done to the blocks of the session, and the session to the reset,
`FileInv` the data read so far to the file.

### UartRxProofs

For all sizes under `SizesAssumption`: `TypeOK`, `NothingStranded` and, if
`Prompt`, `NotOverheard` and the safety half of `ReadReturns`, `ReadReady`: the
task never waits in its read without a timeout.

`NothingStranded` is a count, `Promised`: the reads that the events in the queue
and the one under way promise take at least as many bytes as the driver has,
`Lying <= ReadSize * Coming`, unless bytes have been passed over. A full queue
that loses an event promises enough of them already (`CountKept`); a read under
way takes `ReadSize` bytes or all there were when it counted them, and what has
come since has its own event. The last two sizes of the assumption were found by
this proof: TLC's small values had met them by chance. `Private` says who may
have the bytes of an answer: from the first question to the end of the session
the task is not between its test of `is_flashing` and its callback.

### Only model-checked

Liveness under fairness, which is out of the prover's reach:
`ReleasedOnceRunning`, `PacketDealtWith`, `UsbTaskReturns`,
`RequestsDealtWith`, `CommandEnds`, `ReadReturns` (but for `ReadReady`, above).

## 6. Not modelled

- The suspension of the JTAG task from `tud_cdc_line_state_cb`: `JtagProbe` and
  `DebugPipe` run the task unsuspended.
- The DAP's own JTAG port (`JTAG_DP.c` and its half of `DAP.c`), which the build
  leaves out (`DAP_JTAG` 0) where `swd.c` is used; `DAP_Info`, `DAP_HostStatus`,
  `DAP_Delay`, `DAP_SWJ_Pins`, `DAP_SWJ_Sequence` and `DAP_SWD_Configure`, which
  only answer or set levels; the waveform below a transfer.
- Two `swd_task`s in the DAP at once. `swd_init` runs in the TinyUSB task at
  every mount (`swd.c:130`), whatever the `swd_task` of the mount before is
  doing, and starts another one: `Dap` has one task and lets `Setup` happen only
  between its commands. (In `DebugPipe` the tasks of several mounts do run side
  by side; one that finishes an item of the old buffer aborts the bridge.)
- The set-up of the GPIOs and `esp_usb_jtag_handle_command`, which answers from
  constants or stores a divider nothing else reads.
- The other boards' LEDs, the colours and the breathing.
- INQUIRY and READ CAPACITY; USB descriptors; baud rates; logging.
- A refused connect in `TargetLines`, which ends in `eub_abort`, and what the
  loader writes when the target is disturbed in mid-session (`exclusive` shows
  only that it can be).
- The 32-bit wrap of flash addresses: addresses lie within the flash.
- Build and configuration. The models assume the shipped one:
  `CONFIG_SERIAL_HANDLER_TXD_RELEASE_WHEN_IDLE` set, UART transport.
