----------------------------- MODULE TargetLines -----------------------------
(***************************************************************************)
(* The lines between the bridge and its target: BOOT, RST and the TxD pad  *)
(* (components/serial_handler/serial_handler.c), driven by the USB serial  *)
(* callbacks of main/serial_bridge.c and by the flash sessions of          *)
(* main/msc.c.                                                             *)
(*                                                                         *)
(* Two tasks share them.  "usb" is the TinyUSB task, in which every USB    *)
(* callback runs; "tmr" is the esp_timer task, in which the callbacks of   *)
(* three one-shot timers run.  They run on two cores, so their steps       *)
(* interleave.  esp_timer_stop removes a timer that has not expired; it    *)
(* does not wait for a callback that has been dispatched.                  *)
(***************************************************************************)
EXTENDS Integers

CONSTANT LineStates       \* the <<DTR, RTS>> the host may set

ASSUME LineStatesAssumption == LineStates \subseteq BOOLEAN \X BOOLEAN

Tasks == {"usb", "tmr"}

Timers == {"state_change", "reset", "tx_release"}

VARIABLES
    boot, rst,            \* the levels of GPIO_BOOT and GPIO_RST
    mode,                 \* what the last reset put the target into
    s_prev_rst,
    s_target_running,
    attached,             \* s_tx_state = TX_ATTACHED
    mutex,                \* s_tx_mutex: "none", or "tmr" when held over several steps
    armed,                \* state of each timer
    is_flashing,          \* s_transport.is_flashing
    fifo,                 \* the UART has bytes to shift out
    pc, want, rising,     \* of each task: next step, arguments and local variable
                          \*   of serial_handler_set_boot_reset_pins
    ret,                  \* what "usb" does next when that function or tx_acquire returns
    cb,                   \* the timer whose callback "tmr" runs
    line,                 \* the last <<DTR, RTS>> of the host
    owner,                \* "host" when the pins should follow line, "flash" after a session
    overtaken             \* calls of set_boot_reset_pins have overlapped, and none that
                          \*   stops the target has had the pins to itself since

target == <<boot, rst, mode>>
edge == <<s_prev_rst, rising>>
host == <<line, owner, overtaken>>
vars == <<target, edge, s_target_running, attached, mutex, armed, is_flashing, fifo,
          pc, want, ret, cb, host>>

PinSteps == {"boot", "rst", "edge", "prev", "tx", "acquire", "rearm"}
UsbSteps == {"write", "claim", "pulse", "sync", "arm"}
TmrSteps == {"check", "drain", "release"}
EarlySteps == {"boot", "rst", "edge", "prev", "tx"}

(* Mutant of Levels: the two pins swapped. *)
LevelsSwapped(dtr, rts) == [boot |-> ~(~dtr /\ rts), rst |-> ~(dtr /\ ~rts)]

(* DTR and RTS as the auto-reset circuit of ESP boards reads them. *)
Levels(dtr, rts) == [boot |-> ~(dtr /\ ~rts), rst |-> ~(~dtr /\ rts)]

ResetActive == armed["reset"] # "off"       \* serial_handler_is_reset_active

Resetting == ResetActive \/ (cb = "reset" /\ pc["tmr"] # "idle")

(* Every variable keeps its type, and neither task runs a step of the      *)
(* other, though both run serial_handler_set_boot_reset_pins.              *)
TypeOK ==
    /\ boot \in BOOLEAN /\ rst \in BOOLEAN
    /\ mode \in {"run", "download", "reset"}
    /\ s_prev_rst \in BOOLEAN /\ s_target_running \in BOOLEAN
    /\ attached \in BOOLEAN
    /\ mutex \in {"none", "tmr"}
    /\ armed \in [Timers -> {"off", "fresh", "armed"}]
    /\ is_flashing \in BOOLEAN /\ fifo \in BOOLEAN
    /\ pc \in [Tasks -> PinSteps \cup UsbSteps \cup TmrSteps \cup {"idle"}]
    /\ pc["usb"] \notin TmrSteps /\ pc["tmr"] \notin UsbSteps
    /\ want \in [Tasks -> [boot : BOOLEAN, rst : BOOLEAN]]
    /\ rising \in [Tasks -> BOOLEAN]
    /\ ret \in {"idle", "write", "claim", "arm"}
    /\ cb \in Timers \cup {"none"}
    /\ line \in BOOLEAN \X BOOLEAN
    /\ owner \in {"host", "flash"}
    /\ overtaken \in BOOLEAN

(* serial_handler_init and serial_bridge_init have run.                    *)
Init ==
    /\ boot = TRUE /\ rst = TRUE /\ mode = "run"
    /\ s_prev_rst = TRUE /\ s_target_running = TRUE
    /\ attached = FALSE /\ mutex = "none"
    /\ armed = [x \in Timers |-> "off"]
    /\ is_flashing = FALSE /\ fifo = FALSE
    /\ pc = [t \in Tasks |-> "idle"]
    /\ want = [t \in Tasks |-> [boot |-> TRUE, rst |-> TRUE]]
    /\ rising = [t \in Tasks |-> FALSE]
    /\ ret = "idle" /\ cb = "none"
    /\ line = <<FALSE, FALSE>> /\ owner = "host" /\ overtaken = FALSE

(* A timer armed since the current USB callback began is "fresh": its      *)
(* period (10 ms and more) is longer than any callback that does not talk  *)
(* to the target's loader.                                                 *)
Settled == [x \in Timers |-> IF armed[x] = "fresh" THEN "armed" ELSE armed[x]]

Expires(x) == armed[x] = "armed" \/ (armed[x] = "fresh" /\ pc["usb"] \in {"idle", "sync"})

Goto(t, step) == pc' = [pc EXCEPT ![t] = step]

(* Mutant of Return: one caller for both tasks. *)
ReturnShared(t) == Goto(t, ret)

Return(t) == Goto(t, IF t = "usb" THEN ret ELSE "idle")

Normal == [boot |-> TRUE, rst |-> TRUE]

(* A call of set_boot_reset_pins has not yet stored all it stores.         *)
InPins(t) == pc[t] \in EarlySteps

-----------------------------------------------------------------------------
(* serial_handler_set_boot_reset_pins, in either task *)
SetBoot(t) ==
    /\ pc[t] = "boot"
    /\ boot' = want[t].boot
    /\ Goto(t, "rst")
    /\ UNCHANGED <<rst, mode, edge, s_target_running, attached, mutex, armed, is_flashing, fifo,
                   want, ret, cb, host>>

AfterReset(level) ==       \* the target samples BOOT when RST rises
    IF ~level THEN "reset" ELSE IF rst THEN mode ELSE IF boot THEN "run" ELSE "download"

SetRst(t) ==
    /\ pc[t] = "rst"
    /\ rst' = want[t].rst
    /\ mode' = AfterReset(want[t].rst)
    /\ Goto(t, "edge")
    /\ UNCHANGED <<boot, edge, s_target_running, attached, mutex, armed, is_flashing, fifo,
                   want, ret, cb, host>>

(* Mutant of RstRising: the level for the edge.                             *)
RstHigh(reset_pin) == reset_pin

RstRising(reset_pin) == ~s_prev_rst /\ reset_pin    \* rst_rising

ReadPrev(t) ==             \* of the unprotected static s_prev_rst
    /\ pc[t] = "edge"
    /\ rising' = [rising EXCEPT ![t] = RstRising(want[t].rst)]
    /\ Goto(t, "prev")
    /\ UNCHANGED <<target, s_prev_rst, s_target_running, attached, mutex, armed, is_flashing, fifo,
                   want, ret, cb, host>>

WritePrev(t) ==
    /\ pc[t] = "prev"
    /\ s_prev_rst' = want[t].rst
    /\ Goto(t, "tx")
    /\ UNCHANGED <<target, rising, s_target_running, attached, mutex, armed, is_flashing, fifo,
                   want, ret, cb, host>>

StoreRunning(t) ==
    /\ pc[t] = "tx"
    /\ IF ~want[t].boot \/ ~want[t].rst
       THEN s_target_running' = FALSE /\ Goto(t, "acquire")
       ELSE IF rising[t]
       THEN s_target_running' = TRUE /\ Goto(t, "rearm")
       ELSE Return(t) /\ UNCHANGED s_target_running
    /\ UNCHANGED <<target, edge, attached, mutex, armed, is_flashing, fifo, want, ret, cb, host>>

(* tx_acquire: attach the pad and restart the backstop *)
Acquire(t) ==
    /\ pc[t] = "acquire" /\ mutex = "none"
    /\ attached' = TRUE
    /\ armed' = [armed EXCEPT !["tx_release"] = "fresh"]
    /\ Return(t)
    /\ UNCHANGED <<target, edge, s_target_running, mutex, is_flashing, fifo, want, ret, cb, host>>

(* tx_arm_release_timer(TXD_RUN_RELEASE_MARGIN_MS) after a reset to run *)
Rearm(t) ==
    /\ pc[t] = "rearm" /\ mutex = "none"
    /\ armed' = [armed EXCEPT !["tx_release"] = "fresh"]
    /\ Return(t)
    /\ UNCHANGED <<target, edge, s_target_running, attached, mutex, is_flashing, fifo,
                   want, ret, cb, host>>

PinStep(t) ==
    \/ SetBoot(t) \/ SetRst(t) \/ ReadPrev(t) \/ WritePrev(t) \/ StoreRunning(t)
    \/ Acquire(t) \/ Rearm(t)

-----------------------------------------------------------------------------
(* The TinyUSB task *)

(* tud_cdc_line_state_cb *)
LineState(dtr, rts) ==
    /\ pc["usb"] = "idle"
    /\ line' = <<dtr, rts>>
    /\ owner' = IF Resetting THEN "flash" ELSE "host"
    /\ IF dtr /\ rts
       THEN /\ armed' = [Settled EXCEPT !["state_change"] = "fresh"]
            /\ UNCHANGED <<pc, want, ret, overtaken>>
       ELSE /\ armed' = [Settled EXCEPT !["state_change"] = "off"]
            /\ want' = [want EXCEPT !["usb"] = Levels(dtr, rts)]
            /\ overtaken' = (InPins("tmr") \/ (overtaken /\ Levels(dtr, rts) = Normal))
            /\ ret' = "idle"
            /\ Goto("usb", "boot")
    /\ UNCHANGED <<target, edge, s_target_running, attached, mutex, is_flashing, fifo, cb>>

(* tud_cdc_rx_cb: serial_handler_send_data up to tx_acquire *)
Send ==
    /\ pc["usb"] = "idle"
    /\ armed' = Settled
    /\ ret' = "write"
    /\ Goto("usb", "acquire")
    /\ UNCHANGED <<target, edge, s_target_running, attached, mutex, is_flashing, fifo,
                   want, cb, host>>

WriteBytes ==              \* uart_write_bytes
    /\ pc["usb"] = "write"
    /\ fifo' = TRUE
    /\ Goto("usb", "idle")
    /\ UNCHANGED <<target, edge, s_target_running, attached, mutex, armed, is_flashing,
                   want, ret, cb, host>>

(* Mutant of MayConnect: tud_msc_write10_cb no longer asks for the reset.   *)
MayConnectInReset == ~is_flashing

MayConnect == ~is_flashing /\ ~ResetActive

(* tud_msc_write10_cb opens a session: serial_handler_flash_connect        *)
Connect ==
    /\ pc["usb"] = "idle" /\ MayConnect
    /\ armed' = Settled
    /\ ret' = "claim"
    /\ owner' = "flash"
    /\ Goto("usb", "acquire")
    /\ UNCHANGED <<target, edge, s_target_running, attached, mutex, is_flashing, fifo,
                   want, cb, line, overtaken>>

Claim ==
    /\ pc["usb"] = "claim"
    /\ is_flashing' = TRUE
    /\ Goto("usb", "pulse")
    /\ UNCHANGED <<target, edge, s_target_running, attached, mutex, armed, fifo,
                   want, ret, cb, host>>

(* esp_loader_connect resets the target into its download mode itself, by  *)
(* way of the pins it was given in init_uart_transport ...                 *)
LoaderPulse ==
    /\ pc["usb"] = "pulse"
    /\ boot' = FALSE /\ rst' = FALSE /\ mode' = "reset"
    /\ Goto("usb", "sync")
    /\ UNCHANGED <<edge, s_target_running, attached, mutex, armed, is_flashing, fifo,
                   want, ret, cb, host>>

(* ... holds it there for 100 ms and talks to it: longer than any change    *)
(* of the pins by the other task, and than uart_wait_tx_done, of 20 ms, of *)
(* a release that has passed its checks.                                   *)
LoaderSync ==
    /\ pc["usb"] = "sync" /\ pc["tmr"] \notin PinSteps \cup {"drain", "release"}
    /\ boot' = TRUE /\ rst' = TRUE /\ mode' = AfterReset(TRUE)
    /\ fifo' = TRUE
    /\ Goto("usb", "idle")
    /\ UNCHANGED <<edge, s_target_running, attached, mutex, armed, is_flashing,
                   want, ret, cb, host>>

(* A loader command of a later WRITE10, which does not call tx_acquire.    *)
LoaderCommand ==
    /\ pc["usb"] = "idle" /\ is_flashing
    /\ armed' = Settled
    /\ fifo' = TRUE
    /\ UNCHANGED <<target, edge, s_target_running, attached, mutex, is_flashing,
                   pc, want, ret, cb, host>>

(* serial_handler_flash_finish(true) *)
Finish ==
    /\ pc["usb"] = "idle" /\ is_flashing
    /\ is_flashing' = FALSE
    /\ armed' = Settled
    /\ want' = [want EXCEPT !["usb"] = [boot |-> TRUE, rst |-> FALSE]]
    /\ ret' = "arm"
    /\ owner' = "flash"
    /\ overtaken' = InPins("tmr")
    /\ Goto("usb", "boot")
    /\ UNCHANGED <<target, edge, s_target_running, attached, mutex, fifo, cb, line>>

ArmReset ==                \* esp_timer_start_once refuses a running timer
    /\ pc["usb"] = "arm"
    /\ armed' = IF ResetActive THEN armed ELSE [armed EXCEPT !["reset"] = "fresh"]
    /\ Goto("usb", "idle")
    /\ UNCHANGED <<target, edge, s_target_running, attached, mutex, is_flashing, fifo,
                   want, ret, cb, host>>

UsbStep ==
    \/ PinStep("usb") \/ WriteBytes \/ Claim \/ LoaderPulse \/ LoaderSync \/ ArmReset

-----------------------------------------------------------------------------
(* The esp_timer task *)

Dispatch(x) ==
    /\ pc["tmr"] = "idle" /\ Expires(x)
    /\ armed' = [armed EXCEPT ![x] = "off"]
    /\ cb' = x
    /\ UNCHANGED <<target, edge, s_target_running, attached, mutex, is_flashing, fifo, ret,
                   line, owner>>

(* state_change_timer_cb and reset_timer_cb: set_boot_reset_pins(1, 1) *)
PinsTimer(x) ==
    /\ x # "tx_release"
    /\ Dispatch(x)
    /\ want' = [want EXCEPT !["tmr"] = Normal]
    /\ overtaken' = (overtaken \/ InPins("usb"))
    /\ Goto("tmr", "boot")

(* tx_release_timer_cb *)
ReleaseTimer ==
    /\ Dispatch("tx_release")
    /\ Goto("tmr", "check")
    /\ UNCHANGED <<want, overtaken>>

(* Mutant of Defer: the early return that forgets to re-arm. *)
DeferUnarmed ==
    /\ mutex' = "none"
    /\ Goto("tmr", "idle")
    /\ UNCHANGED armed

Defer ==                   \* tx_arm_release_timer(CONFIG_SERIAL_HANDLER_TXD_IDLE_MS)
    /\ armed' = [armed EXCEPT !["tx_release"] = "fresh"]
    /\ mutex' = "none"
    /\ Goto("tmr", "idle")

MayRelease == ~is_flashing /\ ~ResetActive /\ s_target_running

Check ==
    /\ pc["tmr"] = "check" /\ mutex = "none"
    /\ \/ ~MayRelease /\ Defer
       \/ MayRelease /\ mutex' = "tmr" /\ Goto("tmr", "drain") /\ UNCHANGED armed
    /\ UNCHANGED <<target, edge, s_target_running, attached, is_flashing, fifo,
                   want, ret, cb, host>>

(* Mutant of TxDone: the result of uart_wait_tx_done read the wrong way. *)
TxDonePending == fifo

TxDone == ~fifo

WaitTxDone ==              \* uart_wait_tx_done, which may time out
    /\ pc["tmr"] = "drain"
    /\ \/ TxDone /\ Goto("tmr", "release") /\ UNCHANGED <<armed, mutex>>
       \/ ~TxDone /\ Defer
    /\ UNCHANGED <<target, edge, s_target_running, attached, is_flashing, fifo,
                   want, ret, cb, host>>

Release ==                 \* tx_release_locked
    /\ pc["tmr"] = "release"
    /\ attached' = FALSE
    /\ mutex' = "none"
    /\ Goto("tmr", "idle")
    /\ UNCHANGED <<target, edge, s_target_running, armed, is_flashing, fifo, want, ret, cb, host>>

TmrStep == PinStep("tmr") \/ Check \/ WaitTxDone \/ Release

(* The UART shifts its last byte out. *)
Drain ==
    /\ fifo
    /\ fifo' = FALSE
    /\ UNCHANGED <<target, edge, s_target_running, attached, mutex, armed, is_flashing,
                   pc, want, ret, cb, host>>

Next ==
    \/ \E l \in LineStates : LineState(l[1], l[2])
    \/ Send \/ Connect \/ LoaderCommand \/ Finish
    \/ UsbStep
    \/ \E x \in Timers : PinsTimer(x)
    \/ ReleaseTimer
    \/ TmrStep
    \/ Drain

(* A task that has begun a callback finishes it, an expired timer is       *)
(* dispatched before those that expire after it, the UART keeps shifting.  *)
Fairness ==
    /\ WF_vars(UsbStep)
    /\ WF_vars(TmrStep)
    /\ \A x \in Timers : SF_vars(PinsTimer(x))
    /\ SF_vars(ReleaseTimer)
    /\ WF_vars(Drain)

Spec == Init /\ [][Next]_vars /\ Fairness

-----------------------------------------------------------------------------
Quiet == pc["usb"] = "idle" /\ pc["tmr"] = "idle"

(* The pad is never left driven with nobody to release it: whenever it is  *)
(* attached, the release timer runs or its callback is under way, whatever *)
(* the order of tx_acquire, deferral and release in the two tasks.         *)
PadNeverStranded ==
    attached => armed["tx_release"] # "off" \/ pc["tmr"] \in {"check", "drain", "release"}

(* The bridge does not forget a target in reset: RST is low only while the *)
(* host asks for it, the USB task is at work, a timer that raises the pin  *)
(* runs or its callback is about to raise it.                              *)
NotLeftInReset ==
    ~rst => \/ line = <<FALSE, TRUE>> \/ pc["usb"] # "idle"
            \/ ResetActive \/ armed["state_change"] # "off"
            \/ pc["tmr"] \in {"boot", "rst"}

(* flash_finish ignores a refused esp_timer_start_once, which would cut    *)
(* the reset pulse to the rest of an older one: it is never refused.       *)
ResetNeverRefused == pc["usb"] = "arm" => ~ResetActive

(* serial_handler.c:138-139: the pad is let go, while no USB callback runs, *)
(* only if no session is open, no reset pulse runs, s_target_running is    *)
(* set and the target is in fact out of reset and in its application.      *)
(* The last is excepted where calls of set_boot_reset_pins have overlapped *)
(* (overtaken): a callback that has seen an edge may then store            *)
(* s_target_running over a newer line state (see ReleasedToRun).           *)
QuietRelease ==
    [][attached /\ ~attached' /\ pc["usb"] = "idle" =>
          /\ ~is_flashing /\ ~ResetActive /\ s_target_running
          /\ mode = "run" \/ overtaken]_vars

(* Once the host is silent and the target known to run, the pad is         *)
(* released: every deferral of the release callback comes to an end.       *)
ReleasedOnceRunning ==
    <>[](pc["usb"] = "idle" /\ ~is_flashing /\ s_target_running) => <>[]~attached

-----------------------------------------------------------------------------
(* What comments, help texts and declarations say, and the code does not   *)
(* keep.                                                                   *)

(* serial_handler.c:370 "ensure TxD is push-pull before the first byte"    *)
FirstByteDriven == fifo /\ ~is_flashing => attached

(* serial_handler.c:138 "Never release mid-flash"                          *)
DrivenMidFlash == is_flashing => attached

(* serial_handler.c:138-139 "Never release ... before the target has       *)
(* actually been released to run its application."                         *)
DrivenUntilRun == Quiet /\ ~is_flashing /\ ~attached => mode = "run"

(* The same of the moment of the release: QuietRelease without what it     *)
(* excepts.                                                                *)
ReleasedToRun == [][attached /\ ~attached' /\ pc["usb"] = "idle" => mode = "run"]_vars

(* serial_bridge.c:152-153 "The assignment of BOOT=1 and RST=1 is          *)
(* postponed and it is done only if no other state change occurs in time   *)
(* period set by the timer."                                               *)
LineStateWins ==
    Quiet /\ owner = "host" /\ armed["state_change"] = "off" =>
        [boot |-> boot, rst |-> rst] = Levels(line[1], line[2])

(* serial_handler.h, serial_handler_is_reset_active: "During the reset     *)
(* period, the target is held in reset state."                             *)
HeldInReset == Quiet /\ ResetActive => mode = "reset"

(* serial_handler.h, serial_handler_flash_connect: "takes exclusive access *)
(* to the transport": no byte of the serial bridge enters the UART.        *)
ExclusiveAccess == is_flashing => pc["usb"] # "write"

(* Kconfig, SERIAL_HANDLER_TXD_IDLE_MS: "if no reset-to-run is observed    *)
(* ... release TxD to Hi-Z after this many milliseconds of no host->target *)
(* traffic".                                                               *)
Backstop == <>[](pc["usb"] = "idle" /\ ~is_flashing) => <>[]~attached
-----------------------------------------------------------------------------
(* The inductive invariant behind the safety properties.                   *)

(* What the two tasks bring with them to each step.                        *)
CallInv ==
    /\ pc["usb"] \in {"write", "claim", "arm"} => ret = pc["usb"]
    /\ pc["usb"] \in EarlySteps => ret \in {"idle", "arm"}
    /\ pc["usb"] = "rearm" => ret = "idle"
    /\ pc["usb"] \in {"boot", "rst"} /\ ret = "idle" => want["usb"] = Levels(line[1], line[2])
    /\ pc["usb"] \in EarlySteps /\ ret = "arm" => ~want["usb"].rst
    /\ pc["tmr"] \in PinSteps => want["tmr"] = Normal
    /\ mutex = "tmr" <=> pc["tmr"] \in {"drain", "release"}

(* A session, and the end of one, find the reset timer at rest, and the    *)
(* loader works in a session.                                              *)
SessionInv ==
    /\ is_flashing => ~ResetActive
    /\ pc["usb"] # "idle" /\ ret \in {"claim", "arm"} => ~ResetActive
    /\ pc["usb"] # "idle" /\ ret = "arm" => ~is_flashing
    /\ pc["usb"] \in {"pulse", "sync"} => is_flashing

(* Who is to raise RST.                                                    *)
LowInv ==
    ~rst => \/ line = <<FALSE, TRUE>> \/ ResetActive \/ armed["state_change"] # "off"
            \/ pc["tmr"] \in {"boot", "rst"} \/ pc["usb"] \in {"boot", "rst", "sync"}
            \/ pc["usb"] # "idle" /\ ret = "arm"

(* Why a release that has passed its checks harms nobody: a callback that  *)
(* disturbs the target waits for the mutex, and one that is about to arm   *)
(* the reset timer has either just been followed by a release timer that   *)
(* is fresh, or is seen by the check; the loader outlasts it.              *)
QuietInv ==
    /\ pc["tmr"] \in {"drain", "release"} =>
          /\ ~ResetActive /\ (s_target_running \/ pc["usb"] = "acquire")
          /\ is_flashing => pc["usb"] \in {"pulse", "sync"}
    /\ pc["usb"] \in {"acquire", "arm"} /\ ret = "arm" /\ s_target_running =>
          \/ pc["tmr"] = "rearm"
          \/ armed["tx_release"] = "fresh" /\ pc["tmr"] \notin TmrSteps

(* A call that is to stop the target has not yet cleared s_target_running. *)
Stopping == InPins("usb") /\ want["usb"] # Normal

(* s_prev_rst follows RST, and s_target_running the target, unless calls   *)
(* have overlapped or the loader has the pins: whoever has seen an edge    *)
(* has seen the target start.                                              *)
RunInv ==
    /\ rst <=> mode # "reset"
    /\ InPins("usb") /\ InPins("tmr") => overtaken
    /\ ~overtaken /\ ~is_flashing =>
          /\ \A t \in Tasks :
                /\ pc[t] \in {"edge", "prev", "tx"} => rst = want[t].rst
                /\ pc[t] = "tx" => s_prev_rst = want[t].rst
          /\ ~Stopping =>
                /\ s_target_running => mode = "run"
                /\ \/ s_prev_rst = rst
                   \/ \E t \in Tasks : pc[t] \in {"edge", "prev"}
                /\ \A t \in Tasks :
                      /\ pc[t] = "rst" => boot
                      /\ pc[t] = "edge" /\ ~s_prev_rst => mode = "run"
                      /\ pc[t] \in {"prev", "tx"} /\ rising[t] => mode = "run"

IInv == TypeOK /\ PadNeverStranded /\ CallInv /\ SessionInv /\ LowInv /\ QuietInv /\ RunInv
=============================================================================
