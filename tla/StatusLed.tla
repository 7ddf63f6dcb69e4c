------------------------------ MODULE StatusLed ------------------------------
(***************************************************************************)
(* The status pixel: components/status_led/status_led.c with the callbacks *)
(* of main/main.c that feed it and eub_abort of components/util/util.c.    *)
(*                                                                         *)
(* Any task stores what it has to say in an atomic; a render task of low   *)
(* priority reads them one after the other, fifty times a second, and puts *)
(* one colour.  A task that gives up takes the pixel over: it raises       *)
(* s_fatal, waits until the render task should have seen it, blinks red    *)
(* and aborts.  Nothing but that wait keeps the two apart.                 *)
(***************************************************************************)
EXTENDS Integers

CONSTANTS
    TickRate,             \* configTICK_RATE_HZ
    RENDER_PERIOD_MS, BLIP_MS, DEBUG_HOLD_MS, ERROR_BLINK_MS,
    Blinks,               \* red flashes before the abort: 8
    NoLimit,              \* ticks are a uint32_t: 0 .. NoLimit - 1
    Tasks,                \* the tasks that may call eub_abort
    FrameTicks            \* assumed of the scheduler: ticks a frame takes at most

pdMS_TO_TICKS(ms) == (ms * TickRate) \div 1000

blip_ticks == pdMS_TO_TICKS(BLIP_MS)
dbg_ticks == pdMS_TO_TICKS(DEBUG_HOLD_MS)

Event == {"tx", "rx", "debug"}
Within(e) == IF e = "debug" THEN dbg_ticks ELSE blip_ticks

(* The render task of priority 4 is not held up for longer than the wait   *)
(* of status_led_fatal allows for; that wait is two ticks at 100 Hz.       *)
ASSUME TimingAssumption ==
    /\ TickRate \in Nat /\ RENDER_PERIOD_MS \in Nat /\ ERROR_BLINK_MS \in Nat
    /\ NoLimit \in Nat /\ \A e \in Event : Within(e) \in 1 .. NoLimit - 1
    /\ Blinks \in Nat \ {0}
    /\ FrameTicks \in Nat /\ FrameTicks < pdMS_TO_TICKS(RENDER_PERIOD_MS + 5)

(* An event is held for longer than the frame that may miss it, the sleep  *)
(* behind that frame and the frame that shows it: 9 or 25 ticks against 4. *)
ASSUME HoldAssumption ==
    \A e \in Event : pdMS_TO_TICKS(RENDER_PERIOD_MS) + 2 * FrameTicks < Within(e)

VARIABLES
    tick,                 \* xTaskGetTickCount()
    s_mounted, s_fatal,
    s_tick,               \* s_tx_tick, s_rx_tick, s_dbg_tick
    registered,           \* debug_probe_register_activity_callback has been called
    busy,                 \* serial_handler_is_flashing() or serial_handler_is_reset_active()
    pc, now, colour,      \* of render_task; colour is what its frame will put
    delay,                \* ticks until vTaskDelay returns
    spent,                \* ticks the frame has taken so far
    fatal,                \* the tasks within eub_abort
    pixel,                \* what the WS2812 shows: "status" is any colour of the render task
    aborted,              \* abort() has been called: nothing runs any more
    unseen                \* history: the events no frame has shown yet, nor what hides them

state == <<s_mounted, s_fatal, s_tick, registered, busy>>
render == <<pc, now, colour, delay, spent>>
vars == <<tick, state, render, fatal, pixel, aborted, unseen>>

Ticks == 0 .. NoLimit - 1
Colour == {"flashing", "debug", "tx", "rx", "ready", "idle"}

TypeOK ==
    /\ tick \in Ticks /\ now \in Ticks
    /\ s_mounted \in BOOLEAN /\ s_fatal \in BOOLEAN /\ registered \in BOOLEAN
    /\ s_tick \in [Event -> Ticks]
    /\ busy \in BOOLEAN /\ aborted \in BOOLEAN
    /\ pc \in {"now", "mode", "blip", "put", "sleep"}
    /\ colour \in Colour
    /\ delay \in 0 .. pdMS_TO_TICKS(RENDER_PERIOD_MS) /\ spent \in 0 .. FrameTicks
    /\ fatal \in [Tasks -> [at : {"running", "wait", "red", "off"}, i : 0 .. Blinks, delay : Nat]]
    /\ pixel \in {"dark", "status", "red", "off"}
    /\ unseen \subseteq Event

(* status_led_init, which app_main calls before anything that could fail.  *)
Init ==
    /\ tick = 0 /\ now = 0
    /\ s_mounted = FALSE /\ s_fatal = FALSE /\ registered = FALSE /\ busy = FALSE
    /\ s_tick = [e \in Event |-> 0]
    /\ pc = "sleep" /\ colour = "idle" /\ delay = 0 /\ spent = 0
    /\ fatal = [t \in Tasks |-> [at |-> "running", i |-> 0, delay |-> 0]]
    /\ pixel = "dark" /\ aborted = FALSE /\ unseen = {}

-----------------------------------------------------------------------------
(* What the other tasks say *)

(* status_led_blip_tx, _blip_rx and _notify_debug; tick 0 reads as never.  *)
Blip(e) ==
    /\ ~aborted
    /\ s_tick' = [s_tick EXCEPT ![e] = tick]
    /\ unseen' = IF s_fatal \/ tick = 0 THEN unseen \ {e} ELSE unseen \cup {e}
    /\ UNCHANGED <<tick, s_mounted, s_fatal, registered, busy, render, fatal, pixel, aborted>>

serial_tx_activity_callback == Blip("tx")
serial_rx_activity_callback == Blip("rx")
debug_activity_callback == registered /\ Blip("debug")

tud_mount_cb ==
    /\ ~aborted
    /\ s_mounted' = TRUE /\ registered' = TRUE
    /\ UNCHANGED <<tick, s_fatal, s_tick, busy, render, fatal, pixel, aborted, unseen>>

tud_umount_cb ==
    /\ ~aborted /\ s_mounted
    /\ s_mounted' = FALSE
    /\ UNCHANGED <<tick, s_fatal, s_tick, registered, busy, render, fatal, pixel, aborted, unseen>>

(* A flash session or its reset window begins or ends. *)
Busy ==
    /\ ~aborted
    /\ busy' = ~busy
    /\ UNCHANGED <<tick, s_mounted, s_fatal, s_tick, registered, render, fatal, pixel, aborted, unseen>>

-----------------------------------------------------------------------------
(* render_task *)

(* Mutant of Recent: the operands swapped. *)
RecentSwapped(e) == s_tick[e] # 0 /\ (s_tick[e] - now) % NoLimit < Within(e)

Recent(e) == s_tick[e] # 0 /\ (now - s_tick[e]) % NoLimit < Within(e)

(* Mutant of Sleep: milliseconds for ticks. *)
SleepLong == pc' = "sleep" /\ delay' = RENDER_PERIOD_MS /\ spent' = 0

Sleep == pc' = "sleep" /\ delay' = pdMS_TO_TICKS(RENDER_PERIOD_MS) /\ spent' = 0

(* Mutant of FrameBegins: the pixel is not left to status_led_fatal. *)
FrameBeginsAnyway ==
    /\ pc = "sleep" /\ delay = 0
    /\ pc' = "now" /\ UNCHANGED <<now, colour, delay, spent>>

(* A frame begins unless the pixel belongs to status_led_fatal.            *)
FrameBegins ==
    /\ pc = "sleep" /\ delay = 0
    /\ IF s_fatal THEN Sleep ELSE pc' = "now" /\ UNCHANGED <<delay, spent>>
    /\ UNCHANGED <<now, colour>>

ReadTick ==
    /\ pc = "now"
    /\ now' = tick /\ pc' = "mode"
    /\ UNCHANGED <<colour, delay, spent>>

(* The modes, then within READY the blips. *)
ChooseMode ==
    /\ pc = "mode"
    /\ pc' = IF ~busy /\ ~Recent("debug") /\ s_mounted THEN "blip" ELSE "put"
    /\ colour' = CASE busy -> "flashing"
                   [] ~busy /\ Recent("debug") -> "debug"
                   [] OTHER -> IF s_mounted THEN "ready" ELSE "idle"
    /\ UNCHANGED <<now, delay, spent>>

ChooseBlip ==
    /\ pc = "blip"
    /\ pc' = "put"
    /\ colour' = CASE Recent("tx") -> "tx" [] ~Recent("tx") /\ Recent("rx") -> "rx"
                   [] OTHER -> "ready"
    /\ UNCHANGED <<now, delay, spent>>

(* The events whose turn a frame of colour c was: a mode or event of       *)
(* higher priority hides an event.                                         *)
Due(c) ==
    CASE c = "flashing" -> Event
      [] c = "debug" -> Event
      [] c \in {"idle", "tx"} -> {"tx", "rx"}
      [] c = "rx" -> {"rx"}
      [] c = "ready" -> {}

Put ==
    /\ pc = "put"
    /\ pixel' = "status"
    /\ unseen' = unseen \ Due(colour)
    /\ Sleep /\ now' = 0 /\ colour' = "idle"                \* local to the frame

render_task ==
    /\ ~aborted
    /\ \/ (FrameBegins \/ ReadTick \/ ChooseMode \/ ChooseBlip) /\ UNCHANGED <<pixel, unseen>>
       \/ Put
    /\ UNCHANGED <<tick, state, fatal, aborted>>

-----------------------------------------------------------------------------
(* eub_abort and status_led_fatal *)

(* Mutant of Handover: half a frame. *)
HandoverShort == pdMS_TO_TICKS(RENDER_PERIOD_MS \div 2)

Handover == pdMS_TO_TICKS(RENDER_PERIOD_MS + 5)

(* A task of the firmware finds that it cannot go on. *)
Fatal(t) ==
    /\ ~aborted /\ fatal[t].at = "running"
    /\ s_fatal' = TRUE
    /\ fatal' = [fatal EXCEPT ![t] = [at |-> "wait", i |-> 0, delay |-> Handover]]
    /\ unseen' = {}
    /\ UNCHANGED <<tick, s_mounted, s_tick, registered, busy, render, pixel, aborted>>

(* put(255, 0, 0) or put(0, 0, 0), then half a blink. *)
Blink(t, c, i) ==
    /\ pixel' = c
    /\ fatal' = [fatal EXCEPT ![t] = [at |-> c, i |-> i, delay |-> pdMS_TO_TICKS(ERROR_BLINK_MS)]]
    /\ UNCHANGED aborted

eub_abort(t) ==
    LET f == fatal[t] IN
    /\ ~aborted /\ f.at # "running" /\ f.delay = 0
    /\ CASE f.at = "wait" -> Blink(t, "red", 0)
         [] f.at = "red" -> Blink(t, "off", f.i)
         [] f.at = "off" /\ f.i + 1 < Blinks -> Blink(t, "red", f.i + 1)
         [] OTHER -> aborted' = TRUE /\ UNCHANGED <<pixel, fatal>>
    /\ UNCHANGED <<tick, state, render, unseen>>

-----------------------------------------------------------------------------
Less(d) == IF d = 0 THEN 0 ELSE d - 1

(* A tick, which no frame outlasts by more than FrameTicks. *)
Tick ==
    /\ ~aborted
    /\ tick' = (tick + 1) % NoLimit
    /\ delay' = Less(delay)
    /\ IF pc = "sleep" /\ delay > 0
       THEN UNCHANGED spent
       ELSE spent < FrameTicks /\ spent' = spent + 1
    /\ fatal' = [t \in Tasks |-> [fatal[t] EXCEPT !.delay = Less(@)]]
    /\ UNCHANGED <<state, pc, now, colour, pixel, aborted, unseen>>

Next ==
    \/ serial_tx_activity_callback \/ serial_rx_activity_callback \/ debug_activity_callback
    \/ tud_mount_cb \/ tud_umount_cb \/ Busy
    \/ render_task
    \/ \E t \in Tasks : Fatal(t) \/ eub_abort(t)
    \/ Tick

Spec == Init /\ [][Next]_vars

-----------------------------------------------------------------------------
(* From its first red flash on, the pixel belongs to the task that gives   *)
(* up: no frame begun before it raised s_fatal puts a colour into the      *)
(* blinking.  The wait of status_led_fatal is all that keeps the two tasks *)
(* apart; of the 25 ms two ticks are left.                                 *)
FatalOwnsPixel ==
    (\E t \in Tasks : fatal[t].at \in {"red", "off"}) => pixel \in {"red", "off"}

(* No event is missed for being short: while its time runs, a frame shows  *)
(* it or something of higher priority, even though the frame reads the     *)
(* clock first, a later event then looks as if 2^32 ticks old and its      *)
(* frame passes it by.  Only an event of tick 0 is lost.                   *)
EventsShown ==
    \A e \in unseen : (tick - s_tick[e]) % NoLimit < Within(e)
=============================================================================
