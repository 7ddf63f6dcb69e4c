--------------------------- MODULE StatusLedProofs ---------------------------
(***************************************************************************)
(* Why two tasks that share the pixel without a lock keep apart: a frame   *)
(* that began before s_fatal was raised has FrameTicks at most to end, and *)
(* the blinker waits for longer than that.  The argument is a sum that     *)
(* only grows: what is left of the wait and what the frame has spent.      *)
(***************************************************************************)
EXTENDS StatusLed, TLAPS

-----------------------------------------------------------------------------
(* Division and rounding *)

(* Quotient and remainder, as the prover knows them. *)
LEMMA DivMod ==
    ASSUME NEW b \in Nat \ {0}, NEW a \in Int
    PROVE  a \div b \in Int /\ a % b \in 0 .. b - 1 /\ a = b * (a \div b) + (a % b)
  OBVIOUS

(* Between -b and b, zero is the only multiple of b. *)
LEMMA NoMultipleBetween ==
    ASSUME NEW b \in Nat \ {0}, NEW q \in Int, NEW r \in Int, b * q = r, -b < r, r < b
    PROVE  r = 0
  OBVIOUS

(* The remainder is the only one. *)
LEMMA ModUnique ==
    ASSUME NEW b \in Nat \ {0}, NEW q \in Int, NEW r \in Int, 0 <= r, r < b,
           NEW x \in Int, x = b * q + r
    PROVE  x % b = r
  <1>1. x \div b \in Int /\ x % b \in 0 .. b - 1 /\ x = b * (x \div b) + (x % b)
    BY DivMod
  <1> DEFINE d == q - (x \div b)
             e == (x % b) - r
  <1>2. d \in Int /\ e \in Int /\ b * d = e /\ -b < e /\ e < b
    BY <1>1
  <1> HIDE DEF d, e
  <1>3. e = 0
    BY <1>2, NoMultipleBetween
  <1> QED BY <1>1, <1>3 DEF e

-----------------------------------------------------------------------------
Blinking(t) == fatal[t].at \in {"red", "off"}

Separate ==
    /\ pc \in {"now", "mode", "blip", "put", "sleep"}
    /\ spent \in 0 .. FrameTicks
    /\ fatal \in [Tasks -> [at : {"running", "wait", "red", "off"}, i : Nat, delay : Nat]]
    /\ \A t \in Tasks :
        /\ fatal[t].at # "running" => s_fatal
        /\ fatal[t].at = "wait" /\ pc # "sleep" => fatal[t].delay + spent >= Handover
        /\ Blinking(t) => pc = "sleep" /\ pixel \in {"red", "off"}

(* The wait is longer than a frame may take. *)
LEMMA WaitOutlastsFrame == Handover \in Nat /\ FrameTicks \in Nat /\ FrameTicks < Handover
BY TimingAssumption DEF Handover, pdMS_TO_TICKS

LEMMA Started == Init => Separate
BY WaitOutlastsFrame DEF Init, Separate, Blinking

(* What does not concern the pixel. *)
LEMMA Elsewhere ==
    ASSUME Separate, UNCHANGED <<pc, spent, fatal, pixel, s_fatal>>
    PROVE  Separate'
BY DEF Separate, Blinking

LEMMA Rendering ==
    ASSUME Separate, render_task
    PROVE  Separate'
<1> USE DEF Separate, Blinking, state
<1>1. CASE FrameBegins /\ UNCHANGED pixel
  BY <1>1, WaitOutlastsFrame DEF render_task, FrameBegins, Sleep
<1>2. CASE (ReadTick \/ ChooseMode \/ ChooseBlip) /\ UNCHANGED pixel
  BY <1>2 DEF render_task, ReadTick, ChooseMode, ChooseBlip
<1>3. CASE Put
  BY <1>3, WaitOutlastsFrame DEF render_task, Put, Sleep
<1> QED BY <1>1, <1>2, <1>3 DEF render_task

LEMMA GivingUp ==
    ASSUME Separate, NEW t \in Tasks, Fatal(t)
    PROVE  Separate'
BY WaitOutlastsFrame DEF Separate, Blinking, Fatal, render

(* The blinker wakes: no frame is under way any more. *)
LEMMA Aborting ==
    ASSUME Separate, NEW t \in Tasks, eub_abort(t)
    PROVE  Separate'
<1> DEFINE f == fatal[t]
           half == pdMS_TO_TICKS(ERROR_BLINK_MS)
<1>1. half \in Nat
  BY TimingAssumption DEF pdMS_TO_TICKS
<1>2. f.at # "running" /\ f.delay = 0 /\ UNCHANGED <<pc, spent, s_fatal>>
  BY DEF eub_abort, render, state
<1>3. pc = "sleep"
  <2>1. f.at \in {"wait", "red", "off"}
    BY <1>2 DEF Separate
  <2>2. CASE f.at = "wait"
    BY <1>2, <2>2, WaitOutlastsFrame DEF Separate
  <2>3. CASE f.at \in {"red", "off"}
    BY <2>3 DEF Separate, Blinking
  <2> QED BY <2>1, <2>2, <2>3
<1>4. CASE UNCHANGED <<pixel, fatal>>
  BY <1>2, <1>4, Elsewhere
<1>5. ASSUME NEW c \in {"red", "off"}, NEW i \in Nat, Blink(t, c, i)
      PROVE  Separate'
  <2>1. pixel' = c /\ fatal' = [fatal EXCEPT ![t] = [at |-> c, i |-> i, delay |-> half]]
    BY <1>5 DEF Blink
  <2> HIDE DEF half
  <2> QED BY <1>1, <1>2, <1>3, <2>1 DEF Separate, Blinking
<1>6. f.i + 1 \in Nat /\ f.i \in Nat
  BY DEF Separate
<1> QED BY <1>4, <1>5, <1>6 DEF eub_abort

LEMMA Ticking ==
    ASSUME Separate, Tick
    PROVE  Separate'
<1>1. /\ spent' \in 0 .. FrameTicks
      /\ pc # "sleep" => spent' = spent + 1
  BY WaitOutlastsFrame DEF Tick, Separate
<1>2. \A t \in Tasks : /\ fatal'[t].at = fatal[t].at /\ fatal'[t].i = fatal[t].i
                       /\ fatal'[t].delay = Less(fatal[t].delay)
  BY DEF Tick, Separate
<1>3. \A d \in Nat : Less(d) \in Nat /\ Less(d) + 1 >= d
  BY DEF Less
<1>4. fatal' \in [Tasks -> [at : {"running", "wait", "red", "off"}, i : Nat, delay : Nat]]
  BY <1>3 DEF Tick, Separate
<1> QED BY <1>1, <1>2, <1>3, <1>4, WaitOutlastsFrame DEF Separate, Blinking, Tick, state

LEMMA Preserved == Separate /\ [Next]_vars => Separate'
<1> SUFFICES ASSUME Separate, [Next]_vars PROVE Separate'
  OBVIOUS
<1>1. CASE \/ serial_tx_activity_callback \/ serial_rx_activity_callback
           \/ debug_activity_callback \/ tud_mount_cb \/ tud_umount_cb \/ Busy
           \/ UNCHANGED vars
  BY <1>1, Elsewhere DEF serial_tx_activity_callback, serial_rx_activity_callback,
       debug_activity_callback, Blip, tud_mount_cb, tud_umount_cb, Busy, vars, state, render
<1>2. CASE render_task
  BY <1>2, Rendering
<1>3. CASE \E t \in Tasks : Fatal(t) \/ eub_abort(t)
  BY <1>3, GivingUp, Aborting
<1>4. CASE Tick
  BY <1>4, Ticking
<1> QED BY <1>1, <1>2, <1>3, <1>4 DEF Next

(* Once red has been shown the render task never writes over it: for every *)
(* tick rate, every number of tasks that give up, and every frame time     *)
(* shorter than the wait of status_led_fatal.                              *)
THEOREM PixelSafe == Spec => []FatalOwnsPixel
<1>1. Separate => FatalOwnsPixel
  BY DEF Separate, Blinking, FatalOwnsPixel
<1> QED BY <1>1, Started, Preserved, PTL DEF Spec

-----------------------------------------------------------------------------
(* Types: ticks wrap, delays run out, blinks are counted. *)

LEMMA TickMod ==
    ASSUME NEW x \in Int
    PROVE  /\ x \in Ticks => x % NoLimit = x
           /\ x = NoLimit => x % NoLimit = 0
           /\ -NoLimit <= x /\ x < 0 => x % NoLimit = x + NoLimit
<1>1. NoLimit \in Nat \ {0}
  BY TimingAssumption DEF Event
<1>2. CASE x \in Ticks
  <2>1. x = NoLimit * 0 + x /\ 0 <= x /\ x < NoLimit
    BY <1>1, <1>2 DEF Ticks
  <2>2. x % NoLimit = x
    BY <1>1, <2>1, ModUnique
  <2> QED BY <1>1, <1>2, <2>2 DEF Ticks
<1>3. CASE x = NoLimit
  <2>1. x = NoLimit * 1 + 0 /\ x \in Int /\ 0 < NoLimit
    BY <1>1, <1>3
  <2>2. x % NoLimit = 0
    BY <1>1, <2>1, ModUnique
  <2> QED BY <1>1, <1>3, <2>2 DEF Ticks
<1>4. CASE -NoLimit <= x /\ x < 0
  <2> DEFINE r == x + NoLimit
  <2>1. r \in Int /\ 0 <= r /\ r < NoLimit /\ x = NoLimit * (-1) + r
    BY <1>1, <1>4
  <2> HIDE DEF r
  <2>2. x % NoLimit = r
    BY <1>1, <2>1, ModUnique
  <2> QED BY <1>1, <1>4, <2>2 DEF r, Ticks
<1> QED BY <1>1, <1>2, <1>3, <1>4 DEF Ticks

LEMMA Periods ==
    /\ pdMS_TO_TICKS(RENDER_PERIOD_MS) \in Nat /\ pdMS_TO_TICKS(ERROR_BLINK_MS) \in Nat
    /\ Handover \in Nat /\ FrameTicks \in Nat /\ Blinks \in Nat \ {0} /\ NoLimit \in Nat \ {0, 1}
BY TimingAssumption DEF pdMS_TO_TICKS, Handover, Event

LEMMA TypeInit == Init => TypeOK
<1> SUFFICES ASSUME Init PROVE TypeOK
  OBVIOUS
<1>1. 0 \in Ticks
  BY Periods DEF Ticks
<1>2. s_tick \in [Event -> Ticks]
  BY <1>1 DEF Init
<1>3. fatal \in [Tasks -> [at : {"running", "wait", "red", "off"}, i : 0 .. Blinks, delay : Nat]]
  <2>1. 0 \in 0 .. Blinks /\ 0 \in Nat
    BY Periods
  <2> QED BY <2>1 DEF Init
<1>4. /\ delay \in 0 .. pdMS_TO_TICKS(RENDER_PERIOD_MS) /\ spent \in 0 .. FrameTicks
      /\ unseen \subseteq Event
  BY Periods DEF Init
<1> QED BY <1>1, <1>2, <1>3, <1>4 DEF Init, TypeOK, Colour

LEMMA SleepType ==
    ASSUME Sleep
    PROVE  /\ pc' \in {"now", "mode", "blip", "put", "sleep"}
           /\ delay' \in 0 .. pdMS_TO_TICKS(RENDER_PERIOD_MS) /\ spent' \in 0 .. FrameTicks
BY Periods DEF Sleep

LEMMA RenderType == ASSUME TypeOK, render_task PROVE TypeOK'
<1> USE DEF TypeOK, state
<1>1. CASE FrameBegins /\ UNCHANGED <<pixel, unseen>>
  BY <1>1, SleepType DEF render_task, FrameBegins
<1>2. CASE ReadTick /\ UNCHANGED <<pixel, unseen>>
  BY <1>2 DEF render_task, ReadTick
<1>3. CASE ChooseMode /\ UNCHANGED <<pixel, unseen>>
  <2>1. colour' \in Colour
    BY <1>3 DEF ChooseMode, Colour
  <2> QED BY <1>3, <2>1 DEF render_task, ChooseMode
<1>4. CASE ChooseBlip /\ UNCHANGED <<pixel, unseen>>
  <2>1. colour' \in Colour
    BY <1>4 DEF ChooseBlip, Colour
  <2> QED BY <1>4, <2>1 DEF render_task, ChooseBlip
<1>5. CASE Put
  <2>1. now' \in Ticks /\ colour' \in Colour /\ unseen' \subseteq Event
    BY <1>5, Periods DEF Put, Ticks, Colour
  <2> QED BY <1>5, <2>1, SleepType DEF render_task, Put
<1> QED BY <1>1, <1>2, <1>3, <1>4, <1>5 DEF render_task

LEMMA AbortType ==
    ASSUME TypeOK, NEW t \in Tasks, eub_abort(t)
    PROVE  TypeOK'
<1> DEFINE f == fatal[t]
           half == pdMS_TO_TICKS(ERROR_BLINK_MS)
<1>1. half \in Nat /\ Blinks \in Nat \ {0}
  BY Periods
<1>2. UNCHANGED <<tick, state, render, unseen>>
  BY DEF eub_abort
<1>3. ASSUME NEW c \in {"red", "off"}, NEW i \in 0 .. Blinks, Blink(t, c, i)
      PROVE  TypeOK'
  <2>1. pixel' = c /\ aborted' = aborted
        /\ fatal' = [fatal EXCEPT ![t] = [at |-> c, i |-> i, delay |-> half]]
    BY <1>3 DEF Blink
  <2> HIDE DEF half
  <2> QED BY <1>1, <1>2, <2>1 DEF TypeOK, state, render
<1>4. CASE aborted' = TRUE /\ UNCHANGED <<pixel, fatal>>
  BY <1>2, <1>4 DEF TypeOK, state, render
<1>5. f.i \in 0 .. Blinks
  BY DEF TypeOK
<1>6. f.i + 1 < Blinks => f.i + 1 \in 0 .. Blinks
  BY <1>1, <1>5
<1>7. 0 \in 0 .. Blinks
  BY <1>1
<1>8. \/ \E c \in {"red", "off"}, i \in 0 .. Blinks : Blink(t, c, i)
      \/ aborted' = TRUE /\ UNCHANGED <<pixel, fatal>>
  <2> HIDE DEF half
  <2> QED BY <1>5, <1>6, <1>7 DEF eub_abort
<1> QED BY <1>3, <1>4, <1>8

LEMMA TickType == ASSUME TypeOK, Tick PROVE TypeOK'
<1>1. tick' \in Ticks
  <2>1. tick + 1 \in Int /\ (tick + 1 \in Ticks \/ tick + 1 = NoLimit)
    BY Periods DEF TypeOK, Ticks
  <2>2. (tick + 1) % NoLimit \in Ticks
    BY <2>1, TickMod, Periods DEF Ticks
  <2> QED BY <2>2 DEF Tick
<1>2. delay' \in 0 .. pdMS_TO_TICKS(RENDER_PERIOD_MS)
  BY Periods DEF Tick, TypeOK, Less
<1>3. spent' \in 0 .. FrameTicks
  BY Periods DEF Tick, TypeOK
<1>4. \A d \in Nat : Less(d) \in Nat
  BY DEF Less
<1>5. fatal' \in [Tasks -> [at : {"running", "wait", "red", "off"}, i : 0 .. Blinks, delay : Nat]]
  BY <1>4 DEF Tick, TypeOK
<1> QED BY <1>1, <1>2, <1>3, <1>5 DEF Tick, TypeOK, state

LEMMA TypeStep == TypeOK /\ [Next]_vars => TypeOK'
<1> SUFFICES ASSUME TypeOK, [Next]_vars PROVE TypeOK'
  OBVIOUS
<1>1. ASSUME NEW e \in Event, Blip(e)
      PROVE  TypeOK'
  BY <1>1 DEF Blip, TypeOK, render
<1>2. CASE serial_tx_activity_callback \/ serial_rx_activity_callback \/ debug_activity_callback
  BY <1>1, <1>2 DEF serial_tx_activity_callback, serial_rx_activity_callback,
       debug_activity_callback, Event
<1>3. CASE tud_mount_cb \/ tud_umount_cb \/ Busy \/ UNCHANGED vars
  BY <1>3 DEF tud_mount_cb, tud_umount_cb, Busy, vars, state, render, TypeOK
<1>4. ASSUME NEW t \in Tasks, Fatal(t)
      PROVE  TypeOK'
  BY <1>4, Periods DEF Fatal, TypeOK, render
<1> QED BY <1>2, <1>3, <1>4, RenderType, AbortType, TickType DEF Next

(* The state of the LED keeps its type, for every tick rate. *)
THEOREM TypeCorrect == Spec => []TypeOK
BY TypeInit, TypeStep, PTL DEF Spec

-----------------------------------------------------------------------------
(* Why no event is missed: how old an unseen one may be.  A frame passes   *)
(* by an event no older than the frame itself; the sleep follows, and the  *)
(* next frame has read the clock after it.                                 *)

Age(e) == (tick - s_tick[e]) % NoLimit
Period == pdMS_TO_TICKS(RENDER_PERIOD_MS)
Left == IF pc = "sleep" THEN delay ELSE 0

Awaited(e) ==
    /\ s_tick[e] # 0
    /\ Age(e) + Left <= FrameTicks + Period + spent
    /\ pc \in {"mode", "blip"} => Age(e) <= spent \/ Recent(e)
    /\ pc = "blip" /\ e = "debug" => Age(e) <= spent
    /\ pc = "put" => Age(e) <= spent \/ e \in Due(colour)

Watched == (s_fatal => unseen = {}) /\ \A e \in unseen : Awaited(e)

(* A tick makes every event one tick older while its age does not wrap. *)
LEMMA Older ==
    ASSUME NEW x \in Ticks, NEW y \in Ticks, ((x - y) % NoLimit) + 1 < NoLimit
    PROVE  (((x + 1) % NoLimit) - y) % NoLimit = ((x - y) % NoLimit) + 1
<1> DEFINE n == (x + 1) % NoLimit
<1>1. NoLimit \in Nat \ {0, 1} /\ x \in 0 .. NoLimit - 1 /\ y \in 0 .. NoLimit - 1
  BY Periods DEF Ticks
<1>2. x + 1 < NoLimit => n = x + 1
  BY <1>1, TickMod DEF Ticks
<1>3. x + 1 = NoLimit => n = 0
  BY <1>1, TickMod
<1>4. CASE y <= x
  <2>1. x - y \in Ticks
    BY <1>1, <1>4 DEF Ticks
  <2>2. (x - y) % NoLimit = x - y
    BY <2>1, <1>1, TickMod
  <2>3. CASE x + 1 < NoLimit
    <3>1. n - y \in Ticks
      BY <1>1, <1>2, <1>4, <2>3 DEF Ticks
    <3>2. (n - y) % NoLimit = n - y
      BY <3>1, TickMod, <1>1 DEF Ticks
    <3> QED BY <1>1, <1>2, <2>2, <2>3, <3>2
  <2>4. CASE x + 1 = NoLimit
    <3>1. n - y = -y /\ y > 0
      BY <1>1, <1>3, <2>2, <2>4
    <3>2. (-y) % NoLimit = (-y) + NoLimit
      BY <1>1, <3>1, TickMod
    <3> QED BY <1>1, <2>2, <2>4, <3>1, <3>2
  <2> QED BY <1>1, <2>3, <2>4
<1>5. CASE y > x
  <2>1. (x - y) % NoLimit = x - y + NoLimit
    BY <1>1, <1>5, TickMod
  <2>2. n = x + 1 /\ x + 1 - y < 0 /\ -NoLimit <= x + 1 - y
    BY <1>1, <1>2, <1>5, <2>1
  <2>3. (x + 1 - y) % NoLimit = (x + 1 - y) + NoLimit
    BY <1>1, <2>2, TickMod
  <2> QED BY <1>1, <2>1, <2>2, <2>3
<1> QED BY <1>1, <1>4, <1>5

LEMMA AgeRange == ASSUME TypeOK, NEW e \in Event PROVE Age(e) \in Ticks
<1>1. tick - s_tick[e] \in Int /\ NoLimit \in Nat \ {0}
  BY Periods DEF TypeOK, Ticks
<1>2. Age(e) \in 0 .. NoLimit - 1
  BY <1>1, DivMod DEF Age
<1> QED BY <1>2 DEF Ticks

(* The ages the invariant allows are within what the pixel shows. *)
LEMMA AgeBound ==
    ASSUME TypeOK, NEW e \in Event, Awaited(e)
    PROVE  Age(e) < Within(e) /\ Age(e) + 1 < NoLimit
<1>1. Age(e) \in Int /\ Left \in Nat /\ spent \in Nat /\ spent <= FrameTicks
  BY AgeRange, Periods DEF TypeOK, Ticks, Left
<1>2. Age(e) <= Period + 2 * FrameTicks
  BY <1>1, Periods DEF Awaited, Period
<1>3. Within(e) \in 1 .. NoLimit - 1 /\ NoLimit \in Nat
  BY TimingAssumption
<1>4. Period + 2 * FrameTicks < Within(e)
  BY HoldAssumption DEF Period
<1> QED BY <1>1, <1>2, <1>3, <1>4, Periods DEF Period

(* Nothing the frame knows of an event changes: nor does its age. *)
LEMMA AwaitedKept ==
    ASSUME NEW e, Awaited(e),
           UNCHANGED <<tick, s_tick, now, pc, colour, delay, spent>>
    PROVE  Awaited(e)'
BY DEF Awaited, Age, Left, Recent, Due

LEMMA WatchedInit == Init => Watched
BY DEF Init, Watched

LEMMA Seeing ==
    ASSUME TypeOK, Watched, render_task
    PROVE  Watched'
<1> SUFFICES ASSUME NEW e \in unseen', e \in unseen, Awaited(e)
             PROVE  Awaited(e)'
  BY DEF Watched, render_task, Put, state
<1>1. /\ e \in Event /\ Age(e) \in Nat /\ Age(e)' = Age(e)
      /\ UNCHANGED <<tick, s_tick, s_fatal, busy, s_mounted>> /\ ~s_fatal
  BY AgeRange DEF TypeOK, Ticks, render_task, state, Age, Watched
<1>2. FrameTicks \in Nat /\ Period \in Nat /\ spent \in 0 .. FrameTicks /\ delay \in 0 .. Period
  BY Periods DEF TypeOK, Period
<1>3. Age(e) < Within(e) /\ s_tick[e] # 0
  BY <1>1, AgeBound DEF Awaited
<1>4. CASE FrameBegins
  BY <1>1, <1>2, <1>4 DEF FrameBegins, Awaited, Left
<1>5. CASE ReadTick
  <2>1. Recent(e)'
    BY <1>1, <1>3, <1>5 DEF ReadTick, Recent, Age, Within
  <2> QED BY <1>1, <1>2, <1>5, <2>1 DEF ReadTick, Awaited, Left
<1>6. CASE ChooseMode
  <2>1. Recent(e)' <=> Recent(e)
    BY <1>1, <1>6 DEF ChooseMode, Recent
  <2>2. e = "debug" /\ ~Recent("debug") => Age(e) <= spent
    BY <1>6 DEF ChooseMode, Awaited
  <2>3. pc' = "put" => Age(e) <= spent \/ e \in Due(colour')
    BY <1>1, <1>6, <2>2 DEF ChooseMode, Due, Event
  <2> QED BY <1>1, <1>2, <1>6, <2>1, <2>2, <2>3 DEF ChooseMode, Awaited, Left, Due
<1>7. CASE ChooseBlip
  <2>1. e = "debug" => Age(e) <= spent
    BY <1>7 DEF ChooseBlip, Awaited
  <2>2. ~Recent(e) => Age(e) <= spent
    BY <1>7 DEF ChooseBlip, Awaited
  <2>3. Age(e) <= spent \/ e \in Due(colour')
    BY <1>1, <1>7, <2>1, <2>2 DEF ChooseBlip, Due, Event
  <2> QED BY <1>1, <1>2, <1>7, <2>3 DEF ChooseBlip, Awaited, Left, Due
<1>8. CASE Put
  <2>1. Age(e) <= spent
    BY <1>8 DEF Put, Awaited
  <2>2. pc' = "sleep" /\ delay' = Period /\ spent' = 0
    BY <1>8 DEF Put, Sleep, Period
  <2> QED BY <1>1, <1>2, <2>1, <2>2 DEF Awaited, Left
<1> QED BY <1>4, <1>5, <1>6, <1>7, <1>8 DEF render_task

LEMMA Blipping ==
    ASSUME TypeOK, Watched, NEW k \in Event, Blip(k)
    PROVE  Watched'
<1>1. /\ UNCHANGED <<tick, s_fatal, now, pc, colour, delay, spent>>
      /\ s_tick' = [s_tick EXCEPT ![k] = tick]
      /\ unseen' = IF s_fatal \/ tick = 0 THEN unseen \ {k} ELSE unseen \cup {k}
  BY DEF Blip, render
<1>2. s_fatal' => unseen' = {}
  BY <1>1 DEF Watched
<1>3. ASSUME NEW e \in unseen', e # k
      PROVE  Awaited(e)'
  <2>1. e \in unseen /\ e \in Event /\ s_tick'[e] = s_tick[e] /\ Awaited(e)
    BY <1>1, <1>3 DEF TypeOK, Watched
  <2> QED BY <1>1, <2>1 DEF Awaited, Age, Left, Recent, Due
<1>4. ASSUME k \in unseen'
      PROVE  Awaited(k)'
  <2>1. s_tick'[k] = tick /\ tick \in Ticks /\ 0 \in Ticks /\ tick # 0
    BY <1>1, <1>4, Periods DEF TypeOK, Ticks, Watched
  <2>2. (tick - tick) % NoLimit = 0
    BY <2>1, TickMod DEF Ticks
  <2>3. Age(k)' = 0
    BY <1>1, <2>1, <2>2 DEF Age
  <2>4. FrameTicks \in Nat /\ Period \in Nat /\ spent \in Nat /\ delay \in 0 .. Period
    BY Periods DEF TypeOK, Period
  <2> QED BY <1>1, <2>1, <2>3, <2>4 DEF Awaited, Left
<1> QED BY <1>2, <1>3, <1>4 DEF Watched

LEMMA SumGrows ==
    ASSUME NEW a \in Nat, NEW l \in Nat, NEW m \in Nat, NEW s \in Nat, NEW t \in Nat,
           NEW b \in Nat, a + l <= b + s, m + 1 + s <= l + t
    PROVE  a + 1 + m <= b + t
  OBVIOUS

LEMMA TickWatched ==
    ASSUME TypeOK, Watched, Tick
    PROVE  Watched'
<1>1. /\ UNCHANGED <<s_tick, s_fatal, now, pc, colour, unseen>>
      /\ tick' = (tick + 1) % NoLimit /\ delay' = Less(delay)
      /\ IF pc = "sleep" /\ delay > 0 THEN spent' = spent ELSE spent' = spent + 1
  BY DEF Tick, state
<1>2. FrameTicks \in Nat /\ Period \in Nat /\ spent \in Nat /\ delay \in 0 .. Period
  BY Periods DEF TypeOK, Period
<1> SUFFICES ASSUME NEW e \in unseen, Awaited(e)
             PROVE  Awaited(e)'
  BY <1>1 DEF Watched
<1>3. e \in Event /\ s_tick[e] \in Ticks /\ tick \in Ticks
  BY DEF TypeOK
<1>4. Age(e) \in Nat /\ Age(e) + 1 < NoLimit
  BY <1>3, AgeBound, AgeRange DEF Ticks
<1>5. Age(e)' = Age(e) + 1
  BY <1>1, <1>3, <1>4, Older DEF Age
<1>6. (Recent(e)' <=> Recent(e)) /\ (pc # "sleep" => spent' = spent + 1) /\ spent' \in Nat
  BY <1>1, <1>2 DEF Recent, Within, dbg_ticks, blip_ticks
<1>7. Age(e)' + Left' <= FrameTicks + Period + spent'
  <2>1. Age(e) + Left <= FrameTicks + Period + spent
    BY DEF Awaited
  <2>2. Left' + 1 + spent <= Left + spent' /\ spent' \in Nat
    BY <1>1, <1>2 DEF Left, Less
  <2>3. Left \in Nat /\ Left' \in Nat
    BY <1>1, <1>2 DEF Left, Less
  <2>4. Age(e) + 1 + Left' <= FrameTicks + Period + spent'
    <3>1. FrameTicks + Period \in Nat
      BY <1>2
    <3> QED BY <1>2, <1>4, <2>1, <2>2, <2>3, <3>1, SumGrows
  <2> QED BY <1>5, <2>4
<1>8. Age(e) <= spent /\ pc # "sleep" => Age(e)' <= spent'
  BY <1>2, <1>4, <1>5, <1>6
<1>9. (Period = Period' /\ FrameTicks = FrameTicks') /\ (e \in Due(colour) <=> e \in Due(colour)')
  BY <1>1 DEF Period, pdMS_TO_TICKS, Due
<1> QED BY <1>1, <1>6, <1>7, <1>8, <1>9 DEF Awaited

LEMMA WatchedStep == TypeOK /\ Watched /\ [Next]_vars => Watched'
<1> SUFFICES ASSUME TypeOK, Watched, [Next]_vars PROVE Watched'
  OBVIOUS
<1>1. CASE serial_tx_activity_callback \/ serial_rx_activity_callback \/ debug_activity_callback
  BY <1>1, Blipping DEF serial_tx_activity_callback, serial_rx_activity_callback,
       debug_activity_callback, Event
<1>2. CASE tud_mount_cb \/ tud_umount_cb \/ Busy \/ UNCHANGED vars
  <2>1. UNCHANGED <<tick, s_tick, now, pc, colour, delay, spent, s_fatal, unseen>>
    BY <1>2 DEF tud_mount_cb, tud_umount_cb, Busy, vars, state, render
  <2> QED BY <2>1, AwaitedKept DEF Watched
<1>3. CASE render_task
  BY <1>3, Seeing
<1>4. ASSUME NEW t \in Tasks, Fatal(t)
      PROVE  Watched'
  BY <1>4 DEF Fatal, Watched
<1>5. ASSUME NEW t \in Tasks, eub_abort(t)
      PROVE  Watched'
  <2>1. UNCHANGED <<tick, s_tick, now, pc, colour, delay, spent, s_fatal, unseen>>
    BY <1>5 DEF eub_abort, state, render
  <2> QED BY <2>1, AwaitedKept DEF Watched
<1>6. CASE Tick
  BY <1>6, TickWatched
<1> QED BY <1>1, <1>2, <1>3, <1>4, <1>5, <1>6 DEF Next

(* Every event is shown, or hidden by one of higher priority, before its   *)
(* time is over: for every tick rate, period and frame time whose sum is   *)
(* shorter than the hold, and though the clock wraps under it.             *)
THEOREM EventsSeen == Spec => []EventsShown
<1>1. TypeOK /\ Watched => EventsShown
  BY AgeBound DEF Watched, EventsShown, Age, TypeOK
<1> QED BY <1>1, TypeInit, TypeStep, WatchedInit, WatchedStep, PTL DEF Spec
=============================================================================
