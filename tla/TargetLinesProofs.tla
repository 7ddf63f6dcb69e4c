-------------------------- MODULE TargetLinesProofs --------------------------
(***************************************************************************)
(* Theorems about TargetLines, for every set of line states and however    *)
(* the two tasks interleave.                                               *)
(***************************************************************************)
EXTENDS TargetLines, TLAPS

-----------------------------------------------------------------------------
(* serial_handler_set_boot_reset_pins, in either task *)

(* A pin is set: nothing is owed yet. *)
LEMMA SetBootInv == ASSUME IInv, NEW t \in Tasks, SetBoot(t) PROVE IInv'
  <1>1. TypeOK'
    BY DEF IInv, TypeOK, Tasks, PinSteps, UsbSteps, TmrSteps, SetBoot, Goto, target, edge,
       host
  <1>2. PadNeverStranded'
    BY DEF IInv, TypeOK, Tasks, Timers, PinSteps, UsbSteps, TmrSteps, PadNeverStranded,
       SetBoot, Goto
  <1>3. CallInv'
    BY DEF IInv, TypeOK, Tasks, Timers, PinSteps, UsbSteps, TmrSteps, EarlySteps, CallInv,
       host, SetBoot, Goto
  <1>4. SessionInv'
    BY DEF IInv, TypeOK, Tasks, Timers, PinSteps, UsbSteps, TmrSteps, EarlySteps, CallInv,
       SessionInv, ResetActive, SetBoot, Goto
  <1>5. LowInv'
    BY DEF IInv, TypeOK, Tasks, Timers, PinSteps, UsbSteps, TmrSteps, EarlySteps, CallInv,
       LowInv, ResetActive, target, host, SetBoot, Goto
  <1>6. QuietInv'
    BY DEF IInv, TypeOK, Tasks, Timers, PinSteps, UsbSteps, TmrSteps, EarlySteps, CallInv,
       SessionInv, QuietInv, ResetActive, SetBoot, Goto
  <1>7. RunInv'
    BY DEF IInv, TypeOK, Tasks, Timers, PinSteps, UsbSteps, TmrSteps, EarlySteps,
       CallInv, RunInv, Stopping, InPins, SetBoot, Goto, target, edge, host,
       Normal
  <1> QED BY <1>1, <1>2, <1>3, <1>4, <1>5, <1>6, <1>7 DEF IInv

(* RST goes low only if somebody is to raise it. *)
LEMMA SetRstInv == ASSUME IInv, NEW t \in Tasks, SetRst(t) PROVE IInv'
  <1>1. TypeOK'
    BY DEF IInv, TypeOK, Tasks, PinSteps, UsbSteps, TmrSteps, SetRst, Goto, AfterReset,
       Levels, Normal, target, edge, host
  <1>2. PadNeverStranded'
    BY DEF IInv, TypeOK, Tasks, Timers, PinSteps, UsbSteps, TmrSteps, PadNeverStranded,
       SetRst, Goto, AfterReset, Levels, Normal
  <1>3. CallInv'
    BY DEF IInv, TypeOK, Tasks, Timers, PinSteps, UsbSteps, TmrSteps, EarlySteps, CallInv,
       host, SetRst, Goto, AfterReset, Levels, Normal
  <1>4. SessionInv'
    BY DEF IInv, TypeOK, Tasks, Timers, PinSteps, UsbSteps, TmrSteps, EarlySteps, CallInv,
       SessionInv, ResetActive, SetRst, Goto, AfterReset, Levels, Normal
  <1>5. LowInv'
    <2>1. CASE t = "usb" /\ want["usb"].rst
      BY <2>1 DEF SetRst, IInv, LowInv
    <2>2. CASE t = "usb" /\ ret = "arm"
      BY <2>2 DEF IInv, TypeOK, Tasks, PinSteps, UsbSteps, TmrSteps, LowInv, SetRst, Goto
    <2>3. CASE t = "usb" /\ ret = "idle" /\ ~want["usb"].rst
      <3>1. line \in BOOLEAN \X BOOLEAN /\ want["usb"] = Levels(line[1], line[2])
        BY <2>3 DEF IInv, TypeOK, CallInv, SetRst
      <3>2. ~line[1] /\ line[2]
        <4>1. Levels(line[1], line[2]).rst = ~(~line[1] /\ line[2])
          BY Zenon DEF Levels
        <4> QED BY <2>3, <3>1, <4>1, Zenon
      <3>3. line[1] = FALSE /\ line[2] = TRUE
        BY <3>1, <3>2
      <3>4. line = <<FALSE, TRUE>>
        <4>1. line = <<line[1], line[2]>>
          BY <3>1
        <4> QED BY <3>3, <4>1, Zenon
      <3> QED BY <3>4 DEF SetRst, LowInv, host
    <2>4. CASE t = "tmr"
      BY <2>4 DEF IInv, CallInv, LowInv, Normal, PinSteps, SetRst
    <2>5. t = "usb" => ret \in {"arm", "idle"}
      BY DEF IInv, CallInv, EarlySteps, SetRst
    <2>6. want["usb"].rst \in BOOLEAN
      BY DEF IInv, TypeOK, Tasks
    <2> QED BY <2>1, <2>2, <2>3, <2>4, <2>5, <2>6 DEF Tasks
  <1>6. QuietInv'
    BY DEF IInv, TypeOK, Tasks, Timers, PinSteps, UsbSteps, TmrSteps, EarlySteps, CallInv,
       SessionInv, QuietInv, ResetActive, SetRst, Goto, AfterReset, Levels, Normal
  <1>7. RunInv'
    BY DEF IInv, TypeOK, Tasks, Timers, PinSteps, UsbSteps, TmrSteps, EarlySteps,
       CallInv, RunInv, Stopping, InPins, SetRst, Goto, AfterReset, Levels,
       Normal, target, edge, host
  <1> QED BY <1>1, <1>2, <1>3, <1>4, <1>5, <1>6, <1>7 DEF IInv

(* The first access to s_prev_rst. *)
LEMMA ReadPrevInv == ASSUME IInv, NEW t \in Tasks, ReadPrev(t) PROVE IInv'
  <1>1. TypeOK'
    BY DEF IInv, TypeOK, Tasks, PinSteps, UsbSteps, TmrSteps, ReadPrev, RstRising, Goto,
       target, edge, host
  <1>2. PadNeverStranded'
    BY DEF IInv, TypeOK, Tasks, Timers, PinSteps, UsbSteps, TmrSteps, PadNeverStranded,
       ReadPrev, Goto
  <1>3. CallInv'
    BY DEF IInv, TypeOK, Tasks, Timers, PinSteps, UsbSteps, TmrSteps, EarlySteps, CallInv,
       host, ReadPrev, Goto
  <1>4. SessionInv'
    BY DEF IInv, TypeOK, Tasks, Timers, PinSteps, UsbSteps, TmrSteps, EarlySteps, CallInv,
       SessionInv, ResetActive, ReadPrev, Goto
  <1>5. LowInv'
    BY DEF IInv, TypeOK, Tasks, Timers, PinSteps, UsbSteps, TmrSteps, EarlySteps, CallInv,
       LowInv, ResetActive, target, host, ReadPrev, Goto
  <1>6. QuietInv'
    BY DEF IInv, TypeOK, Tasks, Timers, PinSteps, UsbSteps, TmrSteps, EarlySteps, CallInv,
       SessionInv, QuietInv, ResetActive, ReadPrev, Goto
  <1>7. RunInv'
    BY DEF IInv, TypeOK, Tasks, Timers, PinSteps, UsbSteps, TmrSteps, EarlySteps,
       CallInv, RunInv, Stopping, InPins, ReadPrev, RstRising, Goto, target,
       edge, host, Normal
  <1> QED BY <1>1, <1>2, <1>3, <1>4, <1>5, <1>6, <1>7 DEF IInv

(* The second access to s_prev_rst. *)
LEMMA WritePrevInv == ASSUME IInv, NEW t \in Tasks, WritePrev(t) PROVE IInv'
  <1>1. TypeOK'
    BY DEF IInv, TypeOK, Tasks, PinSteps, UsbSteps, TmrSteps, WritePrev, Goto, target,
       edge, host
  <1>2. PadNeverStranded'
    BY DEF IInv, TypeOK, Tasks, Timers, PinSteps, UsbSteps, TmrSteps, PadNeverStranded,
       WritePrev, Goto
  <1>3. CallInv'
    BY DEF IInv, TypeOK, Tasks, Timers, PinSteps, UsbSteps, TmrSteps, EarlySteps, CallInv,
       host, WritePrev, Goto
  <1>4. SessionInv'
    BY DEF IInv, TypeOK, Tasks, Timers, PinSteps, UsbSteps, TmrSteps, EarlySteps, CallInv,
       SessionInv, ResetActive, WritePrev, Goto
  <1>5. LowInv'
    BY DEF IInv, TypeOK, Tasks, Timers, PinSteps, UsbSteps, TmrSteps, EarlySteps, CallInv,
       LowInv, ResetActive, target, host, WritePrev, Goto
  <1>6. QuietInv'
    BY DEF IInv, TypeOK, Tasks, Timers, PinSteps, UsbSteps, TmrSteps, EarlySteps, CallInv,
       SessionInv, QuietInv, ResetActive, WritePrev, Goto
  <1>7. RunInv'
    BY DEF IInv, TypeOK, Tasks, Timers, PinSteps, UsbSteps, TmrSteps, EarlySteps,
       CallInv, RunInv, Stopping, InPins, WritePrev, Goto, target, edge, host,
       Normal
  <1> QED BY <1>1, <1>2, <1>3, <1>4, <1>5, <1>6, <1>7 DEF IInv

(* s_target_running is stored before the mutex is asked for. *)
LEMMA StoreRunningInv == ASSUME IInv, NEW t \in Tasks, StoreRunning(t) PROVE IInv'
  <1>1. TypeOK'
    <2>0. s_target_running' \in BOOLEAN
      BY Zenon DEF IInv, TypeOK, StoreRunning
    <2>1. CASE ~want[t].boot \/ ~want[t].rst
      BY <2>0, <2>1 DEF IInv, TypeOK, Tasks, PinSteps, UsbSteps, TmrSteps, StoreRunning,
         Goto,
         target, edge, host
    <2>2. CASE ~(~want[t].boot \/ ~want[t].rst) /\ rising[t]
      BY <2>0, <2>2 DEF IInv, TypeOK, Tasks, PinSteps, UsbSteps, TmrSteps, StoreRunning,
         Goto,
         target, edge, host
    <2>3. CASE ~(~want[t].boot \/ ~want[t].rst) /\ ~rising[t]
      <3>1. Return(t) /\ UNCHANGED s_target_running
        BY <2>3 DEF StoreRunning
      <3> QED BY <3>1 DEF IInv, TypeOK, Tasks, PinSteps, UsbSteps, TmrSteps, StoreRunning,
            Return, Goto, target, edge, host
    <2> QED BY <2>1, <2>2, <2>3
  <1>2. PadNeverStranded'
    BY DEF IInv, TypeOK, Tasks, Timers, PinSteps, UsbSteps, TmrSteps, PadNeverStranded,
       StoreRunning, Goto, Return, Normal
  <1>3. CallInv'
    BY DEF IInv, TypeOK, Tasks, Timers, PinSteps, UsbSteps, TmrSteps, EarlySteps, CallInv,
       host, StoreRunning, Goto, Return, Normal
  <1>4. SessionInv'
    BY DEF IInv, TypeOK, Tasks, Timers, PinSteps, UsbSteps, TmrSteps, EarlySteps, CallInv,
       SessionInv, ResetActive, StoreRunning, Goto, Return, Normal
  <1>5. LowInv'
    <2>1. /\ UNCHANGED <<rst, line, armed, ret>> /\ pc[t] = "tx"
          /\ \A u \in Tasks : u # t => pc'[u] = pc[u]
      BY DEF IInv, TypeOK, StoreRunning, Goto, Return, target, host
    <2>2. t = "usb" => pc'["usb"] # "idle" \/ ret = "idle"
      BY DEF IInv, TypeOK, Tasks, StoreRunning, Goto, Return
    <2> QED BY <2>1, <2>2 DEF IInv, Tasks, LowInv, ResetActive
  <1>6. QuietInv'
    BY DEF IInv, TypeOK, Tasks, Timers, PinSteps, UsbSteps, TmrSteps, EarlySteps, CallInv,
       SessionInv, QuietInv, ResetActive, StoreRunning, Goto, Return, Normal
  <1>7. RunInv'
    BY DEF IInv, TypeOK, Tasks, Timers, PinSteps, UsbSteps, TmrSteps, EarlySteps,
       CallInv, RunInv, Stopping, InPins, StoreRunning, Goto, Return, Normal,
       target, edge, host
  <1> QED BY <1>1, <1>2, <1>3, <1>4, <1>5, <1>6, <1>7 DEF IInv

(* The pad is attached and its release timer restarted. *)
LEMMA AcquireInv == ASSUME IInv, NEW t \in Tasks, Acquire(t) PROVE IInv'
  <1>1. TypeOK'
    BY DEF IInv, TypeOK, Tasks, Timers, PinSteps, UsbSteps, TmrSteps, Acquire, Goto,
       Return, Normal, target, edge, host
  <1>2. PadNeverStranded'
    BY DEF IInv, TypeOK, Tasks, Timers, PinSteps, UsbSteps, TmrSteps, PadNeverStranded,
       Acquire, Goto, Return, Normal
  <1>3. CallInv'
    BY DEF IInv, TypeOK, Tasks, Timers, PinSteps, UsbSteps, TmrSteps, EarlySteps, CallInv,
       host, Acquire, Goto, Return, Normal
  <1>4. SessionInv'
    BY DEF IInv, TypeOK, Tasks, Timers, PinSteps, UsbSteps, TmrSteps, EarlySteps, CallInv,
       SessionInv, ResetActive, Acquire, Goto, Return, Normal
  <1>5. LowInv'
    BY DEF IInv, TypeOK, Tasks, Timers, PinSteps, UsbSteps, TmrSteps, EarlySteps, CallInv,
       LowInv, ResetActive, target, host, Acquire, Goto, Return, Normal
  <1>6. QuietInv'
    BY DEF IInv, TypeOK, Tasks, Timers, PinSteps, UsbSteps, TmrSteps, EarlySteps, CallInv,
       SessionInv, QuietInv, ResetActive, Acquire, Goto, Return, Normal
  <1>7. RunInv'
    BY DEF IInv, TypeOK, Tasks, Timers, PinSteps, UsbSteps, TmrSteps, EarlySteps,
       CallInv, RunInv, Stopping, InPins, Acquire, Goto, Return, Normal, target,
       edge, host
  <1> QED BY <1>1, <1>2, <1>3, <1>4, <1>5, <1>6, <1>7 DEF IInv

(* The release timer is restarted. *)
LEMMA RearmInv == ASSUME IInv, NEW t \in Tasks, Rearm(t) PROVE IInv'
  <1>1. TypeOK'
    BY DEF IInv, TypeOK, Tasks, Timers, PinSteps, UsbSteps, TmrSteps, Rearm, Goto, Return,
       target, edge, host
  <1>2. PadNeverStranded'
    BY DEF IInv, TypeOK, Tasks, Timers, PinSteps, UsbSteps, TmrSteps, PadNeverStranded,
       Rearm, Goto, Return
  <1>3. CallInv'
    BY DEF IInv, TypeOK, Tasks, Timers, PinSteps, UsbSteps, TmrSteps, EarlySteps, CallInv,
       host, Rearm, Goto, Return
  <1>4. SessionInv'
    BY DEF IInv, TypeOK, Tasks, Timers, PinSteps, UsbSteps, TmrSteps, EarlySteps, CallInv,
       SessionInv, ResetActive, Rearm, Goto, Return
  <1>5. LowInv'
    BY DEF IInv, TypeOK, Tasks, Timers, PinSteps, UsbSteps, TmrSteps, EarlySteps, CallInv,
       LowInv, ResetActive, target, host, Rearm, Goto, Return
  <1>6. QuietInv'
    BY DEF IInv, TypeOK, Tasks, Timers, PinSteps, UsbSteps, TmrSteps, EarlySteps, CallInv,
       SessionInv, QuietInv, ResetActive, Rearm, Goto, Return
  <1>7. RunInv'
    BY DEF IInv, TypeOK, Tasks, Timers, PinSteps, UsbSteps, TmrSteps, EarlySteps,
       CallInv, RunInv, Stopping, InPins, Rearm, Goto, Return, target, edge, host,
       Normal
  <1> QED BY <1>1, <1>2, <1>3, <1>4, <1>5, <1>6, <1>7 DEF IInv

-----------------------------------------------------------------------------
(* The TinyUSB task *)

(* A new line state stops the timer only to set the pins itself. *)
LEMMA LineStateInv == ASSUME IInv, NEW l \in LineStates, LineState(l[1], l[2]) PROVE IInv'
  <1>1. TypeOK'
    <2>0. /\ Settled \in [Timers -> {"off", "fresh", "armed"}]
          /\ [Settled EXCEPT !["state_change"] = "fresh"] \in [Timers -> {"off", "fresh", "armed"}]
          /\ [Settled EXCEPT !["state_change"] = "off"] \in [Timers -> {"off", "fresh", "armed"}]
      <3>1. Settled \in [Timers -> {"off", "fresh", "armed"}]
        BY DEF IInv, TypeOK, Settled
      <3> HIDE DEF Settled
      <3> QED BY <3>1
    <2>1. l[1] \in BOOLEAN /\ l[2] \in BOOLEAN
      BY LineStatesAssumption
    <2>2. line' \in BOOLEAN \X BOOLEAN /\ owner' \in {"host", "flash"}
      BY <2>1 DEF LineState
    <2>3. CASE l[1] /\ l[2]
      BY <2>0, <2>2, <2>3 DEF IInv, TypeOK, LineState, target, edge
    <2>4. CASE ~(l[1] /\ l[2])
      <3>1. armed' \in [Timers -> {"off", "fresh", "armed"}]
        BY <2>0, <2>4 DEF LineState
      <3>2. Levels(l[1], l[2]) \in [boot : BOOLEAN, rst : BOOLEAN]
        BY <2>1 DEF Levels
      <3>3. want' \in [Tasks -> [boot : BOOLEAN, rst : BOOLEAN]]
        BY <2>4, <3>2 DEF IInv, TypeOK, LineState
      <3>4. /\ pc' \in [Tasks -> PinSteps \cup UsbSteps \cup TmrSteps \cup {"idle"}]
            /\ pc'["usb"] \notin TmrSteps /\ pc'["tmr"] \notin UsbSteps
        BY <2>4 DEF IInv, TypeOK, Tasks, PinSteps, UsbSteps, TmrSteps, LineState, Goto
      <3>5. ret' = "idle" /\ overtaken' \in BOOLEAN
        BY <2>4 DEF LineState
      <3>6. UNCHANGED <<rst, boot, mode, s_prev_rst, rising, s_target_running, attached, mutex,
                        is_flashing, fifo, cb>>
        BY <2>4 DEF LineState, target, edge
      <3>7. TypeOK
        BY DEF IInv
      <3> QED BY ONLY <2>2, <3>1, <3>3, <3>4, <3>5, <3>6, <3>7 DEF TypeOK
    <2> QED BY <2>3, <2>4
  <1>2. PadNeverStranded'
    BY DEF IInv, TypeOK, Tasks, Timers, PinSteps, UsbSteps, TmrSteps, PadNeverStranded,
       LineState, Goto, Settled, Resetting, Levels
  <1>3. CallInv'
    BY DEF IInv, TypeOK, Tasks, Timers, PinSteps, UsbSteps, TmrSteps, EarlySteps, CallInv,
       host, LineState, Goto, Settled, Resetting, Levels
  <1>4. SessionInv'
    BY DEF IInv, TypeOK, Tasks, Timers, PinSteps, UsbSteps, TmrSteps, EarlySteps, CallInv,
       SessionInv, ResetActive, LineState, Goto, Settled, Resetting, Levels
  <1>5. LowInv'
    BY DEF IInv, TypeOK, Tasks, Timers, PinSteps, UsbSteps, TmrSteps, EarlySteps, CallInv,
       LowInv, ResetActive, target, host, LineState, Goto, Settled, Resetting, Levels
  <1>6. QuietInv'
    BY DEF IInv, TypeOK, Tasks, Timers, PinSteps, UsbSteps, TmrSteps, EarlySteps, CallInv,
       SessionInv, QuietInv, ResetActive, LineState, Goto, Settled, Resetting, Levels
  <1>7. RunInv'
    BY DEF IInv, TypeOK, Tasks, Timers, PinSteps, UsbSteps, TmrSteps, EarlySteps,
       CallInv, RunInv, Stopping, InPins, LineState, Goto, Settled, Resetting,
       Levels, target, edge, host, Normal
  <1> QED BY <1>1, <1>2, <1>3, <1>4, <1>5, <1>6, <1>7 DEF IInv

(* Bytes for the target. *)
LEMMA SendInv == ASSUME IInv, Send PROVE IInv'
  <1>1. TypeOK'
    BY DEF IInv, TypeOK, Tasks, Timers, PinSteps, UsbSteps, TmrSteps, Send, Goto, Settled,
       target, edge, host
  <1>2. PadNeverStranded'
    BY DEF IInv, TypeOK, Tasks, Timers, PinSteps, UsbSteps, TmrSteps, PadNeverStranded,
       Send, Goto, Settled
  <1>3. CallInv'
    BY DEF IInv, TypeOK, Tasks, Timers, PinSteps, UsbSteps, TmrSteps, EarlySteps, CallInv,
       host, Send, Goto, Settled
  <1>4. SessionInv'
    BY DEF IInv, TypeOK, Tasks, Timers, PinSteps, UsbSteps, TmrSteps, EarlySteps, CallInv,
       SessionInv, ResetActive, Send, Goto, Settled
  <1>5. LowInv'
    BY DEF IInv, TypeOK, Tasks, Timers, PinSteps, UsbSteps, TmrSteps, EarlySteps, CallInv,
       LowInv, ResetActive, target, host, Send, Goto, Settled
  <1>6. QuietInv'
    BY DEF IInv, TypeOK, Tasks, Timers, PinSteps, UsbSteps, TmrSteps, EarlySteps, CallInv,
       SessionInv, QuietInv, ResetActive, Send, Goto, Settled
  <1>7. RunInv'
    BY DEF IInv, TypeOK, Tasks, Timers, PinSteps, UsbSteps, TmrSteps, EarlySteps,
       CallInv, RunInv, Stopping, InPins, Send, Goto, Settled, target, edge, host,
       Normal
  <1> QED BY <1>1, <1>2, <1>3, <1>4, <1>5, <1>6, <1>7 DEF IInv

(* Bytes for the target. *)
LEMMA WriteBytesInv == ASSUME IInv, WriteBytes PROVE IInv'
  <1>1. TypeOK'
    BY DEF IInv, TypeOK, Tasks, PinSteps, UsbSteps, TmrSteps, WriteBytes, Goto, target,
       edge, host
  <1>2. PadNeverStranded'
    BY DEF IInv, TypeOK, Tasks, Timers, PinSteps, UsbSteps, TmrSteps, PadNeverStranded,
       WriteBytes, Goto
  <1>3. CallInv'
    BY DEF IInv, TypeOK, Tasks, Timers, PinSteps, UsbSteps, TmrSteps, EarlySteps, CallInv,
       host, WriteBytes, Goto
  <1>4. SessionInv'
    BY DEF IInv, TypeOK, Tasks, Timers, PinSteps, UsbSteps, TmrSteps, EarlySteps, CallInv,
       SessionInv, ResetActive, WriteBytes, Goto
  <1>5. LowInv'
    BY DEF IInv, TypeOK, Tasks, Timers, PinSteps, UsbSteps, TmrSteps, EarlySteps, CallInv,
       LowInv, ResetActive, target, host, WriteBytes, Goto
  <1>6. QuietInv'
    BY DEF IInv, TypeOK, Tasks, Timers, PinSteps, UsbSteps, TmrSteps, EarlySteps, CallInv,
       SessionInv, QuietInv, ResetActive, WriteBytes, Goto
  <1>7. RunInv'
    BY DEF IInv, TypeOK, Tasks, Timers, PinSteps, UsbSteps, TmrSteps, EarlySteps,
       CallInv, RunInv, Stopping, InPins, WriteBytes, Goto, target, edge, host,
       Normal
  <1> QED BY <1>1, <1>2, <1>3, <1>4, <1>5, <1>6, <1>7 DEF IInv

(* A session begins with the reset timer at rest. *)
LEMMA ConnectInv == ASSUME IInv, Connect PROVE IInv'
  <1>1. TypeOK'
    BY DEF IInv, TypeOK, Tasks, Timers, PinSteps, UsbSteps, TmrSteps, Connect, MayConnect,
       Goto, Settled, target, edge, host
  <1>2. PadNeverStranded'
    BY DEF IInv, TypeOK, Tasks, Timers, PinSteps, UsbSteps, TmrSteps, PadNeverStranded,
       Connect, MayConnect, Goto, Settled
  <1>3. CallInv'
    BY DEF IInv, TypeOK, Tasks, Timers, PinSteps, UsbSteps, TmrSteps, EarlySteps, CallInv,
       host, Connect, MayConnect, Goto, Settled
  <1>4. SessionInv'
    BY DEF IInv, TypeOK, Tasks, Timers, PinSteps, UsbSteps, TmrSteps, EarlySteps, CallInv,
       SessionInv, ResetActive, Connect, MayConnect, Goto, Settled
  <1>5. LowInv'
    BY DEF IInv, TypeOK, Tasks, Timers, PinSteps, UsbSteps, TmrSteps, EarlySteps, CallInv,
       LowInv, ResetActive, target, host, Connect, MayConnect, Goto, Settled
  <1>6. QuietInv'
    BY DEF IInv, TypeOK, Tasks, Timers, PinSteps, UsbSteps, TmrSteps, EarlySteps, CallInv,
       SessionInv, QuietInv, ResetActive, Connect, MayConnect, Goto, Settled
  <1>7. RunInv'
    BY DEF IInv, TypeOK, Tasks, Timers, PinSteps, UsbSteps, TmrSteps, EarlySteps,
       CallInv, RunInv, Stopping, InPins, Connect, MayConnect, Goto, Settled,
       target, edge, host, Normal
  <1> QED BY <1>1, <1>2, <1>3, <1>4, <1>5, <1>6, <1>7 DEF IInv

(* A session begins. *)
LEMMA ClaimInv == ASSUME IInv, Claim PROVE IInv'
  <1>1. TypeOK'
    BY DEF IInv, TypeOK, Tasks, PinSteps, UsbSteps, TmrSteps, Claim, Goto, target, edge,
       host
  <1>2. PadNeverStranded'
    BY DEF IInv, TypeOK, Tasks, Timers, PinSteps, UsbSteps, TmrSteps, PadNeverStranded,
       Claim, Goto
  <1>3. CallInv'
    BY DEF IInv, TypeOK, Tasks, Timers, PinSteps, UsbSteps, TmrSteps, EarlySteps, CallInv,
       host, Claim, Goto
  <1>4. SessionInv'
    BY DEF IInv, TypeOK, Tasks, Timers, PinSteps, UsbSteps, TmrSteps, EarlySteps, CallInv,
       SessionInv, ResetActive, Claim, Goto
  <1>5. LowInv'
    BY DEF IInv, TypeOK, Tasks, Timers, PinSteps, UsbSteps, TmrSteps, EarlySteps, CallInv,
       LowInv, ResetActive, target, host, Claim, Goto
  <1>6. QuietInv'
    BY DEF IInv, TypeOK, Tasks, Timers, PinSteps, UsbSteps, TmrSteps, EarlySteps, CallInv,
       SessionInv, QuietInv, ResetActive, Claim, Goto
  <1>7. RunInv'
    BY DEF IInv, TypeOK, Tasks, Timers, PinSteps, UsbSteps, TmrSteps, EarlySteps,
       CallInv, RunInv, Stopping, InPins, Claim, Goto, target, edge, host, Normal
  <1> QED BY <1>1, <1>2, <1>3, <1>4, <1>5, <1>6, <1>7 DEF IInv

(* The loader resets the target. *)
LEMMA LoaderPulseInv == ASSUME IInv, LoaderPulse PROVE IInv'
  <1>1. TypeOK'
    <2>1. /\ boot' = FALSE /\ rst' = FALSE /\ mode' = "reset" /\ pc' = [pc EXCEPT !["usb"] = "sync"]
          /\ UNCHANGED <<s_prev_rst, rising, s_target_running, attached, mutex, armed>>
          /\ UNCHANGED <<is_flashing, fifo, want, ret, cb, line, owner, overtaken>>
      BY DEF LoaderPulse, Goto, edge, host
    <2>2. /\ pc' \in [Tasks -> PinSteps \cup UsbSteps \cup TmrSteps \cup {"idle"}]
          /\ pc'["usb"] \notin TmrSteps /\ pc'["tmr"] \notin UsbSteps
      BY <2>1 DEF IInv, TypeOK, Tasks, PinSteps, UsbSteps, TmrSteps
    <2>3. boot' \in BOOLEAN /\ rst' \in BOOLEAN /\ mode' \in {"run", "download", "reset"}
      BY <2>1
    <2>4. TypeOK
      BY DEF IInv
    <2> QED BY ONLY <2>1, <2>2, <2>3, <2>4 DEF TypeOK
  <1>2. PadNeverStranded'
    BY DEF IInv, TypeOK, Tasks, Timers, PinSteps, UsbSteps, TmrSteps, PadNeverStranded,
       LoaderPulse, Goto
  <1>3. CallInv'
    BY DEF IInv, TypeOK, Tasks, Timers, PinSteps, UsbSteps, TmrSteps, EarlySteps, CallInv,
       host, LoaderPulse, Goto
  <1>4. SessionInv'
    BY DEF IInv, TypeOK, Tasks, Timers, PinSteps, UsbSteps, TmrSteps, EarlySteps, CallInv,
       SessionInv, ResetActive, LoaderPulse, Goto
  <1>5. LowInv'
    BY DEF IInv, TypeOK, Tasks, Timers, PinSteps, UsbSteps, TmrSteps, EarlySteps, CallInv,
       LowInv, ResetActive, target, host, LoaderPulse, Goto
  <1>6. QuietInv'
    BY DEF IInv, TypeOK, Tasks, Timers, PinSteps, UsbSteps, TmrSteps, EarlySteps, CallInv,
       SessionInv, QuietInv, ResetActive, LoaderPulse, Goto
  <1>7. RunInv'
    BY DEF IInv, TypeOK, Tasks, Timers, PinSteps, UsbSteps, TmrSteps, EarlySteps,
       CallInv, SessionInv, RunInv, Stopping, InPins, LoaderPulse, Goto, target, edge, host,
       Normal
  <1> QED BY <1>1, <1>2, <1>3, <1>4, <1>5, <1>6, <1>7 DEF IInv

(* The loader releases the target. *)
LEMMA LoaderSyncInv == ASSUME IInv, LoaderSync PROVE IInv'
  <1>1. TypeOK'
    BY DEF IInv, TypeOK, Tasks, PinSteps, UsbSteps, TmrSteps, LoaderSync, Goto, AfterReset,
       target, edge, host
  <1>2. PadNeverStranded'
    BY DEF IInv, TypeOK, Tasks, Timers, PinSteps, UsbSteps, TmrSteps, PadNeverStranded,
       LoaderSync, Goto, AfterReset
  <1>3. CallInv'
    BY DEF IInv, TypeOK, Tasks, Timers, PinSteps, UsbSteps, TmrSteps, EarlySteps, CallInv,
       host, LoaderSync, Goto, AfterReset
  <1>4. SessionInv'
    BY DEF IInv, TypeOK, Tasks, Timers, PinSteps, UsbSteps, TmrSteps, EarlySteps, CallInv,
       SessionInv, ResetActive, LoaderSync, Goto, AfterReset
  <1>5. LowInv'
    BY DEF IInv, TypeOK, Tasks, Timers, PinSteps, UsbSteps, TmrSteps, EarlySteps, CallInv,
       LowInv, ResetActive, target, host, LoaderSync, Goto, AfterReset
  <1>6. QuietInv'
    BY DEF IInv, TypeOK, Tasks, Timers, PinSteps, UsbSteps, TmrSteps, EarlySteps, CallInv,
       SessionInv, QuietInv, ResetActive, LoaderSync, Goto, AfterReset
  <1>7. RunInv'
    BY DEF IInv, TypeOK, Tasks, Timers, PinSteps, UsbSteps, TmrSteps, EarlySteps,
       CallInv, SessionInv, RunInv, Stopping, InPins, LoaderSync, Goto, AfterReset, target,
       edge, host, Normal
  <1> QED BY <1>1, <1>2, <1>3, <1>4, <1>5, <1>6, <1>7 DEF IInv

(* A session goes on. *)
LEMMA LoaderCommandInv == ASSUME IInv, LoaderCommand PROVE IInv'
  <1>1. TypeOK'
    BY DEF IInv, TypeOK, Tasks, Timers, PinSteps, UsbSteps, TmrSteps, LoaderCommand,
       Settled, target, edge, host
  <1>2. PadNeverStranded'
    BY DEF IInv, TypeOK, Tasks, Timers, PinSteps, UsbSteps, TmrSteps, PadNeverStranded,
       LoaderCommand, Settled
  <1>3. CallInv'
    BY DEF IInv, TypeOK, Tasks, Timers, PinSteps, UsbSteps, TmrSteps, EarlySteps, CallInv,
       host, LoaderCommand, Settled
  <1>4. SessionInv'
    BY DEF IInv, TypeOK, Tasks, Timers, PinSteps, UsbSteps, TmrSteps, EarlySteps, CallInv,
       SessionInv, ResetActive, LoaderCommand, Settled
  <1>5. LowInv'
    BY DEF IInv, TypeOK, Tasks, Timers, PinSteps, UsbSteps, TmrSteps, EarlySteps, CallInv,
       LowInv, ResetActive, target, host, LoaderCommand, Settled
  <1>6. QuietInv'
    BY DEF IInv, TypeOK, Tasks, Timers, PinSteps, UsbSteps, TmrSteps, EarlySteps, CallInv,
       SessionInv, QuietInv, ResetActive, LoaderCommand, Settled
  <1>7. RunInv'
    BY DEF IInv, TypeOK, Tasks, Timers, PinSteps, UsbSteps, TmrSteps, EarlySteps,
       CallInv, RunInv, Stopping, InPins, LoaderCommand, Settled, target, edge,
       host, Normal
  <1> QED BY <1>1, <1>2, <1>3, <1>4, <1>5, <1>6, <1>7 DEF IInv

(* A session ends with the reset timer still at rest. *)
LEMMA FinishInv == ASSUME IInv, Finish PROVE IInv'
  <1>1. TypeOK'
    <2>1. is_flashing' \in BOOLEAN
      BY Zenon DEF Finish
    <2>2. overtaken' \in BOOLEAN
      BY SMT DEF Finish, InPins
    <2> QED BY <2>1, <2>2 DEF IInv, TypeOK, Tasks, Timers, PinSteps, UsbSteps, TmrSteps, Finish,
          Goto, Settled, target, edge
  <1>2. PadNeverStranded'
    BY DEF IInv, TypeOK, Tasks, Timers, PinSteps, UsbSteps, TmrSteps, PadNeverStranded,
       Finish, Goto, Settled
  <1>3. CallInv'
    BY DEF IInv, TypeOK, Tasks, Timers, PinSteps, UsbSteps, TmrSteps, EarlySteps, CallInv,
       host, Finish, Goto, Settled
  <1>4. SessionInv'
    BY DEF IInv, TypeOK, Tasks, Timers, PinSteps, UsbSteps, TmrSteps, EarlySteps, CallInv,
       SessionInv, ResetActive, Finish, Goto, Settled
  <1>5. LowInv'
    BY DEF IInv, TypeOK, Tasks, Timers, PinSteps, UsbSteps, TmrSteps, EarlySteps, CallInv,
       LowInv, ResetActive, target, host, Finish, Goto, Settled
  <1>6. QuietInv'
    BY DEF IInv, TypeOK, Tasks, Timers, PinSteps, UsbSteps, TmrSteps, EarlySteps, CallInv,
       SessionInv, QuietInv, ResetActive, Finish, Goto, Settled
  <1>7. RunInv'
    BY DEF IInv, TypeOK, Tasks, Timers, PinSteps, UsbSteps, TmrSteps, EarlySteps,
       CallInv, RunInv, Stopping, InPins, Finish, Goto, Settled, target, edge,
       host, Normal
  <1> QED BY <1>1, <1>2, <1>3, <1>4, <1>5, <1>6, <1>7 DEF IInv

(* The reset timer takes over the raising of RST. *)
LEMMA ArmResetInv == ASSUME IInv, ArmReset PROVE IInv'
  <1>1. TypeOK'
    BY DEF IInv, TypeOK, Tasks, Timers, PinSteps, UsbSteps, TmrSteps, ArmReset, Goto,
       target, edge, host
  <1>2. PadNeverStranded'
    BY DEF IInv, TypeOK, Tasks, Timers, PinSteps, UsbSteps, TmrSteps, PadNeverStranded,
       ArmReset, Goto
  <1>3. CallInv'
    BY DEF IInv, TypeOK, Tasks, Timers, PinSteps, UsbSteps, TmrSteps, EarlySteps, CallInv,
       host, ArmReset, Goto
  <1>4. SessionInv'
    BY DEF IInv, TypeOK, Tasks, Timers, PinSteps, UsbSteps, TmrSteps, EarlySteps, CallInv,
       SessionInv, ResetActive, ArmReset, Goto
  <1>5. LowInv'
    BY DEF IInv, TypeOK, Tasks, Timers, PinSteps, UsbSteps, TmrSteps, EarlySteps, CallInv,
       LowInv, ResetActive, target, host, ArmReset, Goto
  <1>6. QuietInv'
    BY DEF IInv, TypeOK, Tasks, Timers, PinSteps, UsbSteps, TmrSteps, EarlySteps, CallInv,
       SessionInv, QuietInv, ResetActive, ArmReset, Goto
  <1>7. RunInv'
    BY DEF IInv, TypeOK, Tasks, Timers, PinSteps, UsbSteps, TmrSteps, EarlySteps,
       CallInv, RunInv, Stopping, InPins, ArmReset, Goto, target, edge, host,
       Normal
  <1> QED BY <1>1, <1>2, <1>3, <1>4, <1>5, <1>6, <1>7 DEF IInv

-----------------------------------------------------------------------------
(* The esp_timer task and the UART *)

(* The callback takes over what its timer stood for. *)
LEMMA PinsTimerInv == ASSUME IInv, NEW x \in Timers, PinsTimer(x) PROVE IInv'
  <1>1. TypeOK'
    BY DEF IInv, TypeOK, Tasks, Timers, PinSteps, UsbSteps, TmrSteps, PinsTimer, Dispatch,
       Expires, Normal, Goto, target, edge, host
  <1>2. PadNeverStranded'
    BY DEF IInv, TypeOK, Tasks, Timers, PinSteps, UsbSteps, TmrSteps, PadNeverStranded,
       PinsTimer, Dispatch, Expires, Normal, Goto
  <1>3. CallInv'
    BY DEF IInv, TypeOK, Tasks, Timers, PinSteps, UsbSteps, TmrSteps, EarlySteps, CallInv,
       host, PinsTimer, Dispatch, Expires, Normal, Goto
  <1>4. SessionInv'
    BY DEF IInv, TypeOK, Tasks, Timers, PinSteps, UsbSteps, TmrSteps, EarlySteps, CallInv,
       SessionInv, ResetActive, PinsTimer, Dispatch, Expires, Normal, Goto
  <1>5. LowInv'
    BY DEF IInv, TypeOK, Tasks, Timers, PinSteps, UsbSteps, TmrSteps, EarlySteps, CallInv,
       LowInv, ResetActive, target, host, PinsTimer, Dispatch, Expires, Normal, Goto
  <1>6. QuietInv'
    BY DEF IInv, TypeOK, Tasks, Timers, PinSteps, UsbSteps, TmrSteps, EarlySteps, CallInv,
       SessionInv, QuietInv, ResetActive, PinsTimer, Dispatch, Expires, Normal, Goto
  <1>7. RunInv'
    <2>1. /\ UNCHANGED <<boot, rst, mode, s_prev_rst, rising, s_target_running, is_flashing>>
          /\ overtaken' = (overtaken \/ InPins("usb"))
      BY DEF PinsTimer, Dispatch, target, edge
    <2>2. /\ pc["tmr"] = "idle" /\ pc'["tmr"] = "boot" /\ pc'["usb"] = pc["usb"]
          /\ want'["usb"] = want["usb"]
      BY DEF IInv, TypeOK, Tasks, PinsTimer, Dispatch, Goto
    <2>3. InPins("usb")' = InPins("usb") /\ Stopping' = Stopping
      BY <2>2 DEF InPins, Stopping
    <2>4. InPins("usb")' => overtaken'
      BY <2>1, <2>3
    <2>5. RunInv
      BY DEF IInv
    <2> QED BY ONLY <2>1, <2>2, <2>3, <2>4, <2>5 DEF RunInv, Tasks
  <1> QED BY <1>1, <1>2, <1>3, <1>4, <1>5, <1>6, <1>7 DEF IInv

(* The callback takes over what its timer stood for. *)
LEMMA ReleaseTimerInv == ASSUME IInv, ReleaseTimer PROVE IInv'
  <1>1. TypeOK'
    BY DEF IInv, TypeOK, Tasks, Timers, PinSteps, UsbSteps, TmrSteps, ReleaseTimer,
       Dispatch, Expires, Goto, target, edge, host
  <1>2. PadNeverStranded'
    BY DEF IInv, TypeOK, Tasks, Timers, PinSteps, UsbSteps, TmrSteps, PadNeverStranded,
       ReleaseTimer, Dispatch, Expires, Goto
  <1>3. CallInv'
    BY DEF IInv, TypeOK, Tasks, Timers, PinSteps, UsbSteps, TmrSteps, EarlySteps, CallInv,
       host, ReleaseTimer, Dispatch, Expires, Goto
  <1>4. SessionInv'
    BY DEF IInv, TypeOK, Tasks, Timers, PinSteps, UsbSteps, TmrSteps, EarlySteps, CallInv,
       SessionInv, ResetActive, ReleaseTimer, Dispatch, Expires, Goto
  <1>5. LowInv'
    BY DEF IInv, TypeOK, Tasks, Timers, PinSteps, UsbSteps, TmrSteps, EarlySteps, CallInv,
       LowInv, ResetActive, target, host, ReleaseTimer, Dispatch, Expires, Goto
  <1>6. QuietInv'
    BY DEF IInv, TypeOK, Tasks, Timers, PinSteps, UsbSteps, TmrSteps, EarlySteps, CallInv,
       SessionInv, QuietInv, ResetActive, ReleaseTimer, Dispatch, Expires, Goto
  <1>7. RunInv'
    BY DEF IInv, TypeOK, Tasks, Timers, PinSteps, UsbSteps, TmrSteps, EarlySteps,
       CallInv, RunInv, Stopping, InPins, ReleaseTimer, Dispatch, Expires, Goto,
       target, edge, host, Normal
  <1> QED BY <1>1, <1>2, <1>3, <1>4, <1>5, <1>6, <1>7 DEF IInv

(* The release goes on only where it may. *)
LEMMA CheckInv == ASSUME IInv, Check PROVE IInv'
  <1>1. TypeOK'
    BY DEF IInv, TypeOK, Tasks, Timers, PinSteps, UsbSteps, TmrSteps, Check, MayRelease,
       Defer, Goto, target, edge, host
  <1>2. PadNeverStranded'
    BY DEF IInv, TypeOK, Tasks, Timers, PinSteps, UsbSteps, TmrSteps, PadNeverStranded,
       Check, MayRelease, Defer, Goto
  <1>3. CallInv'
    BY DEF IInv, TypeOK, Tasks, Timers, PinSteps, UsbSteps, TmrSteps, EarlySteps, CallInv,
       host, Check, MayRelease, Defer, Goto
  <1>4. SessionInv'
    BY DEF IInv, TypeOK, Tasks, Timers, PinSteps, UsbSteps, TmrSteps, EarlySteps, CallInv,
       SessionInv, ResetActive, Check, MayRelease, Defer, Goto
  <1>5. LowInv'
    BY DEF IInv, TypeOK, Tasks, Timers, PinSteps, UsbSteps, TmrSteps, EarlySteps, CallInv,
       LowInv, ResetActive, target, host, Check, MayRelease, Defer, Goto
  <1>6. QuietInv'
    BY DEF IInv, TypeOK, Tasks, Timers, PinSteps, UsbSteps, TmrSteps, EarlySteps, CallInv,
       SessionInv, QuietInv, ResetActive, Check, MayRelease, Defer, Goto
  <1>7. RunInv'
    BY DEF IInv, TypeOK, Tasks, Timers, PinSteps, UsbSteps, TmrSteps, EarlySteps,
       CallInv, RunInv, Stopping, InPins, Check, MayRelease, Defer, Goto, target,
       edge, host, Normal
  <1> QED BY <1>1, <1>2, <1>3, <1>4, <1>5, <1>6, <1>7 DEF IInv

(* The release is deferred or goes on. *)
LEMMA WaitTxDoneInv == ASSUME IInv, WaitTxDone PROVE IInv'
  <1>1. TypeOK'
    BY DEF IInv, TypeOK, Tasks, Timers, PinSteps, UsbSteps, TmrSteps, WaitTxDone, TxDone,
       Defer, Goto, target, edge, host
  <1>2. PadNeverStranded'
    BY DEF IInv, TypeOK, Tasks, Timers, PinSteps, UsbSteps, TmrSteps, PadNeverStranded,
       WaitTxDone, TxDone, Defer, Goto
  <1>3. CallInv'
    BY DEF IInv, TypeOK, Tasks, Timers, PinSteps, UsbSteps, TmrSteps, EarlySteps, CallInv,
       host, WaitTxDone, TxDone, Defer, Goto
  <1>4. SessionInv'
    BY DEF IInv, TypeOK, Tasks, Timers, PinSteps, UsbSteps, TmrSteps, EarlySteps, CallInv,
       SessionInv, ResetActive, WaitTxDone, TxDone, Defer, Goto
  <1>5. LowInv'
    BY DEF IInv, TypeOK, Tasks, Timers, PinSteps, UsbSteps, TmrSteps, EarlySteps, CallInv,
       LowInv, ResetActive, target, host, WaitTxDone, TxDone, Defer, Goto
  <1>6. QuietInv'
    BY DEF IInv, TypeOK, Tasks, Timers, PinSteps, UsbSteps, TmrSteps, EarlySteps, CallInv,
       SessionInv, QuietInv, ResetActive, WaitTxDone, TxDone, Defer, Goto
  <1>7. RunInv'
    BY DEF IInv, TypeOK, Tasks, Timers, PinSteps, UsbSteps, TmrSteps, EarlySteps,
       CallInv, RunInv, Stopping, InPins, WaitTxDone, TxDone, Defer, Goto, target,
       edge, host, Normal
  <1> QED BY <1>1, <1>2, <1>3, <1>4, <1>5, <1>6, <1>7 DEF IInv

(* The pad is let go. *)
LEMMA ReleaseInv == ASSUME IInv, Release PROVE IInv'
  <1>1. TypeOK'
    <2>1. attached' \in BOOLEAN
      BY Zenon DEF Release
    <2> QED BY <2>1 DEF IInv, TypeOK, Tasks, PinSteps, UsbSteps, TmrSteps, Release, Goto,
       target, edge, host
  <1>2. PadNeverStranded'
    BY DEF IInv, TypeOK, Tasks, Timers, PinSteps, UsbSteps, TmrSteps, PadNeverStranded,
       Release, Goto
  <1>3. CallInv'
    BY DEF IInv, TypeOK, Tasks, Timers, PinSteps, UsbSteps, TmrSteps, EarlySteps, CallInv,
       host, Release, Goto
  <1>4. SessionInv'
    BY DEF IInv, TypeOK, Tasks, Timers, PinSteps, UsbSteps, TmrSteps, EarlySteps, CallInv,
       SessionInv, ResetActive, Release, Goto
  <1>5. LowInv'
    BY DEF IInv, TypeOK, Tasks, Timers, PinSteps, UsbSteps, TmrSteps, EarlySteps, CallInv,
       LowInv, ResetActive, target, host, Release, Goto
  <1>6. QuietInv'
    BY DEF IInv, TypeOK, Tasks, Timers, PinSteps, UsbSteps, TmrSteps, EarlySteps, CallInv,
       SessionInv, QuietInv, ResetActive, Release, Goto
  <1>7. RunInv'
    BY DEF IInv, TypeOK, Tasks, Timers, PinSteps, UsbSteps, TmrSteps, EarlySteps,
       CallInv, RunInv, Stopping, InPins, Release, Goto, target, edge, host,
       Normal
  <1> QED BY <1>1, <1>2, <1>3, <1>4, <1>5, <1>6, <1>7 DEF IInv

(* The UART shifts on. *)
LEMMA DrainInv == ASSUME IInv, Drain PROVE IInv'
  <1>1. TypeOK'
    <2>1. fifo' \in BOOLEAN
      BY Zenon DEF Drain
    <2> QED BY <2>1 DEF IInv, TypeOK, Drain, target, edge, host
  <1>2. PadNeverStranded'
    BY DEF IInv, TypeOK, Tasks, Timers, PinSteps, UsbSteps, TmrSteps, PadNeverStranded,
       Drain
  <1>3. CallInv'
    BY DEF IInv, TypeOK, Tasks, Timers, PinSteps, UsbSteps, TmrSteps, EarlySteps, CallInv,
       host, Drain
  <1>4. SessionInv'
    BY DEF IInv, TypeOK, Tasks, Timers, PinSteps, UsbSteps, TmrSteps, EarlySteps, CallInv,
       SessionInv, ResetActive, Drain
  <1>5. LowInv'
    BY DEF IInv, TypeOK, Tasks, Timers, PinSteps, UsbSteps, TmrSteps, EarlySteps, CallInv,
       LowInv, ResetActive, target, host, Drain
  <1>6. QuietInv'
    BY DEF IInv, TypeOK, Tasks, Timers, PinSteps, UsbSteps, TmrSteps, EarlySteps, CallInv,
       SessionInv, QuietInv, ResetActive, Drain
  <1>7. RunInv'
    BY DEF IInv, TypeOK, Tasks, Timers, PinSteps, UsbSteps, TmrSteps, EarlySteps,
       CallInv, RunInv, Stopping, InPins, Drain, target, edge, host, Normal
  <1> QED BY <1>1, <1>2, <1>3, <1>4, <1>5, <1>6, <1>7 DEF IInv
-----------------------------------------------------------------------------
(* Nothing is at work at start. *)
LEMMA InitInv == Init => IInv
  <1> SUFFICES ASSUME Init PROVE IInv
    OBVIOUS
  <1>1. TypeOK
    <2>1. /\ boot \in BOOLEAN /\ rst \in BOOLEAN /\ s_prev_rst \in BOOLEAN
          /\ s_target_running \in BOOLEAN
      BY DEF Init
    <2>2. attached \in BOOLEAN /\ is_flashing \in BOOLEAN /\ fifo \in BOOLEAN
      BY Zenon DEF Init
    <2> QED BY <2>1, <2>2 DEF Init, TypeOK, Tasks, Timers, PinSteps, UsbSteps, TmrSteps
  <1>2. PadNeverStranded /\ SessionInv /\ LowInv
    BY DEF Init, PadNeverStranded, SessionInv, LowInv, ResetActive, Tasks, Timers
  <1>3. CallInv /\ QuietInv
    BY DEF Init, CallInv, QuietInv, ResetActive, Tasks, Timers, EarlySteps, PinSteps, TmrSteps
  <1>4. RunInv
    BY DEF Init, RunInv, InPins, EarlySteps, Tasks
  <1> QED BY <1>1, <1>2, <1>3, <1>4 DEF IInv

(* Every step of either task keeps the invariant. *)
LEMMA NextInv == ASSUME IInv, [Next]_vars PROVE IInv'
  <1>1. ASSUME NEW t \in Tasks, PinStep(t) PROVE IInv'
    BY <1>1, SetBootInv, SetRstInv, ReadPrevInv, WritePrevInv, StoreRunningInv, AcquireInv,
       RearmInv DEF PinStep
  <1>2. CASE UsbStep
    BY <1>1, <1>2, WriteBytesInv, ClaimInv, LoaderPulseInv, LoaderSyncInv, ArmResetInv
       DEF UsbStep, Tasks
  <1>3. CASE TmrStep
    BY <1>1, <1>3, CheckInv, WaitTxDoneInv, ReleaseInv DEF TmrStep, Tasks
  <1>4. CASE \E l \in LineStates : LineState(l[1], l[2])
    BY <1>4, LineStateInv
  <1>5. CASE Send \/ Connect \/ LoaderCommand \/ Finish
    BY <1>5, SendInv, ConnectInv, LoaderCommandInv, FinishInv
  <1>6. CASE (\E x \in Timers : PinsTimer(x)) \/ ReleaseTimer
    BY <1>6, PinsTimerInv, ReleaseTimerInv
  <1>7. CASE Drain
    BY <1>7, DrainInv
  <1>8. CASE UNCHANGED vars
    <2>1. TypeOK'
      BY <1>8 DEF vars, target, edge, host, IInv, TypeOK
    <2>2. PadNeverStranded' /\ SessionInv' /\ LowInv'
      BY <1>8 DEF vars, target, host, IInv, PadNeverStranded, SessionInv, LowInv, ResetActive
    <2>3. CallInv' /\ QuietInv'
      BY <1>8 DEF vars, target, host, IInv, CallInv, QuietInv, ResetActive
    <2>4. RunInv'
      BY <1>8 DEF vars, target, edge, host, IInv, RunInv, Stopping, InPins
    <2> QED BY <2>1, <2>2, <2>3, <2>4 DEF IInv
  <1> QED BY <1>2, <1>3, <1>4, <1>5, <1>6, <1>7, <1>8 DEF Next

(* The invariant holds in every reachable state. *)
THEOREM Invariant == Spec => []IInv
  <1>1. IInv /\ [Next]_vars => IInv'
    BY NextInv
  <1> QED BY InitInv, <1>1, PTL DEF Spec

(* The variables keep their types, and neither task strays into a step of  *)
(* the other, though both run serial_handler_set_boot_reset_pins.          *)
THEOREM TypeCorrect == Spec => []TypeOK
  <1>1. IInv => TypeOK
    BY DEF IInv
  <1> QED BY <1>1, Invariant, PTL

(* An attached TxD pad always has a release timer or a release callback    *)
(* that will look at it.                                                   *)
THEOREM PadSafe == Spec => []PadNeverStranded
  <1>1. IInv => PadNeverStranded
    BY DEF IInv
  <1> QED BY <1>1, Invariant, PTL

(* The bridge never forgets a target it holds in reset. *)
THEOREM ResetSafe == Spec => []NotLeftInReset
  <1>1. IInv => NotLeftInReset
    BY DEF IInv, LowInv, NotLeftInReset
  <1> QED BY <1>1, Invariant, PTL

(* esp_timer_start_once of serial_handler_flash_finish is never refused. *)
THEOREM ArmSafe == Spec => []ResetNeverRefused
  <1>1. IInv => ResetNeverRefused
    BY DEF IInv, CallInv, SessionInv, ResetNeverRefused
  <1> QED BY <1>1, Invariant, PTL

(* Only tx_release_locked lets the pad go. *)
LEMMA OnlyRelease == ASSUME [Next]_vars, attached, ~attached' PROVE Release
  <1>1. ASSUME NEW t \in Tasks, PinStep(t) PROVE FALSE
    BY <1>1 DEF PinStep, SetBoot, SetRst, ReadPrev, WritePrev, StoreRunning, Acquire, Rearm
  <1>2. ~UsbStep
    BY <1>1 DEF UsbStep, WriteBytes, Claim, LoaderPulse, LoaderSync, ArmReset, Tasks
  <1>3. CASE TmrStep
    BY <1>1, <1>3 DEF TmrStep, Check, WaitTxDone, Tasks
  <1>4. ASSUME NEW l \in LineStates PROVE ~LineState(l[1], l[2])
    BY DEF LineState
  <1>5. ~Send /\ ~Connect /\ ~LoaderCommand /\ ~Finish /\ ~Drain
    BY DEF Send, Connect, LoaderCommand, Finish, Drain
  <1>6. ~ReleaseTimer /\ \A x \in Timers : ~PinsTimer(x)
    BY DEF ReleaseTimer, PinsTimer, Dispatch
  <1>7. ~UNCHANGED vars
    BY DEF vars
  <1> QED BY <1>2, <1>3, <1>4, <1>5, <1>6, <1>7 DEF Next

(* serial_handler.c:138-139: between two USB callbacks the pad is let go   *)
(* only with no session open, no reset pulse running, s_target_running set *)
(* and the target out of reset and in its application, the last unless     *)
(* calls of serial_handler_set_boot_reset_pins have overlapped and no      *)
(* stop of the target has had the pins to itself since.                    *)
THEOREM ReleaseSafe == Spec => QuietRelease
  <1>1. IInv /\ [Next]_vars =>
          [attached /\ ~attached' /\ pc["usb"] = "idle" =>
              /\ ~is_flashing /\ ~ResetActive /\ s_target_running
              /\ mode = "run" \/ overtaken]_vars
    <2> SUFFICES ASSUME IInv, [Next]_vars, attached, ~attached', pc["usb"] = "idle"
                 PROVE  /\ ~is_flashing /\ ~ResetActive /\ s_target_running
                        /\ mode = "run" \/ overtaken
      OBVIOUS
    <2>1. pc["tmr"] = "release"
      BY OnlyRelease DEF Release
    <2>2. ~is_flashing /\ ~ResetActive /\ s_target_running
      BY <2>1 DEF IInv, QuietInv
    <2> QED BY <2>2 DEF IInv, RunInv, Stopping, InPins, EarlySteps
  <1> QED BY <1>1, Invariant, PTL DEF Spec, QuietRelease
=============================================================================
