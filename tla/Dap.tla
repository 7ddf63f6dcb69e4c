--------------------------------- MODULE Dap ---------------------------------
(***************************************************************************)
(* DAP_ProcessCommand of the SWD build: the port, its pins, the clock, and *)
(* the transfers of SwdTransfer between the other commands.  swd_task      *)
(* works on one command at a time.  Commands that change nothing but the   *)
(* levels of the lines or the answer (Info, HostStatus, Delay, SWJ_Pins,   *)
(* SWJ_Sequence, ResetTarget, vendor commands, those of JTAG and unknown   *)
(* ones) have no action here.                                              *)
(***************************************************************************)
EXTENDS SwdTransfer

CONSTANTS
    HalfClock,            \* CPU_CLOCK / 2
    WriteCycles,          \* IO_PORT_WRITE_CYCLES: 1
    SlowCycles,           \* DELAY_SLOW_CYCLES: 3
    FastCycles,           \* DELAY_FAST_CYCLES: 0
    DefaultClock,         \* DAP_DEFAULT_SWJ_CLOCK
    Clocks,               \* clocks a host may ask for
    MaxSequences          \* bound of the model: parts of an SWD sequence

ASSUME ClocksAssumption ==
    /\ HalfClock \in Nat \ {0} /\ WriteCycles \in Nat \ {0} /\ SlowCycles \in Nat \ {0}
    /\ FastCycles \in Nat /\ DefaultClock \in Nat \ {0} /\ Clocks \subseteq Nat
    /\ MaxSequences \in Nat

VARIABLES
    debug_port,           \* "disabled" or "SWD"
    s_debug_gpio_init, bundles,   \* the pins are set up; their bundles: "none", "made", "deleted"
    swdio_out,            \* the probe drives SWDIO
    fast_clock, clock_delay,
    clock                 \* history: the clock that was asked for last

pins == <<s_debug_gpio_init, bundles>>
port_vars == <<debug_port, pins, fast_clock, clock_delay, clock>>
vars == <<transfer_vars, port_vars, swdio_out>>

PortTypeOK ==
    /\ debug_port \in {"disabled", "SWD"}
    /\ s_debug_gpio_init \in BOOLEAN /\ bundles \in {"none", "made", "deleted"}
    /\ swdio_out \in BOOLEAN
    /\ fast_clock \in BOOLEAN /\ clock_delay \in Nat \ {0} /\ clock \in Nat \ {0}

(* MAX_SWJ_CLOCK *)
MaxClock(delay_cycles) == HalfClock \div (WriteCycles + delay_cycles)

(* Mutant of SlowDelay: it rounds down. *)
SlowDelayDown(hz) ==
    LET delay == HalfClock \div hz
    IN  IF delay > WriteCycles
        THEN LET rest == (delay - WriteCycles) \div SlowCycles IN IF rest = 0 THEN 1 ELSE rest
        ELSE 1

(* The delay of half a clock cycle, both divisions rounded up *)
SlowDelay(hz) ==
    LET delay == (HalfClock + (hz - 1)) \div hz
    IN  IF delay > WriteCycles
        THEN (delay - WriteCycles + (SlowCycles - 1)) \div SlowCycles
        ELSE 1

Set_Clock_Delay(hz) ==
    /\ fast_clock' = (hz >= MaxClock(FastCycles))
    /\ clock_delay' = IF hz >= MaxClock(FastCycles) THEN 1 ELSE SlowDelay(hz)
    /\ clock' = hz

Init ==
    /\ TransferInit
    /\ debug_port = "disabled"
    /\ s_debug_gpio_init = FALSE /\ bundles = "none"
    /\ swdio_out = FALSE
    /\ fast_clock = (DefaultClock >= MaxClock(FastCycles))
    /\ clock_delay = IF DefaultClock >= MaxClock(FastCycles) THEN 1 ELSE SlowDelay(DefaultClock)
    /\ clock = DefaultClock

-----------------------------------------------------------------------------
Idle == pc = "idle"

(* A new mount calls DAP_Setup again: the pins keep what they had.  That   *)
(* the TinyUSB task does so while the swd_task of the mount before is in a *)
(* command, and starts a second one beside it, is left out.                *)
Setup ==
    /\ Idle
    /\ debug_port' = "disabled"
    /\ retry_count' = DefaultRetries /\ match_retry' = 0 /\ match_mask' = 0
    /\ Set_Clock_Delay(DefaultClock)
    /\ UNCHANGED <<command, locals, response, target, pins, swdio_out>>

(* DAP_Connect for SWD, or for the default, which is SWD; any other port   *)
(* is refused and leaves everything as it was.                             *)
Connect ==
    /\ Idle
    /\ debug_port' = "SWD"
    /\ \/ /\ ~s_debug_gpio_init
          /\ s_debug_gpio_init' = TRUE /\ bundles' = "made"
          /\ swdio_out' = TRUE
       \/ s_debug_gpio_init /\ UNCHANGED <<pins, swdio_out>>
    /\ UNCHANGED <<transfer_vars, fast_clock, clock_delay, clock>>

(* DAP_Disconnect.  The bundles are deleted without a look whether there   *)
(* are any; of deleted ones that is undefined, and left out.               *)
Disconnect ==
    /\ Idle /\ bundles # "deleted"
    /\ debug_port' = "disabled"
    /\ bundles' = IF bundles = "made" THEN "deleted" ELSE "none"
    /\ s_debug_gpio_init' = FALSE
    /\ swdio_out' = FALSE
    /\ UNCHANGED <<transfer_vars, fast_clock, clock_delay, clock>>

SWJ_Clock(hz) ==
    /\ Idle /\ hz # 0
    /\ Set_Clock_Delay(hz)
    /\ UNCHANGED <<transfer_vars, debug_port, pins, swdio_out>>

(* Each part captures or generates data, and turns SWDIO for it; behind    *)
(* the last it is turned to output, whatever the port.                     *)
SWD_Sequence(captures) ==
    /\ Idle
    /\ swdio_out' = (swdio_out \/ captures # << >>)
    /\ UNCHANGED <<transfer_vars, port_vars>>

Configure ==
    /\ \E n \in Retries : \E m \in MatchRetries : TransferConfigure(n, m)
    /\ UNCHANGED <<port_vars, swdio_out>>

Kinds == {q \in Requests : ~q.match}

(* Without a port the transfer commands do nothing. *)
DAP_Transfer ==
    /\ debug_port = "SWD"
    /\ \E n \in 0 .. MaxRequests : \E qs \in [1 .. n -> Requests] : Transfer(qs)
    /\ UNCHANGED <<port_vars, swdio_out>>

DAP_TransferBlock ==
    /\ debug_port = "SWD"
    /\ \E q \in Kinds : \E n \in 0 .. MaxRequests : TransferBlock(q, n)
    /\ UNCHANGED <<port_vars, swdio_out>>

DAP_WriteAbort ==
    /\ debug_port = "SWD"
    /\ WriteAbort
    /\ UNCHANGED <<port_vars, swdio_out>>

(* SWD_TransferFunction: request and turnaround, *)
Turn ==
    /\ pc \in Asking /\ swdio_out
    /\ swdio_out' = FALSE
    /\ UNCHANGED <<transfer_vars, port_vars>>

(* Mutant of TurnBack: not behind a protocol error. *)
TurnBackUnlessError == swdio_out' = (response_value' # "NONE")

(* the target's answer, and the turn back in each of its cases. *)
TurnBack == swdio_out' = TRUE

Answer ==
    /\ pc \in Asking /\ ~swdio_out
    /\ TransferStep
    /\ TurnBack
    /\ UNCHANGED port_vars

Local ==
    /\ pc \in {"next", "mask", "end"}
    /\ TransferStep
    /\ UNCHANGED <<port_vars, swdio_out>>

Work == Turn \/ Answer \/ Local

Next ==
    \/ Setup \/ Connect \/ Disconnect \/ Configure
    \/ DAP_Transfer \/ DAP_TransferBlock \/ DAP_WriteAbort
    \/ \E hz \in Clocks : SWJ_Clock(hz)
    \/ \E n \in 0 .. MaxSequences : \E captures \in [1 .. n -> BOOLEAN] : SWD_Sequence(captures)
    \/ Work

(* swd_task goes on with its command. *)
Spec == Init /\ [][Next]_vars /\ WF_vars(Work)

-----------------------------------------------------------------------------
(* Properties *)

(* Between commands the probe drives SWDIO of a connected target, however  *)
(* its transfers ended and whatever sequences it captured: what the next   *)
(* command sends reaches the target.                                       *)
DrivenBetweenCommands == Idle /\ debug_port = "SWD" => swdio_out

(* A clock cycle takes at least as long as the host has asked for, as far  *)
(* as the delays take the cycles they are counted with; the fast clock is  *)
(* at most one Hertz too fast.                                             *)
NeverFaster ==
    IF fast_clock THEN HalfClock < (clock + 1) * (WriteCycles + FastCycles)
    ELSE HalfClock <= clock * (WriteCycles + clock_delay * SlowCycles)

(* Every command is answered, however often the target makes it wait or    *)
(* does not answer.                                                        *)
CommandEnds == ~Idle ~> Idle
=============================================================================
