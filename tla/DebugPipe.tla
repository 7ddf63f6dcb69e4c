------------------------------ MODULE DebugPipe ------------------------------
(***************************************************************************)
(* The way of a debug request through the bridge: main/eub_vendord.c takes *)
(* a packet from the OUT endpoint and puts it into the probe's receive     *)
(* buffer, the probe's task (jtag_task or swd_task) works on it and puts   *)
(* its answers into the send buffer, and usb_send_task starts a transfer   *)
(* on the IN endpoint for each.  Buffers and probe task are made by        *)
(* tud_mount_cb, every time the host configures the device.                *)
(*                                                                         *)
(* The requests are counted, the answers numbered as they are made.  A     *)
(* ring buffer is external: its items keep their place until they are      *)
(* returned, in the order they were received.                              *)
(***************************************************************************)
EXTENDS Integers, Sequences, FiniteSets

CONSTANTS
    RcvSize, SndSize,     \* items that fit into the ring buffers
    Answers,              \* how many packets a request may be answered with; {1} for SWD
    Window,               \* answers a host lets be due before it sends another request
    MaxRequests,          \* bound of the model: requests of the host
    MaxMounts             \* bound of the model: configurations by the host

ASSUME SizesAssumption ==
    /\ RcvSize \in Nat \ {0} /\ SndSize \in Nat \ {0}
    /\ Answers \subseteq Nat /\ \E n \in Answers : \A k \in Answers : k <= n
    /\ Window \in Nat /\ MaxRequests \in Nat /\ MaxMounts \in Nat

Mounts == 1 .. MaxMounts

VARIABLES
    usb,                  \* the TinyUSB task: "idle" or where it is in a callback
    mounts, mounted,      \* configurations so far, and whether there is one now
    current,              \* the mount that made the buffers, 0 before the first
    rcv, returned,        \* places taken in the receive buffer, and those of items already returned
    slots, first, used,   \* the send buffer: its places, the oldest one not returned, their number
    send, send_on, held,  \* usb_send_task, the mount whose buffer it waits on, and the packet it holds
    probe, probe_on, unsent,  \* the probe task of each mount, likewise, and the packets it has to send
    ep_out, ep_in,        \* the endpoints: "off", "armed", "full"; "idle", "busy", "read"
    flying, started,      \* the place a transfer reads from, and the packet it was started with
    aborted,              \* why the bridge has restarted itself, or "no"
    requests, made, got   \* history: requests sent, packets made, the last one the host received

buffers == <<current, rcv, returned, slots, first, used>>
endpoints == <<ep_out, ep_in, flying, started>>
host == <<requests, got>>
sender == <<send, send_on, held>>
probes == <<probe, probe_on, unsent, made>>
mounting == <<mounts, mounted>>
pipe == <<usb, mounting, buffers, sender, probes, endpoints, aborted, host>>

Place == 0 .. SndSize - 1

(* In a send buffer of an earlier mount, which nobody writes to any more. *)
Elsewhere == SndSize

PipeTypeOK ==
    /\ usb \in {"idle", "start", "init", "create", "process", "rearm"}
    /\ mounts \in 0 .. MaxMounts /\ mounted \in BOOLEAN /\ current \in 0 .. MaxMounts
    /\ rcv \in 0 .. RcvSize /\ returned \in 0 .. RcvSize
    /\ slots \in [Place -> Nat] /\ first \in Place /\ used \in 0 .. SndSize
    /\ send \in {"none", "receive", "blocked", "transfer", "free"} /\ send_on \in 0 .. MaxMounts
    /\ held \in Nat
    /\ probe \in [Mounts -> {"none", "receive", "blocked", "work"}]
    /\ probe_on \in [Mounts -> 0 .. MaxMounts] /\ unsent \in [Mounts -> Nat]
    /\ ep_out \in {"off", "armed", "full"} /\ ep_in \in {"idle", "busy", "read"}
    /\ flying \in Place \cup {Elsewhere} /\ started \in Nat
    /\ aborted \in {"no", "no buffer", "foreign item", "request", "endpoint"}
    /\ requests \in Nat /\ made \in Nat /\ got \in Nat

(* After app_main; nothing has been mounted. *)
PipeInit ==
    /\ usb = "idle" /\ mounts = 0 /\ mounted = FALSE /\ current = 0
    /\ rcv = 0 /\ returned = 0 /\ slots = [p \in Place |-> 0] /\ first = 0 /\ used = 0
    /\ send = "none" /\ send_on = 0 /\ held = 0
    /\ probe = [m \in Mounts |-> "none"] /\ probe_on = [m \in Mounts |-> 0]
    /\ unsent = [m \in Mounts |-> 0]
    /\ ep_out = "off" /\ ep_in = "idle" /\ flying = 0 /\ started = 0
    /\ aborted = "no" /\ requests = 0 /\ made = 0 /\ got = 0

(* eub_abort, or an assertion of the ring buffers *)
Abort(why) ==
    /\ aborted' = why
    /\ UNCHANGED <<usb, mounting, buffers, sender, probes, endpoints, host>>

(* Of the items of the current send buffer, usb_send_task holds the oldest. *)
SendHolds == send \in {"transfer", "free"} /\ send_on = current

Holding(on) == {m \in Mounts : probe[m] = "work" /\ probe_on[m] = on}

(* Items of the receive buffer that nobody has received yet *)
Unreceived == rcv - returned - Cardinality(Holding(current))

InFlight == IF flying = Elsewhere THEN started ELSE slots[flying]

At(i) == (first + i) % SndSize

-----------------------------------------------------------------------------
(* The TinyUSB task *)

(* SET_CONFIGURATION: eub_vendord_open arms the OUT endpoint. *)
Mount ==
    /\ usb = "idle" /\ ~mounted /\ mounts < MaxMounts
    /\ mounts' = mounts + 1 /\ mounted' = TRUE
    /\ ep_out' = "armed"
    /\ usb' = "start"
    /\ UNCHANGED <<buffers, sender, probes, ep_in, flying, started, aborted, host>>

(* eub_vendord_start, once *)
StartSender ==
    /\ usb = "start"
    /\ send' = IF send = "none" THEN "receive" ELSE send
    /\ usb' = "init"
    /\ UNCHANGED <<mounting, buffers, send_on, held, probes, endpoints, aborted, host>>

(* Mutant of MakeBuffers: the old buffers' memory is used again. *)
ReuseBuffers ==
    /\ usb = "init"
    /\ current' = mounts
    /\ rcv' = 0 /\ returned' = 0 /\ slots' = [p \in Place |-> 0] /\ first' = 0 /\ used' = 0
    /\ usb' = "create"
    /\ UNCHANGED <<mounting, sender, probes, endpoints, aborted, host>>

(* debug_probe_init: new buffers ... *)
MakeBuffers ==
    /\ usb = "init"
    /\ current' = mounts
    /\ rcv' = 0 /\ returned' = 0 /\ slots' = [p \in Place |-> 0] /\ first' = 0 /\ used' = 0
    /\ flying' = Elsewhere /\ started' = InFlight
    /\ usb' = "create"
    /\ UNCHANGED <<mounting, sender, probes, ep_out, ep_in, aborted, host>>

(* ... and a new task *)
CreateProbe ==
    /\ usb = "create"
    /\ probe' = [probe EXCEPT ![mounts] = "receive"]
    /\ usb' = "idle"
    /\ UNCHANGED <<mounting, buffers, sender, probe_on, unsent, made, endpoints, aborted, host>>

(* A bus reset: eub_vendord_reset forgets the endpoints. *)
Reset ==
    /\ usb = "idle" /\ mounted
    /\ mounted' = FALSE
    /\ ep_out' = "off" /\ ep_in' = "idle"
    /\ UNCHANGED <<usb, mounts, buffers, sender, probes, flying, started, aborted, host>>

(* eub_vendord_xfer_cb for the OUT endpoint calls debug_probe_process_data, *)
OutComplete ==
    /\ usb = "idle" /\ ep_out = "full"
    /\ usb' = "process"
    /\ UNCHANGED <<mounting, buffers, sender, probes, endpoints, aborted, host>>

(* which finds room in the receive buffer *)
ProcessData ==
    /\ usb = "process" /\ rcv < RcvSize
    /\ rcv' = rcv + 1
    /\ usb' = "rearm"
    /\ UNCHANGED <<mounting, current, returned, slots, first, used, sender, probes, endpoints, aborted,
                   host>>

(* or does not within a second. *)
ProcessFails ==
    /\ usb = "process" /\ rcv = RcvSize
    /\ Abort("request")

(* Mutant of Rearm: it is the IN endpoint that is waited for. *)
RearmBehindIn ==
    /\ usb = "rearm" /\ ep_in = "idle"
    /\ ep_out' = "armed"
    /\ usb' = "idle"
    /\ UNCHANGED <<mounting, buffers, sender, probes, ep_in, flying, started, aborted, host>>

Rearm ==
    /\ usb = "rearm"
    /\ ep_out' = "armed"
    /\ usb' = "idle"
    /\ UNCHANGED <<mounting, buffers, sender, probes, ep_in, flying, started, aborted, host>>

(* Only here the IN endpoint ceases to be busy. *)
InComplete ==
    /\ usb = "idle" /\ ep_in = "read"
    /\ ep_in' = "idle"
    /\ UNCHANGED <<usb, mounting, buffers, sender, probes, ep_out, flying, started, aborted, host>>

UsbStep ==
    \/ Mount \/ StartSender \/ MakeBuffers \/ CreateProbe \/ Reset
    \/ OutComplete \/ ProcessData \/ ProcessFails \/ Rearm \/ InComplete

-----------------------------------------------------------------------------
(* usb_send_task *)

(* The buffer is that of this moment; there may be none yet. *)
SendReceive ==
    /\ send = "receive"
    /\ IF current = 0 THEN Abort("no buffer")
       ELSE /\ send' = "blocked" /\ send_on' = current
            /\ UNCHANGED <<usb, mounting, buffers, held, probes, endpoints, aborted, host>>

(* Items of an earlier buffer have all been received before: only the      *)
(* current one gets new ones.                                              *)
SendGets ==
    /\ send = "blocked" /\ send_on = current /\ used > 0
    /\ send' = "transfer" /\ held' = slots[first]
    /\ UNCHANGED <<usb, mounting, buffers, send_on, probes, endpoints, aborted, host>>

(* eub_endpt_transfer: the transfer will read from the place of its item. *)
Transfer ==
    /\ send = "transfer" /\ mounted /\ ep_in = "idle"
    /\ ep_in' = "busy"
    /\ flying' = (IF send_on = current THEN first ELSE Elsewhere) /\ started' = held
    /\ send' = "free"
    /\ UNCHANGED <<usb, mounting, buffers, send_on, held, probes, ep_out, aborted, host>>

(* The endpoint is busy for 100 ms. *)
TransferTimesOut ==
    /\ send = "transfer" /\ mounted /\ ep_in # "idle"
    /\ Abort("endpoint")

(* Without an IN endpoint, the packet is lost or refused. *)
TransferNowhere ==
    /\ send = "transfer" /\ ~mounted
    /\ \/ /\ send' = "free"
          /\ UNCHANGED <<usb, mounting, buffers, send_on, held, probes, endpoints, aborted, host>>
       \/ Abort("endpoint")

(* debug_probe_free_sent_data, right behind the start of the transfer *)
SendFree ==
    /\ send = "free"
    /\ IF send_on = current
       THEN /\ first' = At(1) /\ used' = used - 1
            /\ send' = "receive"
            /\ UNCHANGED <<usb, mounting, current, rcv, returned, slots, send_on, held, probes,
                           endpoints, aborted, host>>
       ELSE Abort("foreign item")

SendStep ==
    SendReceive \/ SendGets \/ Transfer \/ TransferTimesOut \/ TransferNowhere \/ SendFree

-----------------------------------------------------------------------------
(* The probe's tasks *)

ProbeReceive(m) ==
    /\ probe[m] = "receive"
    /\ probe' = [probe EXCEPT ![m] = "blocked"]
    /\ probe_on' = [probe_on EXCEPT ![m] = current]
    /\ UNCHANGED <<usb, mounting, buffers, sender, unsent, made, endpoints, aborted, host>>

ProbeGets(m) ==
    /\ probe[m] = "blocked" /\ probe_on[m] = current
    /\ Unreceived > 0
    /\ probe' = [probe EXCEPT ![m] = "work"]
    /\ \E n \in Answers : unsent' = [unsent EXCEPT ![m] = n]
    /\ UNCHANGED <<usb, mounting, buffers, sender, probe_on, made, endpoints, aborted, host>>

(* Mutant of ProbeSends: one place too many. *)
ProbeSendsPast(m) ==
    /\ probe[m] = "work" /\ unsent[m] > 0
    /\ used <= SndSize
    /\ slots' = [slots EXCEPT ![At(used)] = made + 1]
    /\ used' = used + 1
    /\ made' = made + 1
    /\ unsent' = [unsent EXCEPT ![m] = @ - 1]
    /\ UNCHANGED <<usb, mounting, current, rcv, returned, first, sender, probe, probe_on, endpoints,
                   aborted, host>>

(* esp_usb_jtag_send_data, swd_send_data *)
ProbeSends(m) ==
    /\ probe[m] = "work" /\ unsent[m] > 0
    /\ used < SndSize
    /\ slots' = [slots EXCEPT ![At(used)] = made + 1]
    /\ used' = used + 1
    /\ made' = made + 1
    /\ unsent' = [unsent EXCEPT ![m] = @ - 1]
    /\ UNCHANGED <<usb, mounting, current, rcv, returned, first, sender, probe, probe_on, endpoints,
                   aborted, host>>

(* No room within a second: the packet is dropped. *)
ProbeDrops(m) ==
    /\ probe[m] = "work" /\ unsent[m] > 0
    /\ used = SndSize
    /\ made' = made + 1
    /\ unsent' = [unsent EXCEPT ![m] = @ - 1]
    /\ UNCHANGED <<usb, mounting, buffers, sender, probe, probe_on, endpoints, aborted, host>>

(* Mutant of ProbeReturns: the request's place is not given back. *)
ProbeKeeps(m) ==
    /\ probe[m] = "work" /\ unsent[m] = 0
    /\ probe' = [probe EXCEPT ![m] = "receive"]
    /\ UNCHANGED <<usb, mounting, buffers, sender, probe_on, unsent, made, endpoints, aborted, host>>

(* vRingbufferReturnItem, into the buffer there is by now.  A place is     *)
(* free when all before it are: an item returned while a task of another   *)
(* mount holds an older one keeps its place until then.                    *)
ProbeReturns(m) ==
    /\ probe[m] = "work" /\ unsent[m] = 0
    /\ IF probe_on[m] = current
       THEN /\ \E freed \in IF Holding(current) = {m} THEN {returned + 1} ELSE 0 .. returned + 1 :
                 rcv' = rcv - freed /\ returned' = returned + 1 - freed
            /\ probe' = [probe EXCEPT ![m] = "receive"]
            /\ UNCHANGED <<usb, mounting, current, slots, first, used, sender, probe_on, unsent,
                           made, endpoints, aborted, host>>
       ELSE Abort("foreign item")

ProbeStep(m) ==
    ProbeReceive(m) \/ ProbeGets(m) \/ ProbeSends(m) \/ ProbeDrops(m) \/ ProbeReturns(m)

-----------------------------------------------------------------------------
(* The host *)

(* Answers under way, oldest first: in flight, taken from an earlier       *)
(* buffer, or in the buffer.                                               *)
Flown == IF ep_in = "busy" THEN <<InFlight>> ELSE << >>

Kept == IF send = "transfer" /\ send_on # current THEN <<held>> ELSE << >>

Queued ==
    LET gone == IF send = "free" /\ send_on = current THEN 1 ELSE 0
    IN  [i \in 1 .. used - gone |-> slots[At(gone + i - 1)]]

Pending == Flown \o Kept \o Queued

Largest == CHOOSE n \in Answers : \A k \in Answers : k <= n

Working == {m \in Mounts : probe[m] = "work"}

(* Answers that may still come of requests sent, those of the tasks of     *)
(* earlier mounts included.                                                *)
Expected ==
    LET queued == Unreceived + (IF ep_out = "full" THEN 1 ELSE 0)
    IN  Len(Pending) + Largest * (queued + Cardinality(Working))

HostSends ==
    /\ mounted /\ ep_out = "armed" /\ requests < MaxRequests
    /\ Expected + Largest <= Window
    /\ requests' = requests + 1
    /\ ep_out' = "full"
    /\ UNCHANGED <<usb, mounting, buffers, sender, probes, ep_in, flying, started, aborted, got>>

HostReads ==
    /\ mounted /\ ep_in = "busy"
    /\ got' = InFlight
    /\ ep_in' = "read"
    /\ UNCHANGED <<usb, mounting, buffers, sender, probes, ep_out, flying, started, aborted,
                   requests>>

PipeNext ==
    /\ aborted = "no"
    /\ UsbStep \/ SendStep \/ (\E m \in Mounts : ProbeStep(m)) \/ HostSends \/ HostReads

(* Every call of the tasks ends or times out.  The host configures, resets *)
(* and reads as it likes.                                                  *)
PipeFairness ==
    /\ WF_pipe(aborted = "no" /\ SendStep)
    /\ \A m \in Mounts : WF_pipe(aborted = "no" /\ ProbeStep(m))
    /\ WF_pipe(aborted = "no" /\ usb # "idle" /\ UsbStep)

PipeSpec == PipeInit /\ [][PipeNext]_pipe /\ PipeFairness

-----------------------------------------------------------------------------
(* Properties *)

Answer == INSTANCE LossyFifo WITH MaxLoss <- SndSize, produced <- made, pending <- Pending

(* The host receives the probe's packets as they were made, in order and   *)
(* at most once, over every interleaving of the three tasks, as long as it *)
(* lets no more of them be due than the send buffer holds.                 *)
ImplementsLossyFifo == Answer!Spec

(* The TinyUSB task comes back from every callback, or gives up, whatever  *)
(* the probe and the host do.                                              *)
UsbTaskReturns == usb # "idle" ~> (usb = "idle" \/ aborted # "no")

(* A request is worked through and its place given back, also with a host  *)
(* that never reads.                                                       *)
RequestsDealtWith == rcv > 0 ~> (rcv = 0 \/ aborted # "no")

(* "Must be called before any other debug probe operations" (debug_probe.h *)
(* of debug_probe_init): the buffer there is exists.                       *)
InitBeforeUse == aborted # "no buffer"

(* "Releases a data buffer that was previously obtained from               *)
(* debug_probe_get_data_to_send() and has been successfully transmitted"   *)
(* (debug_probe.h of debug_probe_free_sent_data).                          *)
SentAsStarted == ep_in = "busy" => InFlight = started

(* "Retrieves debug probe response data that is ready to be transmitted    *)
(* back to the host debugger" (debug_probe.h of                            *)
(* debug_probe_get_data_to_send): what is in the send buffer leaves it.    *)
DataRetrieved == used > 0 ~> (used = 0 \/ SendHolds \/ aborted # "no")

(* "4K ringbuffer size is more than enough" (esp_usb_jtag.c): the TinyUSB  *)
(* task never waits for room while usb_send_task waits for it.             *)
NoCircularWait == ~(usb = "process" /\ rcv = RcvSize /\ send = "transfer" /\ ep_in = "read")
=============================================================================
