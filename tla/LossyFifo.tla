------------------------------ MODULE LossyFifo ------------------------------
(***************************************************************************)
(* What the serial bridge promises the host of the target's output: every  *)
(* byte at most once and in order.  Bytes may be lost, whole chunks that   *)
(* find no room or at most MaxLoss bytes at a time that wait to be sent.   *)
(* The bytes are numbered as they come.                                    *)
(***************************************************************************)
EXTENDS Integers, Sequences

CONSTANT MaxLoss

VARIABLES
    produced,             \* bytes the target has sent so far
    pending,              \* the numbers of those under way to the host
    got                   \* the last byte the host has received

vars == <<produced, pending, got>>

Init == produced = 0 /\ pending = << >> /\ got = 0

Put ==
    /\ produced' \in Nat /\ produced' > produced
    /\ pending' \in {pending \o [i \in 1 .. produced' - produced |-> produced + i], pending}
    /\ UNCHANGED got

Deliver(n) ==
    /\ n \in 1 .. Len(pending)
    /\ got' = pending[n]
    /\ pending' = SubSeq(pending, n + 1, Len(pending))
    /\ UNCHANGED produced

Lose(first, n) ==
    /\ n <= MaxLoss
    /\ pending' = SubSeq(pending, 1, first - 1) \o SubSeq(pending, first + n, Len(pending))
    /\ UNCHANGED <<produced, got>>

Next ==
    \/ Put
    \/ \E n \in 1 .. Len(pending) : Deliver(n)
    \/ \E first \in 1 .. Len(pending) : \E n \in 1 .. Len(pending) - first + 1 : Lose(first, n)

Spec == Init /\ [][Next]_vars
=============================================================================
