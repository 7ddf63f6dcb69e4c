----------------------------- MODULE FlashImage -----------------------------
(***************************************************************************)
(* What the mass-storage flasher promises its host: the flash of the       *)
(* target is an image onto which every accepted UF2 payload is laid at its *)
(* own address and which nothing else changes.  Between the first write    *)
(* and the close the bridge may be lost; what that can damage is one       *)
(* buffer's worth of flash, starting at a block boundary, and the payload  *)
(* in hand.  After the close nothing is lost any more.                     *)
(***************************************************************************)
EXTENDS Integers

CONSTANTS
    FlashSize,   \* bytes of target flash
    BlockSize,   \* erase unit of the flash
    BufferSize,  \* bytes the bridge buffers between two erases
    Byte,        \* values of a byte
    Payloads     \* what the host may write: records [addr, len, data]

VARIABLES
    image,       \* contents of the flash, as the host is to find them
    open         \* a write has been accepted and not been closed yet

vars == <<image, open>>

Addr == 0 .. FlashSize - 1

Span(w) == w.addr .. w.addr + w.len - 1

Overlay(f, w) == [a \in Addr |-> IF a \in Span(w) THEN w.data[a - w.addr] ELSE f[a]]

TypeOK == image \in [Addr -> Byte] /\ open \in BOOLEAN

Init == image \in [Addr -> Byte] /\ open = FALSE

Write(w) ==
    /\ image' = Overlay(image, w)
    /\ open' = TRUE

Close ==
    /\ open
    /\ open' = FALSE
    /\ UNCHANGED image

Lose(base, w) ==
    /\ open
    /\ open' = FALSE
    /\ image' \in [Addr -> Byte]
    /\ \A a \in Addr :
          a \notin base .. base + BufferSize - 1 /\ a \notin Span(w) => image'[a] = image[a]

Next ==
    \/ \E w \in Payloads : Write(w)
    \/ Close
    \/ \E base \in {a \in Addr : a % BlockSize = 0}, w \in Payloads : Lose(base, w)

Spec == Init /\ [][Next]_vars
=============================================================================
