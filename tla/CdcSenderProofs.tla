--------------------------- MODULE CdcSenderProofs ---------------------------
(***************************************************************************)
(* Theorems about CdcSender, for every size of packet and ring buffer and  *)
(* every chunk the UART task hands over.                                   *)
(***************************************************************************)
EXTENDS CdcSender, SequenceTheorems, TLAPS

(* Empty sequences have no length. *)
LEMMA Empties ==
    /\ << >> \in Seq(Byte) /\ Len(<< >>) = 0
    /\ \A s \in Seq(Byte) : Len(s) \in Nat /\ (s = << >> <=> Len(s) = 0)
  OBVIOUS

(* One sequence behind another. *)
LEMMA Joined ==
    ASSUME NEW s \in Seq(Byte), NEW t \in Seq(Byte)
    PROVE  s \o t \in Seq(Byte) /\ Len(s \o t) = Len(s) + Len(t)
  OBVIOUS

(* A sequence cut in two. *)
LEMMA Cut ==
    ASSUME NEW s \in Seq(Byte), NEW n \in 0 .. Len(s)
    PROVE  /\ SubSeq(s, 1, n) \in Seq(Byte) /\ Len(SubSeq(s, 1, n)) = n
           /\ SubSeq(s, n + 1, Len(s)) \in Seq(Byte)
           /\ Len(SubSeq(s, n + 1, Len(s))) = Len(s) - n
           /\ SubSeq(s, 1, n) \o SubSeq(s, n + 1, Len(s)) = s
  <1> DEFINE a == SubSeq(s, 1, n)
             b == SubSeq(s, n + 1, Len(s))
  <1>1. a \in Seq(Byte) /\ Len(a) = n /\ \A i \in 1 .. n : a[i] = s[i]
    OBVIOUS
  <1>2. b \in Seq(Byte) /\ Len(b) = Len(s) - n /\ \A i \in 1 .. Len(s) - n : b[i] = s[n + i]
    OBVIOUS
  <1> HIDE DEF a, b
  <1>3. a \o b \in Seq(Byte) /\ Len(a \o b) = Len(s)
    <2>1. n + (Len(s) - n) = Len(s)
      OBVIOUS
    <2> QED BY <1>1, <1>2, <2>1, Joined
  <1>4. \A i \in 1 .. Len(s) : (a \o b)[i] = s[i]
    <2> SUFFICES ASSUME NEW i \in 1 .. Len(s) PROVE (a \o b)[i] = s[i]
      OBVIOUS
    <2>1. CASE i <= n
      BY <1>1, <1>2, <2>1
    <2>2. CASE i > n
      <3>1. (a \o b)[i] = b[i - n] /\ i - n \in 1 .. Len(s) - n
        BY <1>1, <1>2, <2>2
      <3>2. b[i - n] = s[n + (i - n)]
        BY <1>2, <3>1
      <3>3. n + (i - n) = i
        OBVIOUS
      <3> QED BY <3>1, <3>2, <3>3
    <2>3. i <= n \/ i > n
      OBVIOUS
    <2> QED BY <2>1, <2>2, <2>3
  <1>5. a \o b = s
    BY <1>3, <1>4, SeqEqual
  <1> QED BY <1>1, <1>2, <1>5 DEF a, b

(* A chunk of numbers. *)
LEMMA ChunkType ==
    ASSUME NEW n \in Nat, NEW p \in Nat
    PROVE  /\ [i \in 1 .. n |-> p + i] \in Seq(Byte)
           /\ Len([i \in 1 .. n |-> p + i]) = n
  BY DEF Byte

LEMMA RestType ==
    ASSUME TypeOK
    PROVE  Rest \in Seq(Byte) /\ Len(Rest) = Len(int_buf) - wr_len
  BY Cut DEF TypeOK, Rest

-----------------------------------------------------------------------------
(* The invariant *)

LEMMA InitInv == Init => IInv
  <1> SUFFICES ASSUME Init PROVE IInv
    OBVIOUS
  <1>1. TypeOK
    <2>1. 0 <= PacketSize /\ 0 <= RingSize
      BY SizesAssumption
    <2>2. 0 \in 0 .. Len(<< >>) /\ 0 \in Nat
      BY Empties
    <2> QED BY <2>1, <2>2, Empties DEF Init, TypeOK
  <1>2. RequestInv /\ CallbackInv /\ BufferInv
    BY DEF Init, RequestInv, CallbackInv, BufferInv
  <1> QED BY <1>1, <1>2 DEF IInv

LEMMA DataReceivedInv == ASSUME IInv, NEW n \in 1 .. MaxChunk, DataReceived(n) PROVE IInv'
  <1>1. produced \in Nat /\ n \in Nat
    BY SizesAssumption DEF IInv, TypeOK
  <1> DEFINE chunk == [i \in 1 .. n |-> produced + i]
  <1>2. chunk \in Seq(Byte) /\ Len(chunk) = n
    BY <1>1, ChunkType
  <1>3. /\ produced' = produced + n
        /\ \/ Len(usb_sendbuf) + n <= RingSize /\ usb_sendbuf' = usb_sendbuf \o chunk
           \/ UNCHANGED usb_sendbuf
    BY DEF DataReceived
  <1> HIDE DEF chunk
  <1>4. usb_sendbuf' \in Seq(Byte) /\ Len(usb_sendbuf') <= RingSize
    <2>1. usb_sendbuf \in Seq(Byte) /\ Len(usb_sendbuf) <= RingSize
      BY DEF IInv, TypeOK
    <2>2. usb_sendbuf \o chunk \in Seq(Byte) /\ Len(usb_sendbuf \o chunk) = Len(usb_sendbuf) + n
      BY <1>2, <2>1, Joined
    <2> QED BY <1>3, <2>1, <2>2
  <1> QED BY <1>1, <1>3, <1>4
          DEF DataReceived, sender, tinyusb, IInv, TypeOK, RequestInv, CallbackInv, BufferInv

LEMMA ReceiveInv == ASSUME IInv, Receive PROVE IInv'
  <1>1. PICK n \in 1 .. PacketSize :
          /\ n <= Len(usb_sendbuf)
          /\ int_buf' = SubSeq(usb_sendbuf, 1, n)
          /\ usb_sendbuf' = SubSeq(usb_sendbuf, n + 1, Len(usb_sendbuf))
    BY DEF Receive
  <1>2. /\ int_buf' \in Seq(Byte) /\ Len(int_buf') = n
        /\ usb_sendbuf' \in Seq(Byte) /\ Len(usb_sendbuf') = Len(usb_sendbuf) - n
    <2>1. usb_sendbuf \in Seq(Byte) /\ n \in 0 .. Len(usb_sendbuf)
      BY <1>1 DEF IInv, TypeOK
    <2> QED BY <1>1, <2>1, Cut
  <1>3. wr_len = 0 /\ wr_len' = 0 /\ pc' = "request"
    BY DEF Receive, IInv, BufferInv
  <1>4. TypeOK'
    BY <1>1, <1>2, <1>3, SizesAssumption DEF Receive, tinyusb, IInv, TypeOK
  <1>5. RequestInv' /\ CallbackInv' /\ BufferInv'
    <2>1. int_buf' # << >>
      BY <1>2, Empties
    <2> QED BY <1>3, <2>1 DEF Receive, tinyusb, IInv, RequestInv, CallbackInv, BufferInv
  <1> QED BY <1>4, <1>5 DEF IInv

LEMMA RequestInvStep == ASSUME IInv, Request PROVE IInv'
  <1>1. broken' \in BOOLEAN /\ (broken' <=> ~ready)
    BY Zenon DEF Request, IInv, TypeOK
  <1>2. TypeOK'
    BY <1>1 DEF Request, tinyusb, IInv, TypeOK
  <1>3. RequestInv' /\ CallbackInv' /\ BufferInv'
    BY <1>1 DEF Request, tinyusb, IInv, RequestInv, CallbackInv, BufferInv
  <1> QED BY <1>2, <1>3 DEF IInv

(* Something is left in the FIFO: this, or what there was no room behind. *)
LEMMA WriteInv == ASSUME IInv, Write PROVE IInv'
  <1> DEFINE room == PacketSize - Len(fifo)
             n == IF Len(int_buf) < room THEN Len(int_buf) ELSE room
  <1>1. /\ fifo' = fifo \o SubSeq(int_buf, 1, n) /\ wr_len' = n
        /\ pc = "write" /\ pc' = "flush" /\ int_buf' = int_buf
    BY DEF Write
  <1>2. /\ Len(fifo) \in Nat /\ room \in 0 .. PacketSize /\ n \in 0 .. Len(int_buf) /\ n <= room
        /\ Len(fifo) + room = PacketSize
    BY SizesAssumption DEF IInv, TypeOK
  <1>3. Len(fifo) + n > 0
    <2>1. int_buf # << >> /\ int_buf \in Seq(Byte)
      BY <1>1 DEF IInv, TypeOK, BufferInv
    <2>2. Len(int_buf) > 0
      BY <2>1
    <2> QED BY <1>2, <2>2, SizesAssumption
  <1>4. SubSeq(int_buf, 1, n) \in Seq(Byte) /\ Len(SubSeq(int_buf, 1, n)) = n
    BY <1>2, Cut DEF IInv, TypeOK
  <1> HIDE DEF room, n
  <1>5. fifo' \in Seq(Byte) /\ Len(fifo') = Len(fifo) + n /\ fifo' # << >>
    <2>1. fifo \o SubSeq(int_buf, 1, n) \in Seq(Byte)
          /\ Len(fifo \o SubSeq(int_buf, 1, n)) = Len(fifo) + n
      BY <1>4, Joined DEF IInv, TypeOK
    <2>2. fifo' \in Seq(Byte) /\ Len(fifo') = Len(fifo) + n
      BY <1>1, <2>1
    <2>3. Len(fifo') # 0
      BY <1>2, <1>3, <2>2
    <2> QED BY <2>2, <2>3, Empties
  <1>6. TypeOK'
    BY <1>1, <1>2, <1>5, SizesAssumption DEF Write, IInv, TypeOK
  <1>7. RequestInv' /\ CallbackInv' /\ BufferInv'
    BY <1>1, <1>5 DEF Write, IInv, RequestInv, CallbackInv, BufferInv
  <1> QED BY <1>6, <1>7 DEF IInv

(* What StartTransfer does to the endpoint. *)
LEMMA StartFacts ==
    ASSUME IInv, StartTransfer
    PROVE  /\ fifo' \in Seq(Byte) /\ Len(fifo') <= PacketSize
           /\ in_flight' \in Seq(Byte) /\ Len(in_flight') <= PacketSize /\ busy' \in BOOLEAN
           /\ ~busy' => in_flight' = << >>
           /\ busy => busy'
           /\ ready => busy' \/ (fifo = << >> /\ fifo' = << >>)
           /\ busy' \/ UNCHANGED tinyusb
           /\ in_flight' \o fifo' = in_flight \o fifo
  <1>1. CASE ready /\ ~busy /\ fifo # << >>
    <2>1. busy' = TRUE /\ in_flight' = fifo /\ fifo' = << >> /\ in_flight = << >>
      BY <1>1 DEF StartTransfer, IInv, BufferInv
    <2>2. fifo \in Seq(Byte) /\ Len(fifo) <= PacketSize /\ PacketSize \in Nat
      BY SizesAssumption DEF IInv, TypeOK
    <2>3. fifo \o << >> = << >> \o fifo
      BY <2>2
    <2> QED BY <1>1, <2>1, <2>2, <2>3
  <1>2. CASE ~(ready /\ ~busy /\ fifo # << >>)
    BY <1>2 DEF StartTransfer, tinyusb, IInv, TypeOK, BufferInv
  <1> QED BY <1>1, <1>2

LEMMA FlushInv == ASSUME IInv, Flush PROVE IInv'
  <1>1. StartTransfer /\ pc = "flush" /\ pc' = "wait"
    BY DEF Flush
  <1>2. TypeOK'
    BY <1>1, StartFacts DEF Flush, IInv, TypeOK
  <1>3. RequestInv' /\ CallbackInv' /\ BufferInv'
    BY <1>1, StartFacts DEF Flush, IInv, RequestInv, CallbackInv, BufferInv
  <1> QED BY <1>2, <1>3 DEF IInv

LEMMA WaitedInv == ASSUME IInv, Waited PROVE IInv'
  <1>1. /\ pc = "wait" /\ pc' = IF wr_len = Len(int_buf) THEN "receive" ELSE "request"
        /\ int_buf' = Rest /\ wr_len' = 0 /\ usb_tx_done' = FALSE
    BY DEF Waited, Rest
  <1>2. Rest \in Seq(Byte) /\ Len(Rest) = Len(int_buf) - wr_len
    BY RestType DEF IInv
  <1>3. TypeOK'
    <2>1. wr_len \in 0 .. Len(int_buf) /\ Len(int_buf) <= PacketSize /\ Len(int_buf) \in Nat
      BY DEF IInv, TypeOK
    <2>2. Len(int_buf') <= PacketSize /\ 0 \in 0 .. Len(int_buf')
      BY <1>1, <1>2, <2>1, SizesAssumption
    <2> QED BY <1>1, <1>2, <2>2 DEF Waited, tinyusb, IInv, TypeOK
  <1>4. pc' = "receive" <=> Rest = << >>
    <2>1. Rest = << >> <=> Len(Rest) = 0
      BY <1>2
    <2>2. wr_len \in Nat /\ Len(int_buf) \in Nat
      BY DEF IInv, TypeOK
    <2> QED BY <1>1, <1>2, <2>1, <2>2
  <1>5. RequestInv' /\ CallbackInv' /\ BufferInv'
    BY <1>1, <1>4 DEF Waited, tinyusb, IInv, RequestInv, CallbackInv, BufferInv
  <1> QED BY <1>3, <1>5 DEF IInv

LEMMA TimeOutInv == ASSUME IInv, TimeOut PROVE IInv'
  BY DEF TimeOut, tinyusb, IInv, TypeOK, RequestInv, CallbackInv, BufferInv

LEMMA TakeBackInv == ASSUME IInv, TakeBack PROVE IInv'
  BY DEF TakeBack, tinyusb, IInv, TypeOK, RequestInv, CallbackInv, BufferInv

LEMMA WriteClearInv == ASSUME IInv, WriteClear PROVE IInv'
  <1>1. << >> \in Seq(Byte) /\ Len(<< >>) = 0 /\ 0 \in 0 .. 0 /\ 0 <= PacketSize
    BY SizesAssumption
  <1> QED BY <1>1 DEF WriteClear, IInv, TypeOK, RequestInv, CallbackInv, BufferInv

LEMMA CompleteInv == ASSUME IInv, Complete PROVE IInv'
  <1>1. << >> \in Seq(Byte) /\ Len(<< >>) = 0 /\ 0 <= PacketSize
    BY SizesAssumption
  <1>2. got' \in Nat
    <2>1. in_flight # << >> => in_flight[Len(in_flight)] \in Nat
      BY DEF IInv, TypeOK, Byte
    <2> QED BY <2>1 DEF Complete, IInv, TypeOK
  <1>3. full' \in BOOLEAN
    BY Zenon DEF Complete
  <1>4. TypeOK'
    BY <1>1, <1>2, <1>3 DEF Complete, sender, IInv, TypeOK
  <1>5. RequestInv' /\ CallbackInv' /\ BufferInv'
    BY DEF Complete, sender, IInv, RequestInv, CallbackInv, BufferInv
  <1> QED BY <1>4, <1>5 DEF IInv

(* Without a request, the wake-up has already been given. *)
LEMMA TxCompleteInv == ASSUME IInv, TxComplete PROVE IInv'
  BY DEF TxComplete, sender, tinyusb, IInv, TypeOK, RequestInv, CallbackInv, BufferInv

LEMMA TxDoneInv == ASSUME IInv, TxDone PROVE IInv'
  BY DEF TxDone, sender, tinyusb, IInv, TypeOK, RequestInv, CallbackInv, BufferInv

LEMMA SendNextInv == ASSUME IInv, SendNext PROVE IInv'
  <1>1. CASE fifo = << >> /\ full /\ ready /\ ~busy
    BY <1>1 DEF SendNext, sender, tinyusb, IInv, TypeOK, RequestInv, CallbackInv, BufferInv
  <1>2. CASE StartTransfer
    <2>1. TypeOK'
      BY <1>2, StartFacts DEF SendNext, sender, IInv, TypeOK
    <2>2. RequestInv' /\ CallbackInv' /\ BufferInv'
      BY <1>2, StartFacts DEF SendNext, sender, IInv, RequestInv, CallbackInv, BufferInv
    <2> QED BY <2>1, <2>2 DEF IInv
  <1> QED BY <1>1, <1>2 DEF SendNext

LEMMA UnplugInv == ASSUME IInv, Unplug \/ Plug PROVE IInv'
  <1>1. << >> \in Seq(Byte) /\ Len(<< >>) = 0 /\ 0 <= PacketSize
    BY SizesAssumption
  <1> QED BY <1>1 DEF Unplug, Plug, sender, tinyusb, IInv, TypeOK, RequestInv, CallbackInv,
                      BufferInv

(* Every step keeps the invariant. *)
LEMMA NextInv == IInv /\ [Next]_vars => IInv'
  <1> SUFFICES ASSUME IInv, [Next]_vars PROVE IInv'
    OBVIOUS
  <1>1. CASE \E n \in 1 .. MaxChunk : DataReceived(n)
    BY <1>1, DataReceivedInv
  <1>2. CASE SenderStep
    BY <1>2, ReceiveInv, RequestInvStep, WriteInv, FlushInv, WaitedInv, TimeOutInv, TakeBackInv,
       WriteClearInv DEF SenderStep
  <1>3. CASE UsbStep
    BY <1>3, CompleteInv, TxCompleteInv, TxDoneInv, SendNextInv, UnplugInv DEF UsbStep
  <1>4. CASE UNCHANGED vars
    BY <1>4 DEF vars, sender, tinyusb, IInv, TypeOK, RequestInv, CallbackInv, BufferInv
  <1> QED BY <1>1, <1>2, <1>3, <1>4 DEF Next

LEMMA Invariance == Spec => []IInv
  <1>1. Init => IInv
    BY InitInv
  <1>2. IInv /\ [Next]_vars => IInv'
    BY NextInv
  <1> QED BY <1>1, <1>2, PTL DEF Spec

(* No packet, FIFO or ring buffer grows beyond its size. *)
THEOREM TypeCorrect == Spec => []TypeOK
  <1>1. IInv => TypeOK
    BY DEF IInv
  <1> QED BY <1>1, Invariance, PTL

(* usb_sender_task never waits for a wake-up that cannot come.             *)
THEOREM NeverForgotten == Spec => []NoLostWakeUp
  <1>1. IInv => NoLostWakeUp
    BY DEF IInv, RequestInv, CallbackInv, NoLostWakeUp
  <1> QED BY <1>1, Invariance, PTL

-----------------------------------------------------------------------------
(* The refinement *)

Pending == in_flight \o fifo \o Rest \o usb_sendbuf

(* Two sequences taken apart. *)
LEMMA Apart ==
    ASSUME NEW s \in Seq(Byte), NEW t \in Seq(Byte)
    PROVE  /\ SubSeq(s \o t, 1, Len(s)) = s
           /\ SubSeq(s \o t, Len(s) + 1, Len(s \o t)) = t
  <1>1. /\ s \o t \in Seq(Byte) /\ Len(s \o t) = Len(s) + Len(t)
        /\ \A i \in 1 .. Len(s) : (s \o t)[i] = s[i]
        /\ \A i \in Len(s) + 1 .. Len(s) + Len(t) : (s \o t)[i] = t[i - Len(s)]
    OBVIOUS
  <1> DEFINE w == s \o t
  <1> HIDE DEF w
  <1>2. SubSeq(w, 1, Len(s)) = s
    <2>1. Len(s) \in 0 .. Len(w) /\ w \in Seq(Byte)
      BY <1>1 DEF w
    <2>2. /\ SubSeq(w, 1, Len(s)) \in Seq(Byte) /\ Len(SubSeq(w, 1, Len(s))) = Len(s)
      BY <2>1, Cut
    <2>3. \A i \in 1 .. Len(s) : SubSeq(w, 1, Len(s))[i] = s[i]
      BY <1>1, <2>1 DEF w
    <2> QED BY <2>2, <2>3, SeqEqual
  <1>3. SubSeq(w, Len(s) + 1, Len(w)) = t
    <2>1. Len(s) \in 0 .. Len(w) /\ w \in Seq(Byte) /\ Len(w) = Len(s) + Len(t)
          /\ Len(s) \in Nat /\ Len(t) \in Nat
      BY <1>1 DEF w
    <2>2. /\ SubSeq(w, Len(s) + 1, Len(w)) \in Seq(Byte)
          /\ Len(SubSeq(w, Len(s) + 1, Len(w))) = Len(t)
      BY <2>1, Cut
    <2>3. \A i \in 1 .. Len(t) : SubSeq(w, Len(s) + 1, Len(w))[i] = w[Len(s) + i]
      BY <2>1
    <2>4. \A i \in 1 .. Len(t) : w[Len(s) + i] = t[i]
      <3> SUFFICES ASSUME NEW i \in 1 .. Len(t) PROVE w[Len(s) + i] = t[i]
        OBVIOUS
      <3>1. Len(s) + i \in Len(s) + 1 .. Len(s) + Len(t) /\ (Len(s) + i) - Len(s) = i
        BY <2>1
      <3> QED BY <1>1, <3>1 DEF w
    <2> QED BY <2>2, <2>3, <2>4, SeqEqual
  <1> QED BY <1>2, <1>3 DEF w

(* All of a sequence. *)
LEMMA Whole == ASSUME NEW s \in Seq(Byte) PROVE SubSeq(s, 1, Len(s)) = s
  OBVIOUS

LEMMA Assoc ==
    ASSUME NEW s \in Seq(Byte), NEW t \in Seq(Byte), NEW u \in Seq(Byte)
    PROVE  (s \o t) \o u = s \o (t \o u)
  BY ConcatAssociative

LEMMA NeutralEmpty == ASSUME NEW s \in Seq(Byte) PROVE s \o << >> = s /\ << >> \o s = s
  OBVIOUS

(* What waits between two others is lost. *)
LEMMA LoseBetween ==
    ASSUME NEW s \in Seq(Byte), NEW t \in Seq(Byte), NEW u \in Seq(Byte),
           Pending = (s \o t) \o u, Pending' = s \o u, Len(t) <= 2 * PacketSize,
           UNCHANGED <<produced, got>>
    PROVE  Output!Next \/ UNCHANGED Output!vars
  <1>1. CASE t = << >>
    <2>1. Pending' = Pending
      BY <1>1, NeutralEmpty
    <2> QED BY <2>1 DEF Output!vars, Pending
  <1>2. CASE t # << >>
    <2> DEFINE first == Len(s) + 1
               n == Len(t)
    <2>1. /\ s \o t \in Seq(Byte) /\ Len(s \o t) = Len(s) + Len(t)
          /\ t \o u \in Seq(Byte) /\ Len(t \o u) = Len(t) + Len(u)
          /\ Len(Pending) = Len(s) + Len(t) + Len(u)
          /\ Len(s) \in Nat /\ Len(t) \in Nat /\ Len(u) \in Nat /\ Len(t) # 0
      BY <1>2, Joined, Empties
    <2>2. Pending = s \o (t \o u)
      BY Assoc
    <2>3. SubSeq(Pending, 1, Len(s)) = s
      BY <2>1, <2>2, Apart
    <2>4. SubSeq(Pending, Len(s \o t) + 1, Len(Pending)) = u
      BY <2>1, Apart
    <2>5. first - 1 = Len(s) /\ first + n = Len(s \o t) + 1
      BY <2>1
    <2>6. Pending' = SubSeq(Pending, 1, first - 1) \o SubSeq(Pending, first + n, Len(Pending))
      BY <2>3, <2>4, <2>5
    <2>7. first \in 1 .. Len(Pending) /\ n \in 1 .. Len(Pending) - first + 1
      BY <2>1
    <2> HIDE DEF first
    <2>8. Output!Lose(first, n)
      BY <2>6 DEF Output!Lose, Pending
    <2> QED BY <2>7, <2>8 DEF Output!Next, Pending
  <1> QED BY <1>1, <1>2

(* The parts of what is pending. *)
LEMMA Parts ==
    ASSUME IInv
    PROVE  /\ in_flight \in Seq(Byte) /\ fifo \in Seq(Byte) /\ Rest \in Seq(Byte)
           /\ usb_sendbuf \in Seq(Byte)
           /\ in_flight \o fifo \in Seq(Byte) /\ Rest \o usb_sendbuf \in Seq(Byte)
           /\ fifo \o Rest \in Seq(Byte) /\ (in_flight \o fifo) \o Rest \in Seq(Byte)
           /\ Len(in_flight) <= PacketSize /\ Len(fifo) <= PacketSize
           /\ Len(Rest) <= PacketSize
           /\ wr_len = 0 => Rest = int_buf
  <1>1. /\ in_flight \in Seq(Byte) /\ fifo \in Seq(Byte) /\ usb_sendbuf \in Seq(Byte)
        /\ int_buf \in Seq(Byte) /\ Len(int_buf) <= PacketSize /\ wr_len \in 0 .. Len(int_buf)
        /\ Len(in_flight) <= PacketSize /\ Len(fifo) <= PacketSize
    BY DEF IInv, TypeOK
  <1>2. Rest \in Seq(Byte) /\ Len(Rest) = Len(int_buf) - wr_len
    BY RestType DEF IInv
  <1>3. Len(Rest) <= PacketSize
    BY <1>1, <1>2, SizesAssumption
  <1>4. wr_len = 0 => Rest = int_buf
    BY <1>1, Whole DEF Rest
  <1>5. in_flight \o fifo \in Seq(Byte)
    BY <1>1, Joined
  <1> QED BY <1>1, <1>2, <1>3, <1>4, <1>5, Joined

LEMMA DataReceivedRefines ==
    ASSUME IInv, NEW n \in 1 .. MaxChunk, DataReceived(n)
    PROVE  Output!Put
  <1> DEFINE chunk == [i \in 1 .. n |-> produced + i]
  <1>1. /\ produced' = produced + n /\ UNCHANGED got
        /\ in_flight' = in_flight /\ fifo' = fifo /\ Rest' = Rest
        /\ usb_sendbuf' \in {usb_sendbuf \o chunk, usb_sendbuf}
    BY DEF DataReceived, sender, tinyusb, Rest
  <1>2. produced \in Nat /\ n \in Nat \ {0}
    BY SizesAssumption DEF IInv, TypeOK
  <1>3. produced' \in Nat /\ produced' > produced /\ produced' - produced = n
    BY <1>1, <1>2
  <1>4. chunk \in Seq(Byte)
    BY <1>2, ChunkType
  <1>5. [i \in 1 .. produced' - produced |-> produced + i] = chunk
    BY <1>3
  <1> HIDE DEF chunk
  <1>6. Pending' \in {Pending \o chunk, Pending}
    <2>1. CASE usb_sendbuf' = usb_sendbuf
      BY <1>1, <2>1 DEF Pending
    <2>2. CASE usb_sendbuf' = usb_sendbuf \o chunk
      <3> DEFINE front == (in_flight \o fifo) \o Rest
      <3>1. front \in Seq(Byte) /\ usb_sendbuf \in Seq(Byte)
        BY Parts
      <3>2. Pending' = front \o (usb_sendbuf \o chunk) /\ Pending = front \o usb_sendbuf
        BY <1>1, <2>2 DEF Pending
      <3> HIDE DEF front
      <3>3. Pending' = Pending \o chunk
        BY <1>4, <3>1, <3>2, Assoc
      <3> QED BY <3>3
    <2> QED BY <1>1, <2>1, <2>2
  <1> QED BY <1>1, <1>3, <1>5, <1>6 DEF Output!Put, Pending

(* A packet only moves from one place to the next. *)
LEMMA ReceiveRefines == ASSUME IInv, IInv', Receive PROVE UNCHANGED Output!vars
  <1>1. PICK n \in 1 .. PacketSize :
          /\ n <= Len(usb_sendbuf)
          /\ int_buf' = SubSeq(usb_sendbuf, 1, n)
          /\ usb_sendbuf' = SubSeq(usb_sendbuf, n + 1, Len(usb_sendbuf))
    BY DEF Receive
  <1>2. /\ UNCHANGED <<produced, got, in_flight, fifo>> /\ wr_len = 0 /\ int_buf = << >>
        /\ wr_len' = 0
    BY DEF Receive, tinyusb, IInv, BufferInv
  <1>3. int_buf' \in Seq(Byte) /\ usb_sendbuf' \in Seq(Byte) /\ int_buf' \o usb_sendbuf' = usb_sendbuf
    <2>1. usb_sendbuf \in Seq(Byte) /\ n \in 0 .. Len(usb_sendbuf)
      BY <1>1 DEF IInv, TypeOK
    <2> QED BY <1>1, <2>1, Cut
  <1>4. Rest = << >> /\ Rest' = int_buf'
    <2>1. Rest = << >>
      BY <1>2, Parts
    <2>2. Rest' = SubSeq(int_buf', 1, Len(int_buf'))
      BY <1>2 DEF Rest
    <2> QED BY <1>3, <2>1, <2>2, Whole
  <1> DEFINE front == in_flight \o fifo
  <1>5. front \in Seq(Byte) /\ front' = front
    BY <1>2, Parts
  <1>6. Pending' = (front \o int_buf') \o usb_sendbuf' /\ Pending = (front \o << >>) \o usb_sendbuf
    BY <1>2, <1>4 DEF Pending
  <1> HIDE DEF front
  <1>7. (front \o int_buf') \o usb_sendbuf' = front \o (int_buf' \o usb_sendbuf')
    BY <1>3, <1>5, Assoc
  <1>8. front \o << >> = front
    BY <1>5, NeutralEmpty
  <1>9. Pending' = Pending
    BY <1>3, <1>6, <1>7, <1>8
  <1> QED BY <1>2, <1>9 DEF Output!vars, Pending

LEMMA WriteRefines == ASSUME IInv, Write PROVE UNCHANGED Output!vars
  <1> DEFINE room == PacketSize - Len(fifo)
             n == IF Len(int_buf) < room THEN Len(int_buf) ELSE room
             a == SubSeq(int_buf, 1, n)
             b == SubSeq(int_buf, n + 1, Len(int_buf))
  <1>1. /\ fifo' = fifo \o a /\ wr_len' = n
        /\ UNCHANGED <<produced, got, in_flight, int_buf, usb_sendbuf>>
        /\ wr_len = 0
    BY DEF Write, IInv, BufferInv
  <1>2. n \in 0 .. Len(int_buf)
    BY SizesAssumption DEF IInv, TypeOK
  <1>3. a \in Seq(Byte) /\ b \in Seq(Byte) /\ a \o b = int_buf
    <2> HIDE DEF n
    <2> QED BY <1>2, Cut DEF IInv, TypeOK
  <1>4. Rest' = b /\ Rest = int_buf
    <2>1. Rest = int_buf
      BY <1>1, Parts
    <2>2. Rest' = SubSeq(int_buf', wr_len' + 1, Len(int_buf'))
      BY DEF Rest
    <2> QED BY <1>1, <2>1, <2>2
  <1> HIDE DEF n, a, b
  <1>5. /\ in_flight \in Seq(Byte) /\ fifo \in Seq(Byte) /\ in_flight \o fifo \in Seq(Byte)
    BY Parts
  <1>6. (in_flight \o (fifo \o a)) \o b = (in_flight \o fifo) \o (a \o b)
    <2>1. in_flight \o (fifo \o a) = (in_flight \o fifo) \o a
      BY <1>3, <1>5, Assoc
    <2>2. ((in_flight \o fifo) \o a) \o b = (in_flight \o fifo) \o (a \o b)
      BY <1>3, <1>5, Assoc
    <2> QED BY <2>1, <2>2
  <1>7. Pending' = Pending
    BY <1>1, <1>3, <1>4, <1>6 DEF Pending
  <1> QED BY <1>1, <1>7 DEF Output!vars, Pending

LEMMA StartRefines ==
    ASSUME IInv, StartTransfer, UNCHANGED <<produced, got, usb_sendbuf, int_buf, wr_len>>
    PROVE  UNCHANGED Output!vars
  <1>1. in_flight' \o fifo' = in_flight \o fifo
    BY StartFacts
  <1>2. Rest' = Rest
    BY DEF Rest
  <1> QED BY <1>1, <1>2 DEF Output!vars

LEMMA WaitedRefines == ASSUME IInv, Waited PROVE UNCHANGED Output!vars
  <1>1. int_buf' = Rest /\ wr_len' = 0 /\ UNCHANGED <<produced, got, usb_sendbuf, in_flight, fifo>>
    BY DEF Waited, tinyusb, Rest
  <1>2. Rest' = SubSeq(int_buf', 1, Len(int_buf'))
    BY <1>1 DEF Rest
  <1>3. Rest' = Rest
    BY <1>1, <1>2, Parts, Whole
  <1> QED BY <1>1, <1>3 DEF Output!vars

(* A timeout costs what is in the FIFO and what is left of the packet. *)
LEMMA WriteClearRefines ==
    ASSUME IInv, WriteClear
    PROVE  Output!Next \/ UNCHANGED Output!vars
  <1>1. /\ fifo' = << >> /\ int_buf' = << >> /\ wr_len' = 0
        /\ UNCHANGED <<produced, got, usb_sendbuf, in_flight>>
    BY DEF WriteClear
  <1>2. Rest' = << >>
    <2>1. Rest' = SubSeq(int_buf', 1, Len(int_buf'))
      BY <1>1 DEF Rest
    <2> QED BY <1>1, <2>1, Empties, Whole
  <1>3. /\ in_flight \in Seq(Byte) /\ fifo \in Seq(Byte) /\ Rest \in Seq(Byte)
        /\ usb_sendbuf \in Seq(Byte) /\ fifo \o Rest \in Seq(Byte)
        /\ Len(fifo) <= PacketSize /\ Len(Rest) <= PacketSize
    BY Parts
  <1>4. Pending' = in_flight \o usb_sendbuf
    BY <1>1, <1>2, <1>3, NeutralEmpty DEF Pending
  <1>5. Pending = (in_flight \o (fifo \o Rest)) \o usb_sendbuf
    BY <1>3, Assoc DEF Pending
  <1>6. Len(fifo \o Rest) <= 2 * PacketSize
    <2>1. Len(fifo \o Rest) = Len(fifo) + Len(Rest) /\ Len(fifo) \in Nat /\ Len(Rest) \in Nat
      BY <1>3, Joined, Empties
    <2> QED BY <1>3, <2>1, SizesAssumption
  <1> QED BY <1>1, <1>3, <1>4, <1>5, <1>6, LoseBetween

LEMMA CompleteRefines ==
    ASSUME IInv, Complete
    PROVE  Output!Next \/ UNCHANGED Output!vars
  <1>1. /\ in_flight' = << >> /\ UNCHANGED <<produced, usb_sendbuf, fifo, int_buf, wr_len>>
        /\ got' = IF in_flight = << >> THEN got ELSE in_flight[Len(in_flight)]
    BY DEF Complete, sender
  <1>2. Rest' = Rest
    BY <1>1 DEF Rest
  <1>3. /\ in_flight \in Seq(Byte) /\ fifo \in Seq(Byte) /\ Rest \in Seq(Byte)
        /\ usb_sendbuf \in Seq(Byte) /\ fifo \o Rest \in Seq(Byte)
    BY Parts
  <1> DEFINE back == (fifo \o Rest) \o usb_sendbuf
  <1>4. back \in Seq(Byte) /\ Pending' = back
    BY <1>1, <1>2, <1>3, Joined, NeutralEmpty DEF Pending
  <1>5. Pending = in_flight \o back
    <2>1. (in_flight \o fifo) \o Rest = in_flight \o (fifo \o Rest)
      BY <1>3, Assoc
    <2>2. (in_flight \o (fifo \o Rest)) \o usb_sendbuf
            = in_flight \o ((fifo \o Rest) \o usb_sendbuf)
      BY <1>3, Assoc
    <2> QED BY <2>1, <2>2 DEF Pending
  <1> HIDE DEF back
  <1>6. CASE in_flight = << >>
    <2>1. Pending' = Pending
      BY <1>4, <1>5, <1>6, NeutralEmpty
    <2> QED BY <1>1, <1>6, <2>1 DEF Output!vars, Pending
  <1>7. CASE in_flight # << >>
    <2> DEFINE n == Len(in_flight)
    <2>1. n \in Nat \ {0} /\ Len(Pending) = n + Len(back) /\ Len(back) \in Nat
      BY <1>3, <1>4, <1>5, <1>7, Joined, Empties
    <2>2. Pending[n] = in_flight[n]
      BY <1>3, <1>4, <1>5, <2>1
    <2>3. SubSeq(Pending, n + 1, Len(Pending)) = back
      BY <1>3, <1>4, <1>5, Apart
    <2>4. n \in 1 .. Len(Pending)
      BY <2>1
    <2> HIDE DEF n
    <2>5. got' = Pending[n]
      BY <1>1, <1>7, <2>2 DEF n
    <2>6. Output!Deliver(n)
      BY <1>1, <1>4, <2>3, <2>4, <2>5 DEF Output!Deliver, Pending
    <2> QED BY <2>4, <2>6 DEF Output!Next, Pending
  <1> QED BY <1>6, <1>7

LEMMA UnplugRefines ==
    ASSUME IInv, Unplug
    PROVE  Output!Next \/ UNCHANGED Output!vars
  <1>1. /\ fifo' = << >> /\ in_flight' = << >>
        /\ UNCHANGED <<produced, got, usb_sendbuf, int_buf, wr_len>>
    BY DEF Unplug, sender
  <1>2. Rest' = Rest
    BY <1>1 DEF Rest
  <1> DEFINE lost == in_flight \o fifo
             back == Rest \o usb_sendbuf
  <1>3. /\ lost \in Seq(Byte) /\ back \in Seq(Byte) /\ Rest \in Seq(Byte)
        /\ usb_sendbuf \in Seq(Byte)
    BY Parts
  <1>4. Len(lost) <= 2 * PacketSize
    <2>1. /\ in_flight \in Seq(Byte) /\ fifo \in Seq(Byte)
          /\ Len(in_flight) <= PacketSize /\ Len(fifo) <= PacketSize
      BY Parts
    <2>2. Len(lost) = Len(in_flight) + Len(fifo) /\ Len(in_flight) \in Nat /\ Len(fifo) \in Nat
      BY <2>1, Joined, Empties
    <2> QED BY <2>1, <2>2, SizesAssumption
  <1>5. Pending' = << >> \o back
    <2>1. << >> \o << >> = << >> /\ << >> \in Seq(Byte)
      BY Empties, NeutralEmpty
    <2>2. Pending' = ((<< >> \o << >>) \o Rest) \o usb_sendbuf
      BY <1>1, <1>2 DEF Pending
    <2> QED BY <1>3, <2>1, <2>2, NeutralEmpty
  <1>6. Pending = (<< >> \o lost) \o back
    <2>1. << >> \o lost = lost
      BY <1>3, NeutralEmpty
    <2>2. Pending = (lost \o Rest) \o usb_sendbuf
      BY DEF Pending
    <2> HIDE DEF lost
    <2> QED BY <1>3, <2>1, <2>2, Assoc
  <1> HIDE DEF lost, back
  <1> QED BY <1>1, <1>3, <1>4, <1>5, <1>6, Empties, LoseBetween

(* Every step is one of the abstract specification or a stutter. *)
LEMMA NextRefines == IInv /\ IInv' /\ [Next]_vars => [Output!Next]_(Output!vars)
  <1> SUFFICES ASSUME IInv, IInv', [Next]_vars PROVE Output!Next \/ UNCHANGED Output!vars
    OBVIOUS
  <1>1. CASE \E n \in 1 .. MaxChunk : DataReceived(n)
    BY <1>1, DataReceivedRefines DEF Output!Next
  <1>2. CASE SenderStep
    <2>1. CASE Request \/ TimeOut \/ TakeBack
      BY <2>1 DEF Request, TimeOut, TakeBack, tinyusb, Output!vars, Rest
    <2>2. CASE Flush
      BY <2>2, StartRefines DEF Flush
    <2> QED BY <1>2, <2>1, <2>2, ReceiveRefines, WriteRefines, WaitedRefines, WriteClearRefines
            DEF SenderStep
  <1>3. CASE UsbStep
    <2>1. CASE TxComplete \/ TxDone \/ Plug
      BY <2>1 DEF TxComplete, TxDone, Plug, sender, tinyusb, Output!vars, Rest
    <2>2. CASE SendNext
      <3>1. CASE UNCHANGED <<fifo, in_flight>>
        BY <2>2, <3>1 DEF SendNext, sender, Output!vars, Rest
      <3>2. CASE StartTransfer
        BY <2>2, <3>2, StartRefines DEF SendNext, sender
      <3> QED BY <2>2, <3>1, <3>2 DEF SendNext
    <2> QED BY <1>3, <2>1, <2>2, CompleteRefines, UnplugRefines DEF UsbStep
  <1>4. CASE UNCHANGED vars
    BY <1>4 DEF vars, sender, tinyusb, Output!vars, Rest
  <1> QED BY <1>1, <1>2, <1>3, <1>4 DEF Next

LEMMA InitRefines == Init => Output!Init
  <1> SUFFICES ASSUME Init PROVE Output!Init
    OBVIOUS
  <1>1. Rest = << >>
    BY Empties, Whole DEF Init, Rest
  <1>2. << >> \o << >> = << >>
    BY Empties, NeutralEmpty
  <1> QED BY <1>1, <1>2 DEF Init, Output!Init

(* The host gets the target's bytes in order and at most once, and each     *)
(* loss is bounded, for every interleaving of the tasks.                   *)
THEOREM Implementation == Spec => ImplementsLossyFifo
  <1>1. Init => Output!Init
    BY InitRefines
  <1>2. IInv /\ IInv' /\ [Next]_vars => [Output!Next]_(Output!vars)
    BY NextRefines
  <1>3. Spec => []IInv
    BY Invariance
  <1> QED BY <1>1, <1>2, <1>3, PTL DEF Spec, ImplementsLossyFifo, Output!Spec
=============================================================================
