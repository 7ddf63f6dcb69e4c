---------------------------- MODULE UartRxProofs ----------------------------
(***************************************************************************)
(* Theorems about UartRx, for every size of buffer, queue and read within  *)
(* SizesAssumption.  Why no byte is stranded is a count: the reads that    *)
(* the queued events promise take at least as many bytes as there are.     *)
(***************************************************************************)
EXTENDS UartRx, TLAPS

(* The bytes the driver has, and the reads that are to come *)
Lying == Len(rx) + Len(held)

Reading == IF pc \in {"data", "length", "read", "blocked"} THEN 1 ELSE 0

Coming == Len(uart_queue) + Reading

(* Bytes are held back for want of room only.  A read under way takes the  *)
(* most a read can, or leaves what the queued events will fetch.           *)
Promised ==
    /\ held # << >> => Lying > RxSize
    /\ pc \in {"read", "blocked"} =>
          passed \/ want = ReadSize \/ Lying - want <= ReadSize * Len(uart_queue)
    /\ pc # "flush" => passed \/ Lying <= ReadSize * Coming

(* The bytes the driver has that are part of an answer *)
Answering == Contains(rx, "answer") \/ Contains(held, "answer")

(* Who may have the answers: the loader, while it listens and the task     *)
(* neither reads nor has read.                                             *)
Private ==
    /\ loader = "idle" <=> ~is_flashing
    /\ loader \in {"idle", "connect"} => target = "app"
    /\ loader \in {"ask", "listen"} => pc \notin {"length", "read", "blocked", "callback"}
    /\ target = "answering" => loader = "listen"
    /\ loader # "listen" => ~Answering
    /\ ~Contains(dtmp, "answer")
    /\ ~overheard

-----------------------------------------------------------------------------
(* Sequences of bytes *)

LEMMA Lengths ==
    ASSUME NEW S, NEW s \in Seq(S)
    PROVE  Len(s) \in Nat /\ (s = << >> <=> Len(s) = 0)
OBVIOUS

LEMMA Cut ==
    ASSUME NEW S, NEW s \in Seq(S), NEW n \in 0 .. Len(s)
    PROVE  /\ SubSeq(s, 1, n) \in Seq(S) /\ Len(SubSeq(s, 1, n)) = n
           /\ \A i \in 1 .. n : SubSeq(s, 1, n)[i] = s[i]
           /\ SubSeq(s, n + 1, Len(s)) \in Seq(S)
           /\ Len(SubSeq(s, n + 1, Len(s))) = Len(s) - n
           /\ \A i \in 1 .. Len(s) - n : SubSeq(s, n + 1, Len(s))[i] = s[n + i]
<1>1. /\ SubSeq(s, 1, n) \in Seq(S) /\ Len(SubSeq(s, 1, n)) = n
      /\ \A i \in 1 .. n : SubSeq(s, 1, n)[i] = s[i]
  OBVIOUS
<1>2. /\ SubSeq(s, n + 1, Len(s)) \in Seq(S)
      /\ Len(SubSeq(s, n + 1, Len(s))) = Len(s) - n
      /\ \A i \in 1 .. Len(s) - n : SubSeq(s, n + 1, Len(s))[i] = s[n + i]
  OBVIOUS
<1> QED BY <1>1, <1>2

LEMMA Concat ==
    ASSUME NEW S, NEW s \in Seq(S), NEW t \in Seq(S)
    PROVE  /\ s \o t \in Seq(S) /\ Len(s \o t) = Len(s) + Len(t)
           /\ \A i \in 1 .. Len(s) : (s \o t)[i] = s[i]
           /\ \A i \in 1 .. Len(t) : (s \o t)[Len(s) + i] = t[i]
OBVIOUS

(* What two sequences hold *)
LEMMA ContainsConcat ==
    ASSUME NEW S, NEW s \in Seq(S), NEW t \in Seq(S), NEW e
    PROVE  Contains(s \o t, e) <=> Contains(s, e) \/ Contains(t, e)
<1> DEFINE m == Len(s)
           n == Len(t)
           c == s \o t
<1>1. m \in Nat /\ n \in Nat /\ Len(c) = m + n
      /\ (\A i \in 1 .. m : c[i] = s[i]) /\ (\A i \in 1 .. n : c[m + i] = t[i])
  BY Concat
<1>2. ASSUME Contains(c, e) PROVE Contains(s, e) \/ Contains(t, e)
  <2>1. PICK i \in 1 .. Len(c) : c[i] = e
    BY <1>2 DEF Contains
  <2> HIDE DEF c
  <2>2. CASE i <= m
    <3>1. i \in 1 .. m /\ s[i] = e
      BY <1>1, <2>1, <2>2
    <3> QED BY <3>1 DEF Contains
  <2>3. CASE ~(i <= m)
    <3>1. i - m \in 1 .. n /\ m + (i - m) = i
      BY <1>1, <2>1, <2>3
    <3>2. t[i - m] = e
      BY <1>1, <2>1, <3>1
    <3> QED BY <3>1, <3>2 DEF Contains
  <2> QED BY <2>2, <2>3
<1>3. ASSUME Contains(s, e) PROVE Contains(c, e)
  <2>1. PICK i \in 1 .. m : s[i] = e
    BY <1>3 DEF Contains
  <2>2. i \in 1 .. Len(c) /\ c[i] = e
    BY <1>1, <2>1
  <2> QED BY <2>2 DEF Contains
<1>4. ASSUME Contains(t, e) PROVE Contains(c, e)
  <2>1. PICK i \in 1 .. n : t[i] = e
    BY <1>4 DEF Contains
  <2>2. m + i \in 1 .. Len(c) /\ c[m + i] = e
    BY <1>1, <2>1
  <2> QED BY <2>2 DEF Contains
<1> QED BY <1>2, <1>3, <1>4

(* A part holds nothing more. *)
LEMMA ContainsCut ==
    ASSUME NEW S, NEW s \in Seq(S), NEW n \in 0 .. Len(s), NEW e
    PROVE  /\ Contains(SubSeq(s, 1, n), e) => Contains(s, e)
           /\ Contains(SubSeq(s, n + 1, Len(s)), e) => Contains(s, e)
<1> DEFINE a == SubSeq(s, 1, n)
           b == SubSeq(s, n + 1, Len(s))
<1>1. Len(s) \in Nat
  OBVIOUS
<1>2. /\ Len(a) = n /\ (\A i \in 1 .. n : a[i] = s[i])
      /\ Len(b) = Len(s) - n /\ (\A i \in 1 .. Len(s) - n : b[i] = s[n + i])
  BY Cut
<1> HIDE DEF a, b
<1>3. ASSUME Contains(a, e) PROVE Contains(s, e)
  <2>1. PICK i \in 1 .. Len(a) : a[i] = e
    BY <1>3 DEF Contains
  <2>2. i \in 1 .. Len(s) /\ s[i] = e
    BY <1>1, <1>2, <2>1
  <2> QED BY <2>2 DEF Contains
<1>4. ASSUME Contains(b, e) PROVE Contains(s, e)
  <2>1. PICK i \in 1 .. Len(b) : b[i] = e
    BY <1>4 DEF Contains
  <2>2. n + i \in 1 .. Len(s) /\ s[n + i] = e
    BY <1>1, <1>2, <2>1
  <2> QED BY <2>2 DEF Contains
<1> QED BY <1>3, <1>4 DEF a, b

LEMMA ContainsNone == \A e : ~Contains(<< >>, e)
BY DEF Contains

-----------------------------------------------------------------------------
(* The driver *)

LEMMA Sizes ==
    /\ RxSize \in Nat \ {0} /\ QueueSize \in Nat \ {0} /\ ReadSize \in Nat \ {0}
    /\ Chunk \in Nat \ {0} /\ Chunk <= ReadSize /\ ReadSize + Chunk <= RxSize
    /\ QueueSize * ReadSize >= RxSize + Chunk
BY SizesAssumption

(* What is left when n bytes have been taken *)
LEMMA TakenFacts ==
    ASSUME TypeOK, Promised, NEW n \in 0 .. Len(rx), Taken(n)
    PROVE  /\ rx' \in Seq(Byte) /\ Len(rx') <= RxSize
           /\ held' \in Seq(Byte) /\ Len(held') <= Chunk
           /\ Lying' = Lying - n
           /\ held' # << >> => Lying' > RxSize
           /\ rx' = << >> => Lying' = 0
           /\ Answering' => Answering
<1> DEFINE rest == SubSeq(rx, n + 1, Len(rx))
<1>1. rx \in Seq(Byte) /\ held \in Seq(Byte) /\ Len(rx) <= RxSize /\ Len(held) <= Chunk
      /\ Len(rx) \in Nat /\ Len(held) \in Nat /\ (held = << >> <=> Len(held) = 0)
  BY Lengths DEF TypeOK
<1>2. rest \in Seq(Byte) /\ Len(rest) = Len(rx) - n /\ Len(rest) \in Nat
      /\ (Contains(rest, "answer") => Contains(rx, "answer"))
      /\ (rest = << >> <=> Len(rest) = 0)
  <2>1. rest \in Seq(Byte) /\ Len(rest) = Len(rx) - n
    BY <1>1, Cut
  <2>2. Contains(rest, "answer") => Contains(rx, "answer")
    BY <1>1, ContainsCut
  <2> HIDE DEF rest
  <2> QED BY <2>1, <2>2, Lengths
<1>3. IF Len(rest) + Len(held) <= RxSize
      THEN rx' = rest \o held /\ held' = << >>
      ELSE rx' = rest /\ held' = held
  BY DEF Taken
<1> HIDE DEF rest
<1>4. CASE Len(rest) + Len(held) <= RxSize
  <2>1. rx' = rest \o held /\ held' = << >>
    BY <1>3, <1>4
  <2>2. rx' \in Seq(Byte) /\ Len(rx') = Len(rest) + Len(held)
    BY <1>1, <1>2, <2>1, Concat
  <2>3. held' \in Seq(Byte) /\ Len(held') = 0
    BY <2>1
  <2>4. Lying' = Lying - n /\ (rx' = << >> => Lying' = 0)
    BY <1>1, <1>2, <2>2, <2>3, Lengths DEF Lying
  <2>5. Answering' => Answering
    BY <1>1, <1>2, <2>1, ContainsConcat, ContainsNone DEF Answering
  <2> QED BY <1>1, <1>4, <2>1, <2>2, <2>3, <2>4, <2>5, Sizes
<1>5. CASE ~(Len(rest) + Len(held) <= RxSize)
  <2>1. rx' = rest /\ held' = held
    BY <1>3, <1>5
  <2>2. Lying' = Lying - n /\ Lying' > RxSize
    BY <1>1, <1>2, <1>5, <2>1, Sizes DEF Lying
  <2>3. rx' # << >>
    BY <1>1, <1>2, <1>5, <2>1, Sizes
  <2> QED BY <1>1, <1>2, <2>1, <2>2, <2>3, Sizes DEF Answering
<1> QED BY <1>4, <1>5

LEMMA QueueType ==
    ASSUME TypeOK
    PROVE  /\ uart_queue \in Seq({"data", "full", "fifo"})
           /\ Len(uart_queue) \in Nat /\ Len(uart_queue) <= QueueSize
           /\ (uart_queue = << >> <=> Len(uart_queue) = 0)
           /\ Len(rx) \in Nat /\ Len(held) \in Nat /\ Lying \in Nat
           /\ Reading \in {0, 1} /\ Coming \in Nat /\ want \in Nat /\ want <= ReadSize
BY Sizes DEF TypeOK, Lying, Coming, Reading

(* An event finds its place in the queue unless the queue is full. *)
LEMMA PostedFacts ==
    ASSUME TypeOK, NEW e \in {"data", "full", "fifo"}, uart_queue' = Posted(e)
    PROVE  /\ uart_queue' \in Seq({"data", "full", "fifo"}) /\ Len(uart_queue') <= QueueSize
           /\ \/ Len(uart_queue') = Len(uart_queue) + 1
              \/ Len(uart_queue') = QueueSize /\ Len(uart_queue) = QueueSize
<1>1. Len(uart_queue) \in Nat /\ Len(uart_queue) <= QueueSize
      /\ uart_queue \in Seq({"data", "full", "fifo"})
  BY QueueType
<1>2. CASE Len(uart_queue) < QueueSize
  <2>1. uart_queue' = Append(uart_queue, e)
    BY <1>2 DEF Posted
  <2>2. uart_queue' \in Seq({"data", "full", "fifo"}) /\ Len(uart_queue') = Len(uart_queue) + 1
    BY <1>1, <2>1
  <2> QED BY <1>1, <1>2, <2>2, Sizes
<1>3. CASE ~(Len(uart_queue) < QueueSize)
  BY <1>1, <1>3, Sizes DEF Posted
<1> QED BY <1>2, <1>3

(* Another event promises a read, and a full queue promises enough of them. *)
LEMMA MoreReads ==
    ASSUME NEW k \in Nat, NEW n \in Nat, n <= Chunk
    PROVE  /\ ReadSize * (k + 1) = ReadSize * k + ReadSize
           /\ ReadSize * k \in Nat
           /\ ReadSize * k + n <= ReadSize * (k + 1)
           /\ k >= QueueSize => RxSize + Chunk <= ReadSize * k
<1>1. ReadSize * (k + 1) = ReadSize * k + ReadSize /\ ReadSize * k \in Nat
  BY Sizes
<1>2. k >= QueueSize => ReadSize * k >= QueueSize * ReadSize
  BY Sizes
<1> QED BY <1>1, <1>2, Sizes

LEMMA SumWithin ==
    ASSUME NEW a \in Nat, NEW n \in Nat, NEW c \in Nat, NEW d \in Int, c + n <= d
    PROVE  a <= c => a + n <= d
OBVIOUS

(* n bytes more at most, and an event for them: the count still holds. *)
LEMMA CountKept ==
    ASSUME TypeOK, Promised, NEW e \in {"data", "full", "fifo"}, uart_queue' = Posted(e),
           UNCHANGED <<task, passed>>, NEW n \in Nat, n <= Chunk, Lying' = Lying + n,
           Lying' <= RxSize + Chunk, held' # << >> => Lying' > RxSize
    PROVE  Promised'
<1> DEFINE l == Len(uart_queue)
<1>1. /\ l \in Nat /\ Lying \in Nat /\ Lying' \in Nat /\ want \in Nat /\ Coming = l + Reading
      /\ Reading \in {0, 1} /\ Reading' = Reading
  BY QueueType DEF Coming, Reading, task
<1>2. \/ Len(uart_queue') = l + 1
      \/ Len(uart_queue') = QueueSize /\ l = QueueSize
  BY PostedFacts
<1>3. UNCHANGED <<pc, want, passed>> /\ Coming' = Len(uart_queue') + Reading
  BY <1>1 DEF task, Coming, Reading
<1>4. CASE Len(uart_queue') = l + 1
  <2>1. Lying <= ReadSize * Coming => Lying' <= ReadSize * Coming'
    <3>1. Coming' = Coming + 1 /\ Coming \in Nat
      BY <1>1, <1>3, <1>4
    <3>2. ReadSize * Coming + n <= ReadSize * (Coming + 1) /\ ReadSize * Coming \in Nat
          /\ ReadSize * (Coming + 1) \in Int
      BY <3>1, MoreReads, Sizes
    <3>3. Lying <= ReadSize * Coming => Lying + n <= ReadSize * (Coming + 1)
      BY <1>1, <3>1, <3>2, SumWithin
    <3> QED BY <3>1, <3>3
  <2>2. Lying - want <= ReadSize * l => Lying' - want <= ReadSize * Len(uart_queue')
    <3>1. ReadSize * l + n <= ReadSize * (l + 1) /\ ReadSize * l \in Nat
      BY <1>1, MoreReads
    <3>2. Lying - want <= ReadSize * l => (Lying + n) - want <= ReadSize * (l + 1)
      BY <1>1, <3>1, Sizes
    <3> QED BY <1>4, <3>2
  <2> QED BY <1>3, <2>1, <2>2 DEF Promised
<1>5. CASE Len(uart_queue') = QueueSize
  <2>1. Lying' <= ReadSize * Coming'
    <3>1. Coming' \in Nat /\ Coming' >= QueueSize
      BY <1>1, <1>3, <1>5, Sizes
    <3>2. RxSize + Chunk <= ReadSize * Coming' /\ ReadSize * Coming' \in Nat
      BY <3>1, MoreReads
    <3> QED BY <1>1, <3>2, Sizes
  <2>2. Lying' - want <= ReadSize * Len(uart_queue')
    <3>1. RxSize + Chunk <= ReadSize * QueueSize
      BY Sizes
    <3> QED BY <1>1, <1>5, <3>1, Sizes
  <2> QED BY <1>3, <2>1, <2>2 DEF Promised
<1> QED BY <1>2, <1>4, <1>5

InterruptKeeps(b) ==
    /\ rx' \in Seq(Byte) /\ Len(rx') <= RxSize
    /\ held' \in Seq(Byte) /\ Len(held') <= Chunk
    /\ uart_queue' \in Seq({"data", "full", "fifo"}) /\ Len(uart_queue') <= QueueSize
    /\ chunks' \in 0 .. MaxChunks
    /\ b = "output" /\ Answering' => Answering
    /\ Promised'

(* What an interrupt leaves *)
LEMMA InterruptFacts ==
    ASSUME TypeOK, Promised, NEW n \in 1 .. Chunk, NEW b \in Byte, Interrupt(n, b)
    PROVE  InterruptKeeps(b)
<1> DEFINE bytes == [i \in 1 .. n |-> b]
<1>1. n \in Nat /\ n <= Chunk
  BY Sizes
<1>2. bytes \in Seq(Byte) /\ Len(bytes) = n
      /\ (b = "output" => ~Contains(bytes, "answer")) /\ bytes # << >>
  <2>1. bytes \in Seq(Byte) /\ Len(bytes) = n
    BY <1>1
  <2>2. b = "output" => ~Contains(bytes, "answer")
    BY <2>1 DEF Contains
  <2>3. Len(bytes) # 0
    BY <2>1
  <2> HIDE DEF bytes
  <2> QED BY <2>1, <2>2, <2>3, Lengths
<1>3. /\ UNCHANGED <<task, passed>> /\ chunks' \in 0 .. MaxChunks
      /\ CASE held # << >> -> UNCHANGED driver
           [] held = << >> /\ Room(n) ->
                 rx' = rx \o bytes /\ uart_queue' = Posted("data") /\ UNCHANGED held
           [] OTHER -> held' = bytes /\ uart_queue' = Posted("full") /\ UNCHANGED rx
  <2>1. chunks \in 0 .. MaxChunks /\ chunks < MaxChunks /\ chunks' = chunks + 1
    BY DEF Interrupt, TypeOK
  <2>2. chunks' \in 0 .. MaxChunks
    BY <2>1, SizesAssumption
  <2> QED BY <2>2 DEF Interrupt
<1> HIDE DEF bytes
<1>4. rx \in Seq(Byte) /\ held \in Seq(Byte) /\ Len(rx) <= RxSize /\ Len(held) <= Chunk
      /\ Len(rx) \in Nat /\ Len(held) \in Nat /\ (held = << >> <=> Len(held) = 0)
  BY Lengths DEF TypeOK
<1>5. CASE held # << >>
  <2>1. UNCHANGED <<rx, held, uart_queue, pc, want, passed>>
    BY <1>3, <1>5 DEF driver, task
  <2>2. Promised' /\ (Answering' => Answering)
    BY <2>1 DEF Promised, Answering, Lying, Coming, Reading
  <2> QED BY <1>3, <1>4, <2>1, <2>2, QueueType DEF InterruptKeeps
<1>6. CASE held = << >> /\ Room(n)
  <2>1. rx' = rx \o bytes /\ uart_queue' = Posted("data") /\ held' = held
    BY <1>3, <1>6
  <2>2. rx' \in Seq(Byte) /\ Len(rx') = Len(rx) + n
    BY <1>2, <1>4, <2>1, Concat
  <2>3. Len(rx') <= RxSize /\ Lying' = Lying + n /\ Lying' <= RxSize + Chunk
    BY <1>1, <1>4, <1>6, <2>1, <2>2, Sizes DEF Room, Lying
  <2>4. Promised'
    BY <1>1, <1>3, <1>6, <2>1, <2>3, CountKept
  <2>5. b = "output" /\ Answering' => Answering
    BY <1>2, <1>4, <2>1, ContainsConcat DEF Answering
  <2> QED BY <1>3, <1>4, <2>1, <2>2, <2>3, <2>4, <2>5, PostedFacts DEF InterruptKeeps
<1>7. CASE held = << >> /\ ~Room(n)
  <2>1. held' = bytes /\ uart_queue' = Posted("full") /\ rx' = rx
    BY <1>3, <1>7
  <2>2. Lying' = Lying + n /\ Lying' <= RxSize + Chunk /\ Lying' > RxSize
    BY <1>1, <1>2, <1>4, <1>7, <2>1, Sizes DEF Room, Lying
  <2>3. Promised'
    BY <1>1, <1>3, <2>1, <2>2, CountKept
  <2>4. b = "output" /\ Answering' => Answering
    BY <1>2, <2>1 DEF Answering
  <2> QED BY <1>1, <1>2, <1>3, <1>4, <2>1, <2>3, <2>4, PostedFacts DEF InterruptKeeps
<1> QED BY <1>5, <1>6, <1>7
(* An interrupt takes nothing away. *)
LEMMA InterruptGrows ==
    ASSUME TypeOK, NEW n \in 1 .. Chunk, NEW b \in Byte, Interrupt(n, b)
    PROVE  /\ Len(rx') >= Len(rx) /\ Len(rx) \in Nat /\ Len(rx') \in Nat
           /\ UNCHANGED task
<1> DEFINE bytes == [i \in 1 .. n |-> b]
<1>1. rx \in Seq(Byte) /\ Len(rx) \in Nat /\ bytes \in Seq(Byte) /\ Len(bytes) \in Nat
  BY Sizes DEF TypeOK
<1>2. UNCHANGED task /\ (rx' = rx \/ rx' = rx \o bytes)
  BY DEF Interrupt, driver
<1> HIDE DEF bytes
<1> QED BY <1>1, <1>2, Concat

-----------------------------------------------------------------------------
(* The types *)

(* A read in progress takes no more than there is. *)
LEMMA ReadTakes ==
    ASSUME TypeOK, Promised, ReadBytes, Len(rx) >= want
    PROVE  /\ want \in 0 .. Len(rx) /\ Taken(want)
           /\ dtmp' = SubSeq(rx, 1, want) /\ dtmp' \in Seq(Byte) /\ Len(dtmp') = want
           /\ pc' = "callback" /\ passed' = (passed /\ rx' # << >>)
<1>1. want \in 0 .. Len(rx) /\ rx \in Seq(Byte)
  BY QueueType DEF TypeOK
<1>2. dtmp' = SubSeq(rx, 1, want) /\ Taken(want)
      /\ pc' = "callback" /\ passed' = (passed /\ rx' # << >>)
  BY DEF ReadBytes
<1> QED BY <1>1, <1>2, Cut

LEMMA TypeStep ==
    ASSUME TypeOK, Promised, [Next]_vars
    PROVE  TypeOK'
<1> USE DEF TypeOK, driver, task, session
<1>1. ASSUME NEW n \in 1 .. Chunk, Output(n) PROVE TypeOK'
  <2>1. InterruptKeeps("output") /\ UNCHANGED <<data_callback, task, overheard, passed, session>>
    BY <1>1, InterruptFacts DEF Output, Interrupt, Byte
  <2> QED BY <2>1 DEF InterruptKeeps
<1>2. ASSUME NEW n \in 1 .. Chunk, Answer(n) PROVE TypeOK'
  <2>1. InterruptKeeps("answer") /\ UNCHANGED <<data_callback, task, overheard, passed>>
        /\ UNCHANGED <<is_flashing, loader, sessions>> /\ target' = "loader"
    BY <1>2, InterruptFacts DEF Answer, Interrupt, Byte
  <2> QED BY <2>1 DEF InterruptKeeps
<1>3. CASE FifoOverflow
  <2>1. uart_queue' \in Seq({"data", "full", "fifo"}) /\ Len(uart_queue') <= QueueSize
    BY <1>3, PostedFacts DEF FifoOverflow
  <2>2. chunks' \in 0 .. MaxChunks
    BY <1>3, SizesAssumption DEF FifoOverflow
  <2> QED BY <1>3, <2>1, <2>2 DEF FifoOverflow
<1>4. CASE RegisterDataCallback
  BY <1>4 DEF RegisterDataCallback
<1>5. CASE ReceiveEvent
  <2>1. Tail(uart_queue) \in Seq({"data", "full", "fifo"}) /\ Len(Tail(uart_queue)) <= QueueSize
    <3> DEFINE q == uart_queue
    <3>1. q \in Seq({"data", "full", "fifo"}) /\ q # << >> /\ Len(q) <= QueueSize
      BY <1>5 DEF ReceiveEvent
    <3>2. Tail(q) \in Seq({"data", "full", "fifo"}) /\ Len(Tail(q)) = Len(q) - 1 /\ Len(q) \in Nat
      BY <3>1
    <3> HIDE DEF q
    <3>3. Len(Tail(q)) <= QueueSize
      BY <3>1, <3>2, Sizes
    <3> QED BY <3>2, <3>3 DEF q
  <2> QED BY <1>5, <2>1 DEF ReceiveEvent
<1>6. CASE TestFlashing
  BY <1>6, Zenon DEF TestFlashing
<1>7. CASE GetBufferedLength
  <2>1. ReadLength(Len(rx)) \in 0 .. ReadSize
    BY QueueType, Sizes DEF ReadLength
  <2> QED BY <1>7, <2>1 DEF GetBufferedLength
<1>8. CASE ReadBytes /\ Len(rx) >= want
  <2>1. want \in 0 .. Len(rx) /\ Taken(want) /\ dtmp' \in Seq(Byte) /\ Len(dtmp') <= ReadSize
        /\ pc' = "callback" /\ passed' \in BOOLEAN
    BY <1>8, ReadTakes, QueueType
  <2>2. rx' \in Seq(Byte) /\ Len(rx') <= RxSize /\ held' \in Seq(Byte) /\ Len(held') <= Chunk
    BY <2>1, TakenFacts
  <2> QED BY <1>8, <2>1, <2>2 DEF ReadBytes
<1>9. CASE ReadBytes /\ ~(Len(rx) >= want)
  BY <1>9 DEF ReadBytes
<1>10. CASE DataCallback
  <2>1. << >> \in Seq(Byte) /\ Len(<< >>) = 0 /\ 0 \in 0 .. ReadSize
    BY Sizes
  <2>2. overheard' \in BOOLEAN
    BY <1>10, Zenon DEF DataCallback
  <2> QED BY <1>10, <2>1, <2>2, Sizes DEF DataCallback
<1>11. CASE FlushInput
  <2>1. << >> \in Seq(Byte) /\ Len(<< >>) = 0 /\ 0 <= RxSize /\ 0 <= Chunk
    BY Sizes
  <2> QED BY <1>11, <2>1 DEF FlushInput
<1>12. CASE QueueReset
  BY <1>12, Sizes DEF QueueReset
<1>13. CASE FlashConnect
  <2>1. sessions' \in 0 .. MaxSessions
    BY <1>13, SizesAssumption DEF FlashConnect
  <2> QED BY <1>13, <2>1 DEF FlashConnect
<1>14. CASE EnterBootloader
  BY <1>14 DEF EnterBootloader
<1>15. CASE Ask
  BY <1>15 DEF Ask
<1>16. CASE Listen
  <2>1. 1 \in 0 .. Len(rx) /\ Taken(1)
    BY <1>16, QueueType, Lengths DEF Listen
  <2>2. rx' \in Seq(Byte) /\ Len(rx') <= RxSize /\ held' \in Seq(Byte) /\ Len(held') <= Chunk
    BY <2>1, TakenFacts
  <2>3. loader' \in {"idle", "connect", "ask", "listen"} /\ passed' \in BOOLEAN
    BY <1>16, Zenon DEF Listen
  <2> QED BY <1>16, <2>2, <2>3 DEF Listen
<1>17. CASE FlashFinish
  BY <1>17 DEF FlashFinish
<1>18. CASE UNCHANGED vars
  BY <1>18 DEF vars
<1> QED
  BY <1>1, <1>2, <1>3, <1>4, <1>5, <1>6, <1>7, <1>8, <1>9, <1>10, <1>11, <1>12,
     <1>13, <1>14, <1>15, <1>16, <1>17, <1>18 DEF Next, uart_event_task

-----------------------------------------------------------------------------
(* The count *)

(* What neither touches the driver nor moves the task *)
LEMMA PromisedIdle ==
    ASSUME Promised, UNCHANGED <<rx, held, uart_queue, pc, want, passed>>
    PROVE  Promised'
BY DEF Promised, Lying, Coming, Reading

LEMMA PromisedStep ==
    ASSUME TypeOK, Promised, [Next]_vars
    PROVE  Promised'
<1> DEFINE l == Len(uart_queue)
<1>0. /\ l \in Nat /\ Lying \in Nat /\ Len(rx) \in Nat /\ Len(held) \in Nat /\ want \in Nat
      /\ Lying = Len(rx) + Len(held) /\ ReadSize \in Nat \ {0} /\ ReadSize * l \in Nat
      /\ ReadSize * (l + 1) = ReadSize * l + ReadSize
      /\ (held = << >> <=> Len(held) = 0) /\ (uart_queue = << >> <=> l = 0)
  BY QueueType, Sizes, Lengths DEF Lying, TypeOK
<1>1. ASSUME NEW n \in 1 .. Chunk, Output(n) PROVE Promised'
  BY <1>1, InterruptFacts DEF Output, InterruptKeeps, Byte
<1>2. ASSUME NEW n \in 1 .. Chunk, Answer(n) PROVE Promised'
  BY <1>2, InterruptFacts DEF Answer, InterruptKeeps, Byte
<1>3. CASE FifoOverflow
  <2>1. UNCHANGED <<rx, held, task, passed>> /\ uart_queue' = Posted("fifo") /\ held = << >>
    BY <1>3 DEF FifoOverflow
  <2>2. Lying' = Lying + 0 /\ Lying' <= RxSize + Chunk /\ held' = << >>
    BY <1>0, <2>1, Sizes DEF Lying, TypeOK
  <2> QED BY <2>1, <2>2, Sizes, CountKept
<1>4. CASE ReceiveEvent
  <2>1. pc = "receive" /\ l # 0 /\ Len(uart_queue') = l - 1 /\ UNCHANGED <<rx, held, passed>>
        /\ (pc' = "data" \/ pc' = "flush")
    BY <1>0, <1>4 DEF ReceiveEvent, TypeOK
  <2>2. Lying' = Lying /\ (pc' = "data" => Coming' = Coming)
    BY <1>0, <2>1 DEF Lying, Coming, Reading
  <2> QED BY <2>1, <2>2 DEF Promised
<1>5. CASE TestFlashing
  <2>1. pc = "data" /\ UNCHANGED <<rx, held, uart_queue>>
        /\ \/ pc' = "length" /\ (passed => passed')
           \/ pc' = "receive" /\ passed'
    BY <1>5, Zenon DEF TestFlashing, driver
  <2>2. Lying' = Lying /\ (pc' = "length" => Coming' = Coming)
    BY <2>1 DEF Lying, Coming, Reading
  <2> QED BY <2>1, <2>2 DEF Promised
<1>6. CASE GetBufferedLength
  <2>1. pc = "length" /\ pc' = "read" /\ want' = ReadLength(Len(rx))
        /\ UNCHANGED <<rx, held, uart_queue, passed>>
    BY <1>6 DEF GetBufferedLength, driver
  <2>2. Lying' = Lying /\ Coming' = Coming
    BY <2>1 DEF Lying, Coming, Reading
  <2>3. ASSUME want' # ReadSize PROVE Lying - want' <= ReadSize * l
    <3>1. Len(rx) < ReadSize /\ want' = Len(rx)
      BY <1>0, <2>1, <2>3, Sizes DEF ReadLength
    <3>2. held = << >>
      BY <1>0, <3>1, Sizes DEF Promised, TypeOK
    <3> QED BY <1>0, <3>1, <3>2
  <2> QED BY <2>1, <2>2, <2>3 DEF Promised
<1>7. CASE ReadBytes /\ Len(rx) >= want
  <2>1. pc \in {"read", "blocked"} /\ uart_queue' = uart_queue
        /\ want \in 0 .. Len(rx) /\ Taken(want)
        /\ pc' = "callback" /\ passed' = (passed /\ rx' # << >>)
    BY <1>7, ReadTakes DEF ReadBytes
  <2>2. Lying' = Lying - want /\ (rx' = << >> => Lying' = 0)
        /\ (held' # << >> => Lying' > RxSize)
    BY <2>1, TakenFacts
  <2>3. Coming = l + 1 /\ Coming' = l
    BY <1>0, <2>1 DEF Coming, Reading
  <2>4. CASE rx' = << >>
    BY <1>0, <2>1, <2>2, <2>3, <2>4 DEF Promised
  <2>5. CASE rx' # << >> /\ passed
    BY <2>1, <2>2, <2>5 DEF Promised
  <2>6. CASE rx' # << >> /\ ~passed
    <3>1. Lying <= ReadSize * l + ReadSize /\ (want = ReadSize \/ Lying - want <= ReadSize * l)
      BY <1>0, <2>1, <2>3, <2>6 DEF Promised
    <3>2. Lying' <= ReadSize * Coming'
      BY <1>0, <2>2, <2>3, <3>1
    <3> QED BY <2>1, <2>2, <3>2 DEF Promised
  <2> QED BY <2>4, <2>5, <2>6
<1>8. CASE ReadBytes /\ ~(Len(rx) >= want)
  <2>1. pc \in {"read", "blocked"} /\ pc' = "blocked"
        /\ UNCHANGED <<rx, held, uart_queue, want, passed>>
    BY <1>8 DEF ReadBytes
  <2> QED BY <2>1 DEF Promised, Lying, Coming, Reading
<1>9. CASE DataCallback
  <2>1. pc = "callback" /\ pc' = "receive" /\ UNCHANGED <<rx, held, uart_queue, passed>>
    BY <1>9 DEF DataCallback, driver
  <2> QED BY <2>1 DEF Promised, Lying, Coming, Reading
<1>10. CASE FlushInput
  <2>1. Lying' = 0 /\ held' = << >> /\ pc' = "reset" /\ uart_queue' = uart_queue
    BY <1>10 DEF FlushInput, Lying
  <2>2. ReadSize * Coming' \in Nat
    BY <1>0, <2>1 DEF Coming, Reading
  <2> QED BY <2>1, <2>2 DEF Promised
<1>11. CASE QueueReset
  <2>1. pc = "reset" /\ pc' = "receive" /\ UNCHANGED <<rx, held>>
        /\ uart_queue' = << >> /\ (passed' <=> passed \/ uart_queue # << >>)
    BY <1>11 DEF QueueReset, TypeOK
  <2>2. Lying' = Lying /\ Coming' = 0 /\ Coming = l
    BY <1>0, <2>1 DEF Lying, Coming, Reading
  <2>3. ASSUME ~passed' PROVE Lying <= ReadSize * 0
    <3>1. ~passed /\ l = 0
      BY <1>0, <2>1, <2>3
    <3> QED BY <2>1, <2>2, <3>1 DEF Promised
  <2> QED BY <2>1, <2>2, <2>3 DEF Promised
<1>12. CASE Listen
  <2>1. 1 \in 0 .. Len(rx) /\ Taken(1) /\ passed' = (passed /\ rx' # << >>)
        /\ UNCHANGED <<uart_queue, pc, want>>
    BY <1>0, <1>12, Lengths DEF Listen, TypeOK, task
  <2>2. Lying' = Lying - 1 /\ (rx' = << >> => Lying' = 0) /\ Lying' \in Nat
        /\ (held' # << >> => Lying' > RxSize)
    BY <1>0, <2>1, TakenFacts
  <2>3. Coming' = Coming /\ ReadSize * Coming \in Nat
    BY <1>0, <2>1, QueueType DEF Coming, Reading
  <2>4. CASE rx' = << >>
    BY <1>0, <2>1, <2>2, <2>3, <2>4 DEF Promised
  <2>5. CASE rx' # << >>
    <3>1. passed' = passed /\ Lying' = Lying - 1 /\ UNCHANGED <<uart_queue, pc, want>>
      BY <2>1, <2>2, <2>5, Zenon DEF TypeOK
    <3>2. Lying <= ReadSize * Coming => Lying' <= ReadSize * Coming'
      BY <1>0, <2>3, <3>1
    <3>3. Lying - want <= ReadSize * l => Lying' - want <= ReadSize * l
      BY <1>0, <3>1
    <3> QED BY <2>2, <3>1, <3>2, <3>3 DEF Promised
  <2> QED BY <2>4, <2>5
<1>13. CASE RegisterDataCallback \/ FlashConnect \/ EnterBootloader \/ Ask \/ FlashFinish
            \/ UNCHANGED vars
  <2>1. UNCHANGED <<rx, held, uart_queue, pc, want, passed>>
    BY <1>13 DEF RegisterDataCallback, FlashConnect, EnterBootloader, Ask, FlashFinish,
                 vars, driver, task
  <2> QED BY <2>1, PromisedIdle
<1> QED
  BY <1>1, <1>2, <1>3, <1>4, <1>5, <1>6, <1>7, <1>8, <1>9, <1>10, <1>11, <1>12, <1>13
     DEF Next, uart_event_task
(* Types and the count hold throughout. *)
LEMMA Counted == Spec => [](TypeOK /\ Promised)
<1>1. Init => TypeOK /\ Promised
  <2>1. ASSUME Init PROVE TypeOK /\ Promised
    <3>1. TypeOK
      <4>1. 0 \in 0 .. ReadSize /\ 0 \in 0 .. MaxSessions /\ 0 \in 0 .. MaxChunks
            /\ 0 <= RxSize /\ 0 <= Chunk /\ 0 <= QueueSize
        BY SizesAssumption
      <4>2. << >> \in Seq(Byte) /\ << >> \in Seq({"data", "full", "fifo"}) /\ Len(<< >>) = 0
        OBVIOUS
      <4>3. rx = << >> /\ held = << >> /\ uart_queue = << >> /\ dtmp = << >>
        BY <2>1 DEF Init
      <4>4. Len(dtmp) <= ReadSize
        BY <4>2, <4>3, Sizes
      <4> QED BY <2>1, <4>1, <4>2, <4>3, <4>4 DEF Init, TypeOK
    <3>2. Lying = 0 /\ Coming = 0 /\ ReadSize * 0 = 0 /\ held = << >> /\ pc = "receive"
      BY <2>1, Sizes DEF Init, Lying, Coming, Reading
    <3> QED BY <3>1, <3>2 DEF Promised
  <2> QED BY <2>1
<1>2. TypeOK /\ Promised /\ [Next]_vars => TypeOK' /\ Promised'
  BY TypeStep, PromisedStep
<1> QED BY <1>1, <1>2, PTL DEF Spec

(* The driver's buffers stay within their size, the events within the      *)
(* queue and a read within dtmp.                                           *)
THEOREM TypeCorrect == Spec => []TypeOK
BY Counted, PTL

(* No byte lies in the driver without an event that fetches it, unless a   *)
(* session or a missing callback passed it over, or the reset of the queue *)
(* erased its event (lines 210 and 215 of serial_handler.c).               *)
THEOREM NothingLost == Spec => []NothingStranded
<1>1. TypeOK /\ Promised => NothingStranded
  <2>1. ASSUME TypeOK, Promised, pc = "receive", uart_queue = << >>, ~passed
        PROVE  rx = << >>
    <3>1. Coming = 0 /\ ReadSize * 0 = 0
      BY <2>1, Sizes DEF Coming, Reading
    <3>2. Lying <= 0
      BY <2>1, <3>1 DEF Promised
    <3> QED BY <2>1, <3>2, QueueType, Lengths DEF Lying, TypeOK
  <2> QED BY <2>1 DEF NothingStranded, TypeOK
<1> QED BY <1>1, Counted, PTL

-----------------------------------------------------------------------------
(* The session *)

(* What is not an answer stays none. *)
LEMMA PrivateStep ==
    ASSUME Prompt, TypeOK, Promised, Private, [Next]_vars
    PROVE  Private'
<1>1. ASSUME NEW n \in 1 .. Chunk, Output(n) PROVE Private'
  <2>1. (Answering' => Answering) /\ UNCHANGED <<session, task, overheard>>
    BY <1>1, InterruptFacts DEF Output, Interrupt, InterruptKeeps, Byte
  <2> QED BY <2>1 DEF Private, session, task
<1>2. ASSUME NEW n \in 1 .. Chunk, Answer(n) PROVE Private'
  <2>1. target = "answering" /\ target' = "loader"
        /\ UNCHANGED <<is_flashing, loader, task, overheard>>
    BY <1>2 DEF Answer, Interrupt
  <2>2. loader = "listen"
    BY <2>1 DEF Private
  <2> QED BY <2>1, <2>2 DEF Private, task
<1>3. CASE FifoOverflow \/ RegisterDataCallback \/ UNCHANGED vars
  <2>1. UNCHANGED <<rx, held, session, task, overheard>>
    BY <1>3 DEF FifoOverflow, RegisterDataCallback, vars, driver
  <2> QED BY <2>1 DEF Private, session, task, Answering
<1>4. CASE ReceiveEvent
  <2>1. pc' \in {"data", "flush"} /\ UNCHANGED <<rx, held, dtmp, session, overheard>>
    BY <1>4 DEF ReceiveEvent
  <2> QED BY <2>1 DEF Private, session, Answering
<1>5. CASE TestFlashing
  <2>1. (pc' = "length" => ~is_flashing) /\ (pc' = "length" \/ pc' = "receive")
        /\ UNCHANGED <<rx, held, dtmp, session, overheard>>
    BY <1>5, Zenon DEF TestFlashing, ForBridge, driver
  <2> QED BY <2>1 DEF Private, session, Answering
<1>6. CASE GetBufferedLength
  <2>1. pc = "length" /\ pc' = "read" /\ UNCHANGED <<rx, held, dtmp, session, overheard>>
    BY <1>6 DEF GetBufferedLength, driver
  <2> QED BY <2>1 DEF Private, session, Answering
<1>7. CASE ReadBytes /\ Len(rx) >= want
  <2>1. pc \in {"read", "blocked"} /\ pc' = "callback" /\ UNCHANGED <<session, overheard>>
        /\ want \in 0 .. Len(rx) /\ Taken(want) /\ dtmp' = SubSeq(rx, 1, want)
    BY <1>7, ReadTakes DEF ReadBytes
  <2>2. loader \notin {"ask", "listen"} /\ ~Answering
    BY <2>1 DEF Private
  <2>3. ~Answering'
    BY <2>1, <2>2, TakenFacts
  <2>4. ~Contains(dtmp', "answer")
    BY <2>1, <2>2, ContainsCut DEF TypeOK, Answering
  <2> QED BY <2>1, <2>2, <2>3, <2>4 DEF Private, session
<1>8. CASE ReadBytes /\ ~(Len(rx) >= want)
  <2>1. pc \in {"read", "blocked"} /\ pc' = "blocked"
        /\ UNCHANGED <<rx, held, dtmp, session, overheard>>
    BY <1>8 DEF ReadBytes
  <2> QED BY <2>1 DEF Private, session, Answering
<1>9. CASE DataCallback
  <2>1. pc' = "receive" /\ dtmp' = << >> /\ UNCHANGED <<rx, held, session>>
        /\ overheard' = (overheard \/ Contains(dtmp, "answer"))
    BY <1>9 DEF DataCallback, driver
  <2>2. ~Contains(dtmp', "answer") /\ ~overheard'
    BY <2>1, ContainsNone DEF Private
  <2> QED BY <2>1, <2>2 DEF Private, session, Answering
<1>10. CASE FlushInput
  <2>1. pc' = "reset" /\ rx' = << >> /\ held' = << >> /\ UNCHANGED <<dtmp, session, overheard>>
    BY <1>10 DEF FlushInput
  <2>2. ~Answering'
    BY <2>1, ContainsNone DEF Answering
  <2> QED BY <2>1, <2>2 DEF Private, session
<1>11. CASE QueueReset
  <2>1. pc' = "receive" /\ UNCHANGED <<rx, held, dtmp, session, overheard>>
    BY <1>11 DEF QueueReset
  <2> QED BY <2>1 DEF Private, session, Answering
<1>12. CASE FlashConnect
  <2>1. loader = "idle" /\ is_flashing' /\ loader' = "connect"
        /\ UNCHANGED <<rx, held, task, target, overheard>>
    BY <1>12 DEF FlashConnect, driver
  <2> QED BY <2>1 DEF Private, task, Answering
<1>13. CASE EnterBootloader
  <2>1. loader = "connect" /\ target' = "loader" /\ loader' = "ask"
        /\ pc \notin {"length", "read", "blocked", "callback"}
        /\ UNCHANGED <<rx, held, task, is_flashing, overheard>>
    BY <1>13 DEF EnterBootloader, driver
  <2> QED BY <2>1 DEF Private, task, Answering
<1>14. CASE Ask
  <2>1. loader = "ask" /\ target' = "answering" /\ loader' = "listen"
        /\ UNCHANGED <<rx, held, task, is_flashing, overheard>>
    BY <1>14 DEF Ask, driver
  <2> QED BY <2>1 DEF Private, task
<1>15. CASE Listen
  <2>1. loader = "listen" /\ UNCHANGED <<task, is_flashing, target, overheard>>
        /\ 1 \in 0 .. Len(rx) /\ Taken(1)
        /\ \/ loader' = "listen"
           \/ loader' = "ask" /\ target = "loader" /\ ~Contains(rx' \o held', "answer")
    BY <1>15, QueueType, Lengths DEF Listen, TypeOK
  <2>2. ~Contains(rx' \o held', "answer") => ~Answering'
    BY <2>1, TakenFacts, ContainsConcat DEF Answering
  <2> QED BY <2>1, <2>2 DEF Private, task
<1>16. CASE FlashFinish
  <2>1. loader = "ask" /\ ~is_flashing' /\ loader' = "idle" /\ target' = "app"
        /\ UNCHANGED <<rx, held, task, overheard>>
    BY <1>16 DEF FlashFinish, driver
  <2> QED BY <2>1 DEF Private, task, Answering
<1> QED
  BY <1>1, <1>2, <1>3, <1>4, <1>5, <1>6, <1>7, <1>8, <1>9, <1>10, <1>11, <1>12, <1>13,
     <1>14, <1>15, <1>16 DEF Next, uart_event_task

(* The bridge is never given an answer the loader waits for, although the  *)
(* task tests is_flashing and reads in two steps (lines 196 and 199 of     *)
(* serial_handler.c), if a read begun before the session is over when the  *)
(* loader first asks.                                                      *)
THEOREM Unheard == ASSUME Prompt PROVE Spec => []NotOverheard
<1>1. Init => Private
  BY ContainsNone DEF Init, Private, Answering
<1>2. Private => NotOverheard
  BY DEF Private, NotOverheard
<1>3. TypeOK /\ Promised /\ Private /\ [Next]_vars => Private'
  BY PrivateStep
<1> QED BY <1>1, <1>2, <1>3, Counted, PTL DEF Spec
(* What the task has counted is still there when it reads: its read with   *)
(* no timeout (line 199 of serial_handler.c) returns at once.              *)
ReadReady == pc # "blocked" /\ (pc = "read" => want <= Len(rx))

THEOREM NeverBlocked == ASSUME Prompt PROVE Spec => []ReadReady
<1>1. Init => Private /\ ReadReady
  BY ContainsNone DEF Init, Private, Answering, ReadReady
<1>2. TypeOK /\ Promised /\ Private /\ [Next]_vars => Private'
  BY PrivateStep
<1>3. TypeOK /\ Promised /\ Private /\ ReadReady /\ [Next]_vars => ReadReady'
  <2> SUFFICES ASSUME TypeOK, Promised, Private, ReadReady, [Next]_vars PROVE ReadReady'
    OBVIOUS
  <2>1. ASSUME NEW n \in 1 .. Chunk, NEW b \in Byte, Interrupt(n, b) PROVE ReadReady'
    <3>1. Len(rx') >= Len(rx) /\ Len(rx) \in Nat /\ Len(rx') \in Nat /\ UNCHANGED task
      BY <2>1, InterruptGrows
    <3> QED BY <3>1, QueueType DEF ReadReady, task
  <2>2. CASE GetBufferedLength
    <3>1. pc' = "read" /\ want' = ReadLength(Len(rx)) /\ rx' = rx
      BY <2>2 DEF GetBufferedLength, driver
    <3>2. ReadLength(Len(rx)) <= Len(rx)
      BY QueueType, Sizes DEF ReadLength
    <3> QED BY <3>1, <3>2 DEF ReadReady
  <2>3. CASE ReadBytes
    <3>1. Len(rx) >= want
      BY <2>3, QueueType DEF ReadBytes, ReadReady
    <3> QED BY <2>3, <3>1, ReadTakes DEF ReadReady
  <2>4. CASE Listen
    <3>1. pc # "read" /\ pc # "blocked" /\ pc' = pc
      BY <2>4 DEF Listen, Private, task
    <3> QED BY <3>1 DEF ReadReady
  <2>5. CASE ReceiveEvent \/ TestFlashing \/ DataCallback \/ FlushInput \/ QueueReset
    <3>1. pc' \in {"data", "flush", "length", "receive", "reset"}
      BY <2>5 DEF ReceiveEvent, TestFlashing, DataCallback, FlushInput, QueueReset
    <3> QED BY <3>1 DEF ReadReady
  <2>6. CASE FifoOverflow \/ RegisterDataCallback \/ FlashConnect \/ EnterBootloader \/ Ask
             \/ FlashFinish \/ UNCHANGED vars
    <3>1. UNCHANGED <<rx, pc, want>>
      BY <2>6 DEF FifoOverflow, RegisterDataCallback, FlashConnect, EnterBootloader, Ask,
                  FlashFinish, vars, driver, task
    <3> QED BY <3>1 DEF ReadReady
  <2> QED BY <2>1, <2>2, <2>3, <2>4, <2>5, <2>6 DEF Next, uart_event_task, Output, Answer, Byte
<1> QED BY <1>1, <1>2, <1>3, Counted, PTL DEF Spec
=============================================================================
