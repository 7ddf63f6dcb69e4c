-------------------------- MODULE DebugProbeProofs --------------------------
(***************************************************************************)
(* Theorems about the debug probe: JtagProbe, for every byte, packet and   *)
(* buffer size and every sequence of nibbles that keeps the host's         *)
(* promise, and DebugPipe, for every size of the ring buffers, every       *)
(* window of the host and every number of mounts.                          *)
(***************************************************************************)
EXTENDS JtagProbe, DebugPipe, FiniteSetTheorems, TLAPS

-----------------------------------------------------------------------------
(* Division and rounding *)

(* Quotient and remainder, as the prover knows them. *)
LEMMA DivMod ==
    ASSUME NEW b \in Nat \ {0}, NEW a \in Int
    PROVE  a \div b \in Int /\ a % b \in 0 .. b - 1 /\ a = b * (a \div b) + (a % b)
  OBVIOUS

(* Between -b and b, zero is the only multiple of b. *)
LEMMA NoMultipleBetween ==
    ASSUME NEW b \in Nat \ {0}, NEW q \in Int, NEW r \in Int, b * q = r, -b < r, r < b
    PROVE  r = 0
  OBVIOUS

(* The remainder is the only one. *)
LEMMA ModUnique ==
    ASSUME NEW b \in Nat \ {0}, NEW q \in Int, NEW r \in Int, 0 <= r, r < b,
           NEW x \in Int, x = b * q + r
    PROVE  x % b = r
  <1>1. x \div b \in Int /\ x % b \in 0 .. b - 1 /\ x = b * (x \div b) + (x % b)
    BY DivMod
  <1> DEFINE d == q - (x \div b)
             e == (x % b) - r
  <1>2. d \in Int /\ e \in Int /\ b * d = e /\ -b < e /\ e < b
    BY <1>1
  <1> HIDE DEF d, e
  <1>3. e = 0
    BY <1>2, NoMultipleBetween
  <1> QED BY <1>1, <1>3 DEF e

(* What an aligned number leaves of a remainder *)
LEMMA AlignedSum ==
    ASSUME NEW b \in Nat \ {0}, NEW x \in Int, NEW y \in Int, NEW z \in Int,
           x % b = 0, z = x + y
    PROVE  z % b = y % b
  <1>1. x = b * (x \div b) /\ x \div b \in Int
    BY DivMod
  <1>2. y = b * (y \div b) + (y % b) /\ y \div b \in Int /\ y % b \in 0 .. b - 1
    BY DivMod
  <1> DEFINE q == (x \div b) + (y \div b)
             r == y % b
  <1>3. /\ q \in Int /\ r \in Int /\ 0 <= r /\ r < b
        /\ z \in Int /\ z = b * q + r
    BY <1>1, <1>2
  <1> HIDE DEF q, r
  <1>4. b \in Nat \ {0} /\ z % b = r
    BY ONLY <1>3, b \in Nat \ {0}, ModUnique
  <1> QED BY <1>4 DEF r

(* Rounding up stays below every aligned bound. *)
LEMMA AlignedBelow ==
    ASSUME NEW b \in Nat \ {0}, NEW x \in Int, NEW y \in Int, x % b = 0, y % b = 0, x < y
    PROVE  x + b <= y
  <1>1. x = b * (x \div b) /\ x \div b \in Int
    BY DivMod
  <1>2. y = b * (y \div b) /\ y \div b \in Int
    BY DivMod
  <1> DEFINE d == (y \div b) - (x \div b)
             e == y - x
  <1>3. d \in Int /\ e \in Int /\ b * d = e /\ 0 < e /\ -b < e
    BY <1>1, <1>2
  <1> HIDE DEF d, e
  <1>4. ~(e < b)
    BY <1>3, NoMultipleBetween
  <1> QED BY <1>4 DEF e

(* A number rounded up to the next multiple: not below, less than a whole  *)
(* step above, and never past a multiple that was not below it.            *)
LEMMA RoundedUp ==
    ASSUME NEW b \in Nat \ {0}, NEW x \in Nat, NEW q \in Int, NEW m \in 0 .. b - 1,
           NEW z \in Int, z = b * q, z + m = x + b - 1
    PROVE  /\ z \in Nat /\ z % b = 0 /\ x <= z /\ z < x + b
           /\ \A y \in Nat : y % b = 0 /\ x <= y => z <= y
  <1>1. x <= z /\ z < x + b /\ z \in Nat
    OBVIOUS
  <1>2. z % b = 0
    <2> DEFINE r == 0
    <2>1. r \in Int /\ 0 <= r /\ r < b /\ z = b * q + r /\ z \in Int /\ q \in Int
      OBVIOUS
    <2> HIDE DEF r
    <2>2. z % b = r
      BY ONLY <2>1, b \in Nat \ {0}, ModUnique
    <2> QED BY <2>2 DEF r
  <1>3. ASSUME NEW y \in Nat, y % b = 0, x <= y
        PROVE  z <= y
    <2>1. ~(y < z)
      <3>1. SUFFICES ASSUME y < z PROVE FALSE
        OBVIOUS
      <3>2. y \in Int /\ z \in Int /\ b \in Nat \ {0}
        OBVIOUS
      <3>3. y + b <= z
        BY ONLY <1>2, <1>3, <3>1, <3>2, AlignedBelow
      <3> QED BY <1>1, <1>3, <3>3
    <2> QED BY <1>1, <2>1
  <1> QED BY <1>1, <1>2, <1>3

-----------------------------------------------------------------------------
(* The weights are numbers. *)
LEMMA WeightType == ASSUME NEW n \in 0 .. 14 PROVE Weight(n) \in Nat
  BY DEF Weight

(* A nibble clocks a whole number of cycles. *)
LEMMA CyclesType ==
    ASSUME NEW nib \in Nibbles, NEW n \in 0 .. 14
    PROVE  /\ Cycles(nib, n) \in Nat
           /\ nib \in Repeats => /\ Cycles(nib, n) = Digit[nib] * Weight(n)
                                 /\ nib \notin Commands
  <1>1. Weight(n) \in Nat
    BY WeightType
  <1>2. CASE nib \in Repeats
    <2>1. Digit[nib] \in 0 .. 3
      BY <1>2 DEF Repeats, Digit
    <2>2. Digit[nib] * Weight(n) \in Nat
      BY <1>1, <2>1
    <2> QED BY <1>2, <2>2 DEF Cycles, Repeats, Commands
  <1>3. CASE nib \notin Repeats
    BY <1>3 DEF Cycles
  <1> QED BY <1>2, <1>3

(* ROUND_UP_BITS goes to the next whole byte and stays in the buffer. *)
LEMMA RoundUpFacts ==
    ASSUME NEW bits \in 0 .. BufferBits
    PROVE  /\ RoundUp(bits) \in bits .. BufferBits
           /\ RoundUp(bits) % ByteBits = 0
           /\ RoundUp(bits) < bits + ByteBits
           /\ bits % ByteBits = 0 => RoundUp(bits) = bits
  <1> DEFINE a == bits + ByteBits - 1
             q == a \div ByteBits
             m == a % ByteBits
             z == RoundUp(bits)
  <1>1. ByteBits \in Nat \ {0} /\ BufferBits \in Nat /\ bits \in Nat /\ a \in Int
    BY BitsAssumption
  <1>2. q \in Int /\ m \in 0 .. ByteBits - 1 /\ a = ByteBits * q + m
    <2> HIDE DEF a
    <2> QED BY <1>1, DivMod
  <1>3. z = q * ByteBits
    BY DEF RoundUp
  <1>4. a = bits + ByteBits - 1
    OBVIOUS
  <1> HIDE DEF a, q, m, z
  <1>5. /\ z \in Nat /\ z % ByteBits = 0 /\ bits <= z /\ z < bits + ByteBits
        /\ \A y \in Nat : y % ByteBits = 0 /\ bits <= y => z <= y
    <2>1. z \in Int /\ z = ByteBits * q /\ z + m = bits + ByteBits - 1
      BY <1>1, <1>2, <1>3, <1>4
    <2> QED BY <1>1, <1>2, <2>1, RoundedUp
  <1>6. z <= BufferBits
    BY <1>1, <1>5, BitsAssumption
  <1>7. bits % ByteBits = 0 => z <= bits
    <2>1. bits <= bits
      BY <1>1
    <2> QED BY <1>1, <1>5, <2>1, Zenon
  <1> QED BY <1>1, <1>5, <1>6, <1>7 DEF z

(* An aligned position is the first of its byte. *)
LEMMA FirstOfByte ==
    ASSUME NEW p \in Nat, p % ByteBits = 0
    PROVE  (p \div ByteBits) * ByteBits = p
  <1>1. p = ByteBits * (p \div ByteBits) + (p % ByteBits) /\ p \div ByteBits \in Int
    BY BitsAssumption, DivMod
  <1> QED BY <1>1, BitsAssumption

-----------------------------------------------------------------------------
(* The invariant *)

(* The initial state. *)
LEMMA InitInv == Init => IInv
  <1> SUFFICES ASSUME Init PROVE IInv
    OBVIOUS
  <1>1. s_tdo_bytes \in [0 .. BufferBits - 1 -> Bit] /\ packet \in Seq(Bit)
    BY DEF Init, Zeros, Bit
  <1>4. TypeOK
    <2>1. pc \in {"fetch", "clock", "flush", "drain"} /\ prev_cmd \in Commands \ {"flush"}
      BY DEF Init, Commands
    <2>2. tdo_req \in BOOLEAN /\ after_srst \in BOOLEAN
      BY DEF Init
    <2>3. todo \in Nat /\ rep_cnt \in 0 .. MaxRepeats /\ digits \in 0 .. MaxRepeats /\ due \in Int
      BY RepeatsAssumption DEF Init
    <2>4. /\ s_total_tdo_bits \in 0 .. BufferBits /\ asked \in 0 .. BufferBits
          /\ s_usb_sent_bits \in 0 .. s_total_tdo_bits
      BY BitsAssumption DEF Init
    <2>5. tdo \in Bit
      BY DEF Init
    <2> QED BY <1>1, <2>1, <2>2, <2>3, <2>4, <2>5 DEF TypeOK
  <1>2. 0 % ByteBits = 0
    BY BitsAssumption
  <1>3. PositionInv /\ CleanInv /\ RunInv
    BY <1>2, BitsAssumption DEF Init, PositionInv, CleanInv, RunInv, Zeros, Waiting
  <1> QED BY <1>3, <1>4 DEF IInv

(* What Asks and the switch make of a nibble. *)
LEMMA FetchArguments ==
    ASSUME IInv, NEW nib \in Nibbles, Fetch(nib)
    PROVE  /\ todo' \in Nat /\ tdo_req' \in BOOLEAN /\ rep_cnt' \in 0 .. MaxRepeats
           /\ asked' \in 0 .. BufferBits /\ digits' \in 0 .. MaxRepeats
           /\ due' \in Int /\ after_srst' \in BOOLEAN
           /\ prev_cmd' \in Commands \ {"flush"}
           /\ \/ nib = "flush" /\ asked' = 0 /\ Dispatch("flush")
              \/ pc' = "clock" /\ tdo_req' /\ asked' = asked + todo'
                 /\ UNCHANGED s_total_tdo_bits
              \/ pc' \in {"clock", "drain"} /\ ~tdo_req' /\ asked' = asked
                 /\ UNCHANGED s_total_tdo_bits
           /\ RunInv'
  <1> USE DEF IInv, TypeOK, RunInv, Fetch, Asks
  <1>1. CASE nib \in Repeats
    <2>1. rep_cnt \in 0 .. 14 /\ digits \in 0 .. 14 /\ nib \notin Commands /\ nib # "flush"
      BY <1>1, RepeatsAssumption DEF Repeats, Commands
    <2> DEFINE c == Cycles(nib, digits)
    <2>2. c \in Nat /\ Cycles(nib, rep_cnt) \in Nat
          /\ Cycles(nib, rep_cnt) = Digit[nib] * Weight(rep_cnt)
      BY <1>1, <2>1, CyclesType
    <2>3. todo' = Cycles(nib, rep_cnt) /\ rep_cnt' = rep_cnt + 1 /\ Dispatch(prev_cmd)
      BY <1>1, <2>2 DEF Repeat
    <2>4. prev_cmd' = prev_cmd /\ digits' = digits + 1 /\ UNCHANGED after_srst
          /\ rep_cnt < MaxRepeats
      BY <1>1
    <2>5. /\ asked' = IF prev_cmd = "capt" THEN asked + c ELSE asked
          /\ asked' <= BufferBits
          /\ due' = due + (IF prev_cmd \in {"clk", "capt", "srst"} THEN c ELSE 0)
      BY <1>1, <2>1
    <2>6. ~after_srst => c = todo'
      BY <2>3
    <2> HIDE DEF c
    <2>7. /\ pc' = IF prev_cmd \in {"clk", "capt", "srst"} THEN "clock" ELSE "drain"
          /\ UNCHANGED s_total_tdo_bits
      BY <2>3 DEF Dispatch, Commands
    <2>8. tdo_req' \in BOOLEAN /\ (tdo_req' <=> prev_cmd = "capt")
      BY <2>3, Zenon DEF Dispatch
    <2>9. RunInv'
      BY <2>1, <2>2, <2>3, <2>4, <2>5, <2>6, <2>7
    <2>10. /\ todo' \in Nat /\ due' \in Int /\ rep_cnt' \in 0 .. MaxRepeats
           /\ digits' \in 0 .. MaxRepeats
      BY <2>1, <2>2, <2>3, <2>4, <2>5, RepeatsAssumption
    <2>11. asked' \in 0 .. BufferBits
      BY <2>2, <2>5, BitsAssumption
    <2>12. prev_cmd = "capt" => asked' = asked + todo'
      BY <2>3, <2>5, <2>6
    <2>13. \/ pc' = "clock" /\ tdo_req' /\ asked' = asked + todo'
              /\ UNCHANGED s_total_tdo_bits
           \/ pc' \in {"clock", "drain"} /\ ~tdo_req' /\ asked' = asked
              /\ UNCHANGED s_total_tdo_bits
      BY <2>5, <2>7, <2>8, <2>12
    <2> QED BY <2>4, <2>8, <2>9, <2>10, <2>11, <2>13
  <1>2. CASE nib \in Commands
    <2>1. nib \notin Repeats /\ 0 \in 0 .. 14
      BY <1>2 DEF Repeats, Commands
    <2> DEFINE c == Cycles(nib, 0)
    <2>2. c = IF nib \in {"clk", "capt"} THEN 1 ELSE IF nib = "srst" THEN 8 ELSE 0
      BY <2>1 DEF Cycles
    <2>3. todo' = c /\ rep_cnt' = (IF nib = "srst" THEN rep_cnt ELSE 0) /\ Dispatch(nib)
      BY <2>1 DEF Other
    <2>4. digits' = 0 /\ prev_cmd' = (IF nib = "flush" THEN prev_cmd ELSE nib)
      BY <2>1
    <2>5. after_srst' \in BOOLEAN /\ (after_srst' <=> nib = "srst")
      BY <2>1, Zenon
    <2>6. nib \in {"clk", "capt", "srst"} => Cycles(nib, digits) = c
      BY <2>1 DEF Cycles
    <2>7. /\ asked' = IF nib = "flush" THEN 0 ELSE IF nib = "capt" THEN asked + c ELSE asked
          /\ asked' <= BufferBits
          /\ due' = IF nib \in {"clk", "capt", "srst"} THEN c ELSE 0
      BY <2>1, <2>6
    <2> HIDE DEF c
    <2>8. tdo_req' \in BOOLEAN /\ (tdo_req' <=> nib = "capt")
      BY <2>3, Zenon DEF Dispatch
    <2>9. /\ nib # "flush" => /\ pc' = IF nib \in {"clk", "capt", "srst"} THEN "clock" ELSE "drain"
                              /\ UNCHANGED s_total_tdo_bits
          /\ nib = "flush" => pc' # "clock"
      BY <2>3 DEF Dispatch
    <2>10. RunInv'
      <3>1. ~after_srst' => due' = IF pc' = "clock" THEN todo' ELSE 0
        BY <1>2, <2>2, <2>3, <2>5, <2>7, <2>9 DEF Commands
      <3>2. ~after_srst' => digits' = rep_cnt'
        BY <2>3, <2>4, <2>5
      <3>3. digits' <= rep_cnt'
        BY <2>3, <2>4, RepeatsAssumption
      <3>4. prev_cmd' = "capt" => ~after_srst'
        BY <2>4, <2>5
      <3> QED BY <3>1, <3>2, <3>3, <3>4
    <2>11. asked' \in 0 .. BufferBits
      BY <2>2, <2>7, BitsAssumption
    <2>12. todo' \in Nat /\ due' \in Int /\ rep_cnt' \in 0 .. MaxRepeats
      BY <2>2, <2>3, <2>7, RepeatsAssumption
    <2>13. \/ nib = "flush" /\ asked' = 0 /\ Dispatch("flush")
           \/ pc' = "clock" /\ tdo_req' /\ asked' = asked + todo'
              /\ UNCHANGED s_total_tdo_bits
           \/ pc' \in {"clock", "drain"} /\ ~tdo_req' /\ asked' = asked
              /\ UNCHANGED s_total_tdo_bits
      BY <2>3, <2>7, <2>8, <2>9
    <2> QED BY <1>2, <2>4, <2>5, <2>8, <2>10, <2>11, <2>12, <2>13, RepeatsAssumption DEF Commands
  <1> QED BY <1>1, <1>2 DEF Nibbles
(* The switch: a flush rounds up, which adds zeros the buffer holds. *)
LEMMA FetchInv ==
    ASSUME IInv, NEW nib \in Nibbles, Fetch(nib)
    PROVE  IInv'
  <1> USE DEF IInv
  <1>1. /\ pc = "fetch" /\ tdo' \in Bit
        /\ UNCHANGED <<s_tdo_bytes, s_usb_sent_bits, packet>>
    BY DEF Fetch, TypeOK
  <1>2. /\ todo' \in Nat /\ tdo_req' \in BOOLEAN /\ rep_cnt' \in 0 .. MaxRepeats
        /\ asked' \in 0 .. BufferBits /\ digits' \in 0 .. MaxRepeats
        /\ due' \in Int /\ after_srst' \in BOOLEAN /\ prev_cmd' \in Commands \ {"flush"}
        /\ RunInv'
    BY FetchArguments
  <1>3. CASE nib = "flush" /\ asked' = 0 /\ Dispatch("flush")
    <2> DEFINE up == RoundUp(s_total_tdo_bits)
    <2>1. /\ up \in s_total_tdo_bits .. BufferBits
          /\ up % ByteBits = 0
          /\ s_total_tdo_bits % ByteBits = 0 => up = s_total_tdo_bits
      BY RoundUpFacts DEF TypeOK
    <2>2. /\ s_total_tdo_bits' = up
          /\ pc' = IF s_usb_sent_bits < up THEN "flush" ELSE "drain"
      BY <1>3 DEF Dispatch
    <2> HIDE DEF up
    <2>3. TypeOK'
      BY <1>1, <1>2, <2>1, <2>2, SMTT(30) DEF TypeOK
    <2>4. pc' = "drain" => s_total_tdo_bits = 0 /\ up = 0
      <3>1. pc' = "drain" => s_usb_sent_bits = s_total_tdo_bits /\ up = s_total_tdo_bits
        BY <2>1, <2>2 DEF TypeOK
      <3> QED BY <1>1, <3>1 DEF PositionInv, Waiting, TypeOK
    <2>5. PositionInv'
      BY <1>1, <1>2, <1>3, <2>1, <2>2, <2>4 DEF PositionInv, Waiting, TypeOK
    <2>6. CleanInv'
      BY <1>1, <2>1, <2>2, <2>4 DEF CleanInv, TypeOK
    <2> QED BY <1>2, <2>3, <2>5, <2>6
  <1>4. CASE /\ pc' \in {"clock", "drain"} /\ UNCHANGED s_total_tdo_bits
             /\ \/ pc' = "clock" /\ tdo_req' /\ asked' = asked + todo'
                \/ ~tdo_req' /\ asked' = asked
    <2>1. TypeOK'
      BY <1>1, <1>2, <1>4 DEF TypeOK
    <2>2. PositionInv'
      <3>1. s_total_tdo_bits <= asked /\ s_total_tdo_bits \in Nat /\ asked \in Nat
        BY <1>1, BitsAssumption DEF PositionInv, TypeOK
      <3>2. /\ pc' # "flush" /\ asked <= asked'
            /\ pc' = "clock" /\ tdo_req' => asked' = asked + todo'
        <4> DEFINE more == todo'
                   now == asked'
        <4>1. more \in Nat /\ now \in Nat /\ (now = asked + more \/ now = asked)
          BY <1>2, <1>4
        <4> HIDE DEF more, now
        <4>2. asked <= now
          BY <3>1, <4>1
        <4> QED BY <1>4, <4>2 DEF more, now
      <3>3. s_total_tdo_bits' = s_total_tdo_bits /\ UNCHANGED s_usb_sent_bits
        BY <1>1, <1>4
      <3>4. Waiting' = Waiting /\ (Waiting = 0 => s_total_tdo_bits = 0)
            /\ s_usb_sent_bits % ByteBits = 0
        BY <1>1, <3>3 DEF PositionInv, Waiting
      <3>5. pc' = "clock" /\ tdo_req' => s_total_tdo_bits' + todo' <= asked'
        <4> DEFINE more == todo'
                   now == asked'
        <4>1. more \in Nat /\ (pc' = "clock" /\ tdo_req' => now = asked + more)
          BY <1>2, <3>2
        <4> HIDE DEF more, now
        <4>2. pc' = "clock" /\ tdo_req' => s_total_tdo_bits + more <= now
          BY <3>1, <4>1
        <4> QED BY <3>3, <4>2 DEF more, now
      <3>6. s_total_tdo_bits' <= asked'
        BY <1>2, <3>1, <3>2, <3>3
      <3> QED BY <3>2, <3>3, <3>4, <3>5, <3>6 DEF PositionInv
    <2>3. CleanInv'
      BY <1>1, <1>4 DEF CleanInv
    <2> QED BY <1>2, <2>1, <2>2, <2>3
  <1> QED BY <1>3, <1>4, FetchArguments

(* One TCK cycle. *)
LEMMA ClockInv == ASSUME IInv, Clock PROVE IInv'
  <1> USE DEF IInv
  <1>1. pc = "clock" /\ pc' = "clock" /\ todo > 0 /\ todo' = todo - 1 /\ due' = due - 1
    BY DEF Clock
  <1>2. RunInv'
    BY <1>1 DEF RunInv, TypeOK, Clock, command, promise
  <1>3. CASE tdo_req
    <2>1. s_total_tdo_bits < BufferBits
      BY <1>1, <1>3, BitsAssumption DEF TypeOK, PositionInv
    <2>2. /\ s_total_tdo_bits' = s_total_tdo_bits + 1
          /\ s_tdo_bytes' = [s_tdo_bytes EXCEPT
                               ![s_total_tdo_bits] = IF tdo = 1 THEN 1 ELSE @]
      BY <1>3 DEF Clock
    <2>3. TypeOK'
      <3>1. s_tdo_bytes' \in [0 .. BufferBits - 1 -> Bit]
        BY <2>1, <2>2, BitsAssumption DEF TypeOK, Bit
      <3>2. s_total_tdo_bits' \in 0 .. BufferBits /\ s_usb_sent_bits' \in 0 .. s_total_tdo_bits'
        BY <2>1, <2>2, BitsAssumption DEF TypeOK, Clock
      <3> QED BY <1>1, <3>1, <3>2 DEF TypeOK, Clock, command, promise
    <2>4. PositionInv'
      BY <1>1, <1>3, <2>1, <2>2 DEF TypeOK, PositionInv, Waiting, Clock, command, promise
    <2>5. CleanInv'
      BY <1>1, <2>1, <2>2 DEF TypeOK, CleanInv, Clock
    <2> QED BY <1>2, <2>3, <2>4, <2>5
  <1>4. CASE ~tdo_req
    <2>1. UNCHANGED <<s_tdo_bytes, s_total_tdo_bits>>
      BY <1>4 DEF Clock
    <2> QED BY <1>1, <1>2, <1>4, <2>1
            DEF TypeOK, PositionInv, CleanInv, Waiting, Clock, command, promise
  <1> QED BY <1>3, <1>4

LEMMA ClockedInv == ASSUME IInv, Clocked PROVE IInv'
  BY DEF IInv, Clocked, TypeOK, PositionInv, CleanInv, RunInv, Waiting, command, buffer, promise

(* Whatever becomes of a packet, it is a sequence of bits. *)
LEMMA PacketType ==
    ASSUME IInv, NEW n \in Nat, s_usb_sent_bits + n <= s_total_tdo_bits, SendData(n)
    PROVE  /\ packet' \in Seq(Bit)
           /\ packet' \in {[i \in 1 .. n |-> s_tdo_bytes[s_usb_sent_bits + i - 1]], packet}
  <1>1. (s_usb_sent_bits \div ByteBits) * ByteBits = s_usb_sent_bits
    BY FirstOfByte DEF IInv, TypeOK, PositionInv
  <1>2. packet' \in {[i \in 1 .. n |-> s_tdo_bytes[s_usb_sent_bits + i - 1]], packet}
    BY <1>1 DEF SendData
  <1>3. \A i \in 1 .. n : s_tdo_bytes[s_usb_sent_bits + i - 1] \in Bit
    <2>1. \A i \in 1 .. n : s_usb_sent_bits + i - 1 \in 0 .. BufferBits - 1
      BY BitsAssumption DEF IInv, TypeOK
    <2> QED BY <2>1 DEF IInv, TypeOK
  <1>4. [i \in 1 .. n |-> s_tdo_bytes[s_usb_sent_bits + i - 1]] \in Seq(Bit)
    BY <1>3
  <1> QED BY <1>2, <1>4 DEF IInv, TypeOK

(* The flush sends whole bytes. *)
LEMMA FlushSendInv == ASSUME IInv, FlushSend PROVE IInv'
  <1> DEFINE bits == IF Waiting > PacketBits THEN PacketBits ELSE Waiting
  <1>1. /\ bits \in Nat /\ s_usb_sent_bits + bits <= s_total_tdo_bits
        /\ Waiting = s_total_tdo_bits - s_usb_sent_bits
    BY BitsAssumption DEF IInv, TypeOK, Waiting, FlushSend
  <1>2. s_usb_sent_bits' = s_usb_sent_bits + bits /\ SendData(bits)
    BY DEF FlushSend
  <1>3. packet' \in Seq(Bit)
    BY <1>1, <1>2, PacketType
  <1>4. s_usb_sent_bits' % ByteBits = 0
    <2>1. CASE bits = PacketBits
      <3>1. /\ s_usb_sent_bits \in Int /\ PacketBits \in Int /\ s_usb_sent_bits' \in Int
            /\ ByteBits \in Nat \ {0} /\ s_usb_sent_bits % ByteBits = 0
            /\ s_usb_sent_bits' = s_usb_sent_bits + PacketBits
        BY <1>2, <2>1, BitsAssumption DEF IInv, TypeOK, PositionInv
      <3>2. s_usb_sent_bits' % ByteBits = PacketBits % ByteBits
        BY ONLY <3>1, AlignedSum
      <3> QED BY <3>2, BitsAssumption
    <2>2. CASE bits = Waiting
      <3>1. s_usb_sent_bits' = s_total_tdo_bits
        BY <1>1, <1>2, <2>2 DEF IInv, TypeOK
      <3> QED BY <3>1 DEF IInv, PositionInv, FlushSend
    <2> QED BY <2>1, <2>2
  <1> HIDE DEF bits
  <1>5. TypeOK'
    BY <1>1, <1>2, <1>3 DEF IInv, TypeOK, FlushSend, command, promise
  <1>6. PositionInv' /\ CleanInv' /\ RunInv'
    BY <1>4 DEF IInv, PositionInv, CleanInv, RunInv, FlushSend, command, promise
  <1> QED BY <1>5, <1>6 DEF IInv

LEMMA FlushDoneInv == ASSUME IInv, FlushDone PROVE IInv'
  <1>1. Zeros \in [0 .. BufferBits - 1 -> Bit] /\ \A i \in 0 .. BufferBits - 1 : Zeros[i] = 0
    BY DEF Zeros, Bit
  <1>2. 0 % ByteBits = 0
    BY BitsAssumption
  <1> QED BY <1>1, <1>2, BitsAssumption
          DEF IInv, FlushDone, Emptied, TypeOK, PositionInv, CleanInv, RunInv, Waiting,
              command, promise

(* The packet that leaves is cleared, and an emptied buffer begins anew. *)
LEMMA DrainPacketInv == ASSUME IInv, DrainPacket PROVE IInv'
  <1> DEFINE sent == s_usb_sent_bits + PacketBits
  <1>1. /\ pc = "drain" /\ pc' = "fetch" /\ SendData(PacketBits)
        /\ s_tdo_bytes' = [i \in 0 .. BufferBits - 1 |->
                              IF i \in s_usb_sent_bits .. sent - 1 THEN 0 ELSE s_tdo_bytes[i]]
        /\ s_usb_sent_bits' = IF sent = s_total_tdo_bits THEN 0 ELSE sent
        /\ s_total_tdo_bits' = IF sent = s_total_tdo_bits THEN 0 ELSE s_total_tdo_bits
        /\ UNCHANGED <<command, todo, tdo, promise, due>>
    BY DEF DrainPacket
  <1>2. sent \in Nat /\ sent <= s_total_tdo_bits /\ PacketBits \in Nat
    BY BitsAssumption DEF DrainPacket, Waiting, IInv, TypeOK
  <1>3. packet' \in Seq(Bit)
    BY <1>1, <1>2, PacketType
  <1>4. sent % ByteBits = 0 /\ 0 % ByteBits = 0
    <2>1. /\ s_usb_sent_bits \in Int /\ PacketBits \in Int /\ sent \in Int
          /\ ByteBits \in Nat \ {0} /\ s_usb_sent_bits % ByteBits = 0
          /\ sent = s_usb_sent_bits + PacketBits
      BY <1>2, BitsAssumption DEF IInv, TypeOK, PositionInv
    <2> HIDE DEF sent
    <2>2. sent % ByteBits = PacketBits % ByteBits
      BY ONLY <2>1, AlignedSum
    <2> QED BY <2>2, BitsAssumption
  <1> HIDE DEF sent
  <1>5. TypeOK'
    BY <1>1, <1>2, <1>3, BitsAssumption DEF IInv, TypeOK, Bit, command, promise
  <1>6. PositionInv'
    BY <1>1, <1>2, <1>4, BitsAssumption DEF IInv, TypeOK, PositionInv, Waiting, command, promise
  <1>7. CleanInv'
    BY <1>1, <1>2 DEF IInv, TypeOK, CleanInv, sent
  <1>8. RunInv'
    BY <1>1 DEF IInv, RunInv, command, promise
  <1> QED BY <1>5, <1>6, <1>7, <1>8 DEF IInv

LEMMA DrainNothingInv == ASSUME IInv, DrainNothing PROVE IInv'
  BY DEF IInv, DrainNothing, TypeOK, PositionInv, CleanInv, RunInv, Waiting, command, buffer,
         promise

(* Every step keeps the invariant. *)
LEMMA NextInv == IInv /\ [Next]_vars => IInv'
  <1> SUFFICES ASSUME IInv, [Next]_vars PROVE IInv'
    OBVIOUS
  <1>1. CASE \E nib \in Nibbles : Fetch(nib)
    BY <1>1, FetchInv
  <1>2. CASE TaskStep
    BY <1>2, ClockInv, ClockedInv, FlushSendInv, FlushDoneInv, DrainPacketInv, DrainNothingInv
       DEF TaskStep
  <1>3. CASE UNCHANGED vars
    BY <1>3 DEF IInv, TypeOK, PositionInv, CleanInv, RunInv, Waiting, vars, command, buffer,
                promise
  <1> QED BY <1>1, <1>2, <1>3 DEF Next

LEMMA Invariance == Spec => []IInv
  <1>1. Init => IInv
    BY InitInv
  <1>2. IInv /\ [Next]_vars => IInv'
    BY NextInv
  <1> QED BY <1>1, <1>2, PTL DEF Spec

(* No captured bit is written or read outside of s_tdo_bytes, for every     *)
(* size and every host that keeps its promise.                             *)
THEOREM TypeCorrect == Spec => []TypeOK
  <1>1. IInv => TypeOK
    BY DEF IInv
  <1> QED BY <1>1, Invariance, PTL

(* Every run of a clock command and its repeats has the length it spells.  *)
THEOREM RunsHaveTheirLength == Spec => []RunsExact
  <1>1. IInv => RunsExact
    BY DEF IInv, RunInv, RunsExact
  <1> QED BY <1>1, Invariance, PTL

-----------------------------------------------------------------------------
(* The refinement *)

(* The unsent bits are a sequence of bits, as long as they are many. *)
LEMMA OwedType ==
    ASSUME IInv
    PROVE  /\ Waiting \in Nat /\ Owed \in Seq(Bit) /\ Len(Owed) = Waiting
           /\ \A i \in 1 .. Waiting : Owed[i] = s_tdo_bytes[s_usb_sent_bits + i - 1]
  <1>1. Waiting \in Nat
    BY BitsAssumption DEF IInv, TypeOK, Waiting
  <1>2. \A i \in 1 .. Waiting : s_tdo_bytes[s_usb_sent_bits + i - 1] \in Bit
    <2>1. \A i \in 1 .. Waiting : s_usb_sent_bits + i - 1 \in 0 .. BufferBits - 1
      BY BitsAssumption DEF IInv, TypeOK, Waiting
    <2> QED BY <2>1 DEF IInv, TypeOK
  <1> QED BY <1>1, <1>2 DEF Owed

LEMMA OwedTypeNext ==
    ASSUME IInv'
    PROVE  /\ Waiting' \in Nat /\ Owed' \in Seq(Bit) /\ Len(Owed') = Waiting'
           /\ \A i \in 1 .. Waiting' : Owed'[i] = s_tdo_bytes'[s_usb_sent_bits' + i - 1]
  <1> DEFINE total == s_total_tdo_bits'
             sent == s_usb_sent_bits'
             w == Waiting'
             bits == s_tdo_bytes'
  <1>1. /\ w = total - sent /\ total \in 0 .. BufferBits /\ sent \in 0 .. total
        /\ bits \in [0 .. BufferBits - 1 -> Bit] /\ BufferBits \in Nat
    BY BitsAssumption DEF IInv, TypeOK, Waiting
  <1>2. Owed' = [i \in 1 .. w |-> bits[sent + i - 1]]
    BY DEF Owed
  <1> HIDE DEF total, sent, w, bits
  <1>3. w \in Nat
    BY <1>1
  <1>4. \A i \in 1 .. w : bits[sent + i - 1] \in Bit
    <2>1. \A i \in 1 .. w : sent + i - 1 \in 0 .. BufferBits - 1
      BY <1>1
    <2> QED BY <1>1, <2>1
  <1>5. /\ Owed' \in Seq(Bit) /\ Len(Owed') = w
        /\ \A i \in 1 .. w : Owed'[i] = bits[sent + i - 1]
    BY <1>2, <1>3, <1>4
  <1> QED BY <1>3, <1>5 DEF total, sent, w, bits

(* A sequence with another one behind it. *)
LEMMA Joined ==
    ASSUME NEW s \in Seq(Bit), NEW t \in Seq(Bit)
    PROVE  /\ s \o t \in Seq(Bit) /\ Len(s \o t) = Len(s) + Len(t)
           /\ \A i \in 1 .. Len(s) : (s \o t)[i] = s[i]
           /\ \A i \in Len(s) + 1 .. Len(s) + Len(t) : (s \o t)[i] = t[i - Len(s)]
  OBVIOUS

(* Two sequences of the same bits are the same. *)
LEMMA SameBits ==
    ASSUME NEW s \in Seq(Bit), NEW t \in Seq(Bit), Len(s) = Len(t),
           \A i \in 1 .. Len(s) : s[i] = t[i]
    PROVE  s = t
  OBVIOUS

(* An initial state owes nothing. *)
LEMMA InitRefines == Init => Stream!Init
  BY DEF Init, Owed, Waiting, Stream!Init, Bit, Stream!Bit

(* A switch is nothing to the host but for the flush, which pads. *)
LEMMA FetchRefines ==
    ASSUME IInv, IInv', NEW nib \in Nibbles, Fetch(nib)
    PROVE  Stream!Flush \/ UNCHANGED Stream!vars
  <1>1. /\ pc = "fetch" /\ UNCHANGED <<s_tdo_bytes, s_usb_sent_bits, packet, tdo>>
    BY DEF Fetch
  <1>2. CASE pc' = "flush"
    <2> DEFINE up == RoundUp(s_total_tdo_bits)
               pad == up - s_total_tdo_bits
    <2>1. s_total_tdo_bits' = up /\ s_usb_sent_bits < up
      BY <1>2, FetchArguments DEF Dispatch
    <2>2. up \in s_total_tdo_bits .. BufferBits /\ up % ByteBits = 0
          /\ up < s_total_tdo_bits + ByteBits
          /\ (s_total_tdo_bits % ByteBits = 0 => up = s_total_tdo_bits)
      BY RoundUpFacts DEF IInv, TypeOK
    <2> HIDE DEF up
    <2>3. pad \in 0 .. ByteBits - 1
      BY <2>2, BitsAssumption DEF IInv, TypeOK
    <2>4. s_usb_sent_bits < s_total_tdo_bits
      <3>1. s_usb_sent_bits = s_total_tdo_bits => up = s_total_tdo_bits
        BY <2>2 DEF IInv, PositionInv
      <3> QED BY <2>1, <2>2, <3>1 DEF IInv, TypeOK
    <2>5. Owed # << >>
      <3>1. Waiting # 0
        BY <2>4 DEF Waiting, IInv, TypeOK
      <3>2. Len(Owed) # 0
        BY <3>1, OwedType
      <3>3. Len(<< >>) = 0
        OBVIOUS
      <3> QED BY <3>2, <3>3, Zenon
    <2>6. Len(Owed) = Waiting /\ Waiting \in Nat /\ Waiting + pad = Waiting'
      BY <1>1, <2>1, <2>2, OwedType DEF Waiting, IInv, TypeOK
    <2>7. (Len(Owed) + pad) % ByteBits = 0
      <3>1. /\ ByteBits \in Nat \ {0} /\ s_usb_sent_bits \in Int /\ Waiting' \in Int
            /\ s_usb_sent_bits % ByteBits = 0 /\ up \in Int /\ up = s_usb_sent_bits + Waiting'
        BY <1>1, <2>1, <2>2, BitsAssumption DEF IInv, TypeOK, PositionInv, Waiting
      <3>2. up % ByteBits = Waiting' % ByteBits
        BY ONLY <3>1, AlignedSum
      <3> QED BY <2>2, <2>6, <3>2
    <2>8. Owed' = Owed \o [i \in 1 .. pad |-> 0]
      <3> DEFINE zeros == [i \in 1 .. pad |-> 0]
      <3>1. zeros \in Seq(Bit) /\ Len(zeros) = pad
        BY <2>3 DEF Bit
      <3>2. /\ Owed \in Seq(Bit) /\ Len(Owed) = Waiting
            /\ \A i \in 1 .. Waiting : Owed[i] = s_tdo_bytes[s_usb_sent_bits + i - 1]
        BY OwedType
      <3>3. /\ Owed' \in Seq(Bit) /\ Len(Owed') = Waiting'
            /\ \A i \in 1 .. Waiting' : Owed'[i] = s_tdo_bytes[s_usb_sent_bits + i - 1]
        <4>1. /\ Waiting' \in Nat /\ Owed' \in Seq(Bit) /\ Len(Owed') = Waiting'
              /\ \A i \in 1 .. Waiting' : Owed'[i] = s_tdo_bytes'[s_usb_sent_bits' + i - 1]
          BY OwedTypeNext
        <4> QED BY <1>1, <4>1
      <3>4. \A i \in Waiting + 1 .. Waiting' : s_tdo_bytes[s_usb_sent_bits + i - 1] = 0
        <4> SUFFICES ASSUME NEW i \in Waiting + 1 .. Waiting'
                     PROVE  s_tdo_bytes[s_usb_sent_bits + i - 1] = 0
          OBVIOUS
        <4>1. /\ Waiting = s_total_tdo_bits - s_usb_sent_bits
              /\ Waiting' = up - s_usb_sent_bits
              /\ s_total_tdo_bits \in Nat /\ s_usb_sent_bits \in Nat
              /\ up \in Nat /\ up <= BufferBits /\ BufferBits \in Nat
          BY <1>1, <2>1, <2>2, BitsAssumption DEF IInv, TypeOK, Waiting
        <4>2. /\ s_usb_sent_bits + i - 1 \in 0 .. BufferBits - 1
              /\ s_usb_sent_bits + i - 1 >= s_total_tdo_bits
          BY <4>1
        <4> QED BY <4>2 DEF IInv, CleanInv
      <3> HIDE DEF zeros
      <3>5. /\ Owed \o zeros \in Seq(Bit) /\ Len(Owed \o zeros) = Waiting'
            /\ \A i \in 1 .. Waiting : (Owed \o zeros)[i] = Owed[i]
            /\ \A i \in Waiting + 1 .. Waiting' : (Owed \o zeros)[i] = zeros[i - Waiting]
        <4>1. Len(Owed) + Len(zeros) = Waiting'
          BY <2>3, <2>6, <3>1, <3>2
        <4> QED BY <3>1, <3>2, <4>1, Joined
      <3>6. \A i \in 1 .. Waiting' : Owed'[i] = (Owed \o zeros)[i]
        <4> SUFFICES ASSUME NEW i \in 1 .. Waiting' PROVE Owed'[i] = (Owed \o zeros)[i]
          OBVIOUS
        <4>1. CASE i <= Waiting
          <5>1. i \in 1 .. Waiting
            BY <2>6, <4>1
          <5> QED BY <3>2, <3>3, <3>5, <5>1, Zenon
        <4>2. CASE i > Waiting
          <5>1. i \in Waiting + 1 .. Waiting' /\ i - Waiting \in 1 .. pad
            BY <2>3, <2>6, <4>2
          <5>2. zeros[i - Waiting] = 0
            BY <5>1 DEF zeros
          <5> QED BY <3>3, <3>4, <3>5, <5>1, <5>2
        <4>3. i <= Waiting \/ i > Waiting
          BY <2>6
        <4> QED BY <4>1, <4>2, <4>3
      <3>7. Owed' = Owed \o zeros
        BY <3>3, <3>5, <3>6, SameBits
      <3> QED BY <3>7 DEF zeros
    <2> HIDE DEF pad
    <2> QED BY <1>1, <1>2, <2>3, <2>5, <2>7, <2>8 DEF Stream!Flush
  <1>3. CASE pc' # "flush"
    <2>1. UNCHANGED s_total_tdo_bits
      <3>1. CASE Dispatch("flush")
        <4> DEFINE up == RoundUp(s_total_tdo_bits)
        <4>1. s_total_tdo_bits' = up /\ ~(s_usb_sent_bits < up)
          BY <1>3, <3>1 DEF Dispatch
        <4>2. up \in s_total_tdo_bits .. BufferBits
          BY RoundUpFacts DEF IInv, TypeOK
        <4> HIDE DEF up
        <4> QED BY <4>1, <4>2 DEF IInv, TypeOK
      <3> QED BY <3>1, FetchArguments
    <2>2. UNCHANGED Owed
      BY <1>1, <2>1 DEF Owed, Waiting
    <2> QED BY <1>1, <1>3, <2>2 DEF Stream!vars
  <1> QED BY <1>2, <1>3

(* A cycle shifts the TAP, and captures its bit when it is asked to. *)
LEMMA ClockRefines ==
    ASSUME IInv, IInv', Clock
    PROVE  Stream!Shift \/ Stream!Capture
  <1>1. /\ pc = "clock" /\ pc' = "clock" /\ tdo' \in Bit
        /\ s_usb_sent_bits' = s_usb_sent_bits /\ packet' = packet
    BY DEF Clock
  <1>2. CASE tdo_req
    <2>1. s_total_tdo_bits < BufferBits /\ s_tdo_bytes[s_total_tdo_bits] = 0
      BY <1>1, <1>2, BitsAssumption DEF IInv, TypeOK, PositionInv, CleanInv, Clock
    <2>2. /\ s_total_tdo_bits' = s_total_tdo_bits + 1
          /\ s_tdo_bytes' = [s_tdo_bytes EXCEPT
                               ![s_total_tdo_bits] = IF tdo = 1 THEN 1 ELSE @]
      BY <1>2 DEF Clock
    <2>3. s_tdo_bytes' = [s_tdo_bytes EXCEPT ![s_total_tdo_bits] = tdo]
      BY <2>1, <2>2, BitsAssumption DEF IInv, TypeOK, Bit
    <2>4. Waiting' = Waiting + 1 /\ Waiting \in Nat
          /\ Waiting = s_total_tdo_bits - s_usb_sent_bits
      BY <1>1, <2>2, OwedType DEF Waiting, IInv, TypeOK
    <2>5. tdo \in Bit
      BY DEF IInv, TypeOK
    <2>6. /\ Owed \in Seq(Bit) /\ Len(Owed) = Waiting
          /\ \A i \in 1 .. Waiting : Owed[i] = s_tdo_bytes[s_usb_sent_bits + i - 1]
      BY OwedType
    <2>7. /\ Append(Owed, tdo) \in Seq(Bit) /\ Len(Append(Owed, tdo)) = Waiting + 1
          /\ \A i \in 1 .. Waiting : Append(Owed, tdo)[i] = Owed[i]
          /\ Append(Owed, tdo)[Waiting + 1] = tdo
      BY <2>4, <2>5, <2>6
    <2>8. /\ Owed' \in Seq(Bit) /\ Len(Owed') = Waiting + 1
          /\ \A i \in 1 .. Waiting + 1 : Owed'[i] = s_tdo_bytes'[s_usb_sent_bits + i - 1]
      <3>1. /\ Owed' \in Seq(Bit) /\ Len(Owed') = Waiting'
            /\ \A i \in 1 .. Waiting' : Owed'[i] = s_tdo_bytes'[s_usb_sent_bits' + i - 1]
        BY OwedTypeNext
      <3> QED BY <1>1, <2>4, <3>1
    <2>9. \A i \in 1 .. Waiting + 1 : Owed'[i] = Append(Owed, tdo)[i]
      <3> SUFFICES ASSUME NEW i \in 1 .. Waiting + 1 PROVE Owed'[i] = Append(Owed, tdo)[i]
        OBVIOUS
      <3> DEFINE p == s_usb_sent_bits + i - 1
      <3>1. p \in 0 .. BufferBits - 1 /\ (i <= Waiting => p # s_total_tdo_bits)
            /\ (i = Waiting + 1 => p = s_total_tdo_bits)
        BY <2>1, <2>4, BitsAssumption, SMTT(30) DEF IInv, TypeOK
      <3>2. s_tdo_bytes'[p] = IF p = s_total_tdo_bits THEN tdo ELSE s_tdo_bytes[p]
        BY <2>3, <3>1 DEF IInv, TypeOK
      <3>3. Owed'[i] = s_tdo_bytes'[p]
        BY <2>8
      <3>4. CASE i <= Waiting
        <4>1. i \in 1 .. Waiting /\ Owed[i] = s_tdo_bytes[p]
          BY <2>4, <2>6, <3>4
        <4> HIDE DEF p
        <4> QED BY <2>7, <3>1, <3>2, <3>3, <3>4, <4>1
      <3>5. CASE i = Waiting + 1
        <4> HIDE DEF p
        <4> QED BY <2>7, <3>1, <3>2, <3>3, <3>5
      <3>6. Waiting \in Nat
        BY <2>4
      <3>7. i <= Waiting \/ i = Waiting + 1
        BY ONLY <3>6, i \in 1 .. Waiting + 1
      <3> QED BY <3>4, <3>5, <3>7
    <2>10. Owed' = Append(Owed, tdo)
      BY <2>7, <2>8, <2>9, SameBits
    <2> QED BY <1>1, <2>10 DEF Stream!Capture, Bit, Stream!Bit
  <1>3. CASE ~tdo_req
    <2>1. UNCHANGED <<s_tdo_bytes, s_total_tdo_bits>>
      BY <1>3 DEF Clock
    <2>2. UNCHANGED Owed
      BY <1>1, <2>1 DEF Owed, Waiting
    <2> QED BY <1>1, <2>2 DEF Stream!Shift, Bit, Stream!Bit
  <1> QED BY <1>2, <1>3

(* A packet of n bits takes the first n that are owed. *)
LEMMA SendRefines ==
    ASSUME IInv, IInv', NEW n \in Nat \ {0}, n <= Waiting, SendData(n),
           Waiting' = Waiting - n,
           \A i \in 1 .. Waiting - n :
              s_tdo_bytes'[s_usb_sent_bits' + i - 1] = s_tdo_bytes[s_usb_sent_bits + n + i - 1],
           UNCHANGED tdo, (pc = "flush") <=> (pc' = "flush")
    PROVE  Stream!Send(n)
  <1>1. /\ Waiting \in Nat /\ Owed \in Seq(Bit) /\ Len(Owed) = Waiting
        /\ \A i \in 1 .. Waiting : Owed[i] = s_tdo_bytes[s_usb_sent_bits + i - 1]
    BY OwedType
  <1>2. s_usb_sent_bits \in Nat /\ s_usb_sent_bits + n <= s_total_tdo_bits
    BY <1>1, BitsAssumption DEF Waiting, IInv, TypeOK
  <1>3. packet' \in {[i \in 1 .. n |-> s_tdo_bytes[s_usb_sent_bits + i - 1]], packet}
    BY <1>2, PacketType
  <1>4. SubSeq(Owed, 1, n) = [i \in 1 .. n |-> s_tdo_bytes[s_usb_sent_bits + i - 1]]
    BY <1>1
  <1>5. Owed' = SubSeq(Owed, n + 1, Len(Owed))
    <2> DEFINE rest == SubSeq(Owed, n + 1, Len(Owed))
    <2>1. /\ rest \in Seq(Bit) /\ Len(rest) = Waiting - n
          /\ \A i \in 1 .. Waiting - n : rest[i] = Owed[n + i]
      BY <1>1
    <2>2. /\ Owed' \in Seq(Bit) /\ Len(Owed') = Waiting - n
          /\ \A i \in 1 .. Waiting - n : Owed'[i] = s_tdo_bytes'[s_usb_sent_bits' + i - 1]
      <3>1. /\ Owed' \in Seq(Bit) /\ Len(Owed') = Waiting'
            /\ \A i \in 1 .. Waiting' : Owed'[i] = s_tdo_bytes'[s_usb_sent_bits' + i - 1]
        BY OwedTypeNext
      <3>2. Waiting' = Waiting - n
        OBVIOUS
      <3> QED BY <3>1, <3>2
    <2> HIDE DEF rest
    <2>3. \A i \in 1 .. Waiting - n : Owed'[i] = rest[i]
      <3> SUFFICES ASSUME NEW i \in 1 .. Waiting - n PROVE Owed'[i] = rest[i]
        OBVIOUS
      <3>1. n + i \in 1 .. Waiting /\ s_usb_sent_bits + (n + i) - 1 = s_usb_sent_bits + n + i - 1
        BY <1>1, <1>2
      <3>2. Owed[n + i] = s_tdo_bytes[s_usb_sent_bits + n + i - 1]
        BY <1>1, <3>1
      <3>3. Owed'[i] = s_tdo_bytes[s_usb_sent_bits + n + i - 1]
        BY <2>2
      <3>4. rest[i] = Owed[n + i]
        BY <2>1
      <3> QED BY <3>2, <3>3, <3>4, Zenon
    <2>4. Owed' = rest
      BY <2>1, <2>2, <2>3, SameBits
    <2> QED BY <2>4 DEF rest
  <1>6. n \in 1 .. Len(Owed)
    BY <1>1
  <1>7. UNCHANGED tdo
    OBVIOUS
  <1>8. (pc = "flush") = (pc' = "flush")
    OBVIOUS
  <1> QED BY <1>3, <1>4, <1>5, <1>6, <1>7, <1>8 DEF Stream!Send

(* The flush sends full packets and then the rest. *)
LEMMA FlushSendRefines ==
    ASSUME IInv, IInv', FlushSend
    PROVE  Stream!SendPacket \/ Stream!SendRest
  <1> DEFINE bits == IF Waiting > PacketBits THEN PacketBits ELSE Waiting
  <1>1. /\ Waiting \in Nat /\ Waiting > 0 /\ Waiting = s_total_tdo_bits - s_usb_sent_bits
        /\ Len(Owed) = Waiting /\ PacketBits \in Nat \ {0}
    BY OwedType, BitsAssumption DEF FlushSend, Waiting
  <1>2. /\ bits \in Nat \ {0} /\ bits <= Waiting
        /\ bits = PacketBits \/ (bits = Waiting /\ Waiting <= PacketBits)
    BY <1>1
  <1>3. /\ SendData(bits) /\ s_usb_sent_bits' = s_usb_sent_bits + bits
        /\ pc = "flush" /\ pc' = "flush" /\ tdo' = tdo
        /\ UNCHANGED <<s_tdo_bytes, s_total_tdo_bits>>
    BY DEF FlushSend
  <1> HIDE DEF bits
  <1>4. Waiting' = Waiting - bits
    BY <1>1, <1>2, <1>3 DEF Waiting, IInv, TypeOK
  <1>5. Stream!Send(bits)
    BY <1>2, <1>3, <1>4, SendRefines
  <1>6. CASE bits = PacketBits
    BY <1>5, <1>6 DEF Stream!SendPacket
  <1>7. CASE bits = Waiting /\ Waiting <= PacketBits
    BY <1>1, <1>3, <1>5, <1>7 DEF Stream!SendRest
  <1> QED BY <1>2, <1>6, <1>7

(* The packet that leaves behind a nibble is a full one. *)
LEMMA DrainPacketRefines ==
    ASSUME IInv, IInv', DrainPacket
    PROVE  Stream!SendPacket
  <1> DEFINE sent == s_usb_sent_bits + PacketBits
  <1>1. /\ Waiting \in Nat /\ Waiting = s_total_tdo_bits - s_usb_sent_bits
        /\ PacketBits \in Nat \ {0} /\ PacketBits <= Waiting /\ BufferBits \in Nat
        /\ s_usb_sent_bits \in Nat /\ s_total_tdo_bits \in 0 .. BufferBits
    BY OwedType, BitsAssumption DEF DrainPacket, Waiting, IInv, TypeOK
  <1>2. /\ SendData(PacketBits) /\ pc = "drain" /\ pc' = "fetch" /\ tdo' = tdo
        /\ s_usb_sent_bits' = IF sent = s_total_tdo_bits THEN 0 ELSE sent
        /\ s_total_tdo_bits' = IF sent = s_total_tdo_bits THEN 0 ELSE s_total_tdo_bits
        /\ s_tdo_bytes' = [i \in 0 .. BufferBits - 1 |->
                              IF i \in s_usb_sent_bits .. sent - 1 THEN 0 ELSE s_tdo_bytes[i]]
    BY DEF DrainPacket
  <1>3. Waiting' = Waiting - PacketBits
    BY <1>1, <1>2 DEF Waiting
  <1>4. ASSUME NEW i \in 1 .. Waiting - PacketBits
        PROVE  s_tdo_bytes'[s_usb_sent_bits' + i - 1]
                 = s_tdo_bytes[s_usb_sent_bits + PacketBits + i - 1]
    <2>1. sent # s_total_tdo_bits
      BY <1>1
    <2>2. s_usb_sent_bits' = sent
      BY <1>2, <2>1
    <2>3. sent + i - 1 \in 0 .. BufferBits - 1 /\ sent + i - 1 \notin s_usb_sent_bits .. sent - 1
      BY <1>1
    <2> HIDE DEF sent
    <2>4. s_tdo_bytes'[sent + i - 1] = s_tdo_bytes[sent + i - 1]
      BY <1>2, <2>3
    <2> QED BY <2>2, <2>4 DEF sent
  <1>5. Stream!Send(PacketBits)
    BY <1>1, <1>2, <1>3, <1>4, SendRefines
  <1> QED BY <1>5 DEF Stream!SendPacket

(* The end of a flush owes nothing. *)
LEMMA FlushDoneRefines ==
    ASSUME IInv, IInv', FlushDone
    PROVE  Stream!EndFlush
  <1>1. /\ pc = "flush" /\ pc' = "drain" /\ Waiting = 0 /\ UNCHANGED <<tdo, packet>>
        /\ s_total_tdo_bits' = 0 /\ s_usb_sent_bits' = 0
    BY DEF FlushDone, Emptied
  <1>2. Owed \in Seq(Bit) /\ Len(Owed) = 0
    BY <1>1, OwedType
  <1>3. Owed' \in Seq(Bit) /\ Len(Owed') = 0
    <2>1. Waiting' = 0
      BY <1>1 DEF Waiting
    <2> QED BY <2>1, OwedTypeNext
  <1>4. Owed = << >> /\ Owed' = << >>
    BY <1>2, <1>3
  <1> QED BY <1>1, <1>4 DEF Stream!EndFlush

(* Every step is one of the abstract specification or a stutter. *)
LEMMA NextRefines == IInv /\ IInv' /\ [Next]_vars => [Stream!Next]_(Stream!vars)
  <1> SUFFICES ASSUME IInv, IInv', [Next]_vars PROVE [Stream!Next]_(Stream!vars)
    OBVIOUS
  <1> USE DEF Stream!Next
  <1>1. CASE \E nib \in Nibbles : Fetch(nib)
    BY <1>1, FetchRefines
  <1>2. CASE Clock
    BY <1>2, ClockRefines
  <1>3. CASE Clocked \/ DrainNothing
    <2>1. UNCHANGED <<tdo, packet, Owed>> /\ pc # "flush" /\ pc' # "flush"
      BY <1>3 DEF Clocked, DrainNothing, buffer, Owed, Waiting
    <2>2. (pc' = "flush") = (pc = "flush")
      BY <2>1
    <2> QED BY <2>1, <2>2 DEF Stream!vars
  <1>4. CASE FlushSend
    BY <1>4, FlushSendRefines
  <1>5. CASE FlushDone
    BY <1>5, FlushDoneRefines
  <1>6. CASE DrainPacket
    BY <1>6, DrainPacketRefines
  <1>7. CASE UNCHANGED vars
    BY <1>7 DEF vars, buffer, Owed, Waiting, Stream!vars
  <1> QED BY <1>1, <1>2, <1>3, <1>4, <1>5, <1>6, <1>7 DEF Next, TaskStep

(* The packets sent are the bits captured, in order and once, for every    *)
(* size of byte, packet and buffer and every level of TDO.                 *)
THEOREM Implementation == Spec => ImplementsStream
  <1>1. Init => Stream!Init
    BY InitRefines
  <1>2. IInv /\ IInv' /\ [Next]_vars => [Stream!Next]_(Stream!vars)
    BY NextRefines
  <1>3. Spec => []IInv
    BY Invariance
  <1> QED BY <1>1, <1>2, <1>3, PTL DEF Spec, ImplementsStream, Stream!Spec

-----------------------------------------------------------------------------
(* DebugPipe *)

Started(m) == IF usb \in {"start", "init", "create"} THEN m < mounts ELSE m <= mounts

(* The buffers belong to the last mount that got that far; who waits or    *)
(* works does so on these or on earlier ones.                              *)
MountInv ==
    /\ current <= mounts /\ send_on <= current
    /\ usb \in {"start", "init"} => current < mounts
    /\ usb = "create" => mounts > 0
    /\ usb \in {"process", "rearm"} => ep_out = "full"
    /\ \A m \in Mounts : probe_on[m] <= current /\ (probe[m] # "none" => Started(m))

(* What has been received and not returned is still in its buffer. *)
HeldInv ==
    /\ returned + Cardinality(Holding(current)) <= rcv
    /\ SendHolds => used > 0
    /\ send = "transfer" /\ send_on = current => held = slots[first]

(* A transfer reads from the place of the item usb_send_task holds, or     *)
(* from the one before the oldest, which it has returned.                  *)
FlyingInv ==
    /\ ~mounted => ep_in = "idle"
    /\ ep_in = "busy" /\ flying # Elsewhere =>
          IF send = "free" /\ send_on = current
          THEN flying = first
          ELSE (flying + 1) % SndSize = first

(* The packets that are still to be made of the requests being worked on *)
Owing == {p \in Mounts \X (1 .. Largest) : probe[p[1]] = "work" /\ p[2] <= unsent[p[1]]}

Gone == IF send = "free" /\ send_on = current THEN 1 ELSE 0
Flying == IF ep_in = "busy" THEN 1 ELSE 0
Foreign == IF send = "transfer" /\ send_on # current THEN 1 ELSE 0
Under == Flying + Foreign + (used - Gone)

Unread == IF ep_out = "full" /\ usb # "rearm" THEN 1 ELSE 0
Requested == Unreceived + Unread

(* No more answers come of the requests sent than the host lets be due. *)
WindowInv ==
    /\ \A m \in Mounts : probe[m] = "work" => unsent[m] <= Largest
    /\ Under + Largest * Requested + Cardinality(Owing) <= Window

PipeInv == PipeTypeOK /\ MountInv /\ HeldInv /\ FlyingInv /\ WindowInv

-----------------------------------------------------------------------------
(* Places and counts *)

LEMMA PipeSizes ==
    /\ RcvSize \in Nat \ {0} /\ SndSize \in Nat \ {0} /\ Window \in Nat
    /\ MaxMounts \in Nat /\ MaxRequests \in Nat
BY SizesAssumption

LEMMA LargestFacts ==
    Largest \in Nat /\ Largest \in Answers /\ \A k \in Answers : k <= Largest /\ k \in Nat
<1>1. \E n \in Answers : \A k \in Answers : k <= n
  BY SizesAssumption
<1>2. Largest \in Answers /\ \A k \in Answers : k <= Largest
  BY <1>1 DEF Largest
<1> QED BY <1>2, SizesAssumption

(* The places of the ring lie one behind the other. *)
LEMMA AtFacts ==
    ASSUME first \in Place, NEW i \in Nat
    PROVE  At(i) \in Place /\ At(0) = first
<1>1. SndSize \in Nat \ {0} /\ first \in 0 .. SndSize - 1
  BY PipeSizes DEF Place
<1>2. At(i) \in Place
  <2>1. first + i \in Int
    BY <1>1
  <2> QED BY <1>1, <2>1, DivMod DEF At, Place
<1>3. At(0) = first
  <2>1. first + 0 = first /\ first = SndSize * 0 + first /\ 0 <= first /\ first < SndSize
    BY <1>1
  <2>2. first % SndSize = first
    BY <1>1, <2>1, ModUnique
  <2> QED BY <2>1, <2>2 DEF At
<1> QED BY <1>2, <1>3

(* No two of them are the same within one turn of the ring. *)
LEMMA AtApart ==
    ASSUME first \in Place, NEW i \in Nat, NEW j \in Nat, i < j, j < i + SndSize
    PROVE  At(i) # At(j)
<1>1. SndSize \in Nat \ {0} /\ first \in Nat
  BY PipeSizes DEF Place
<1> DEFINE x == first + i
           y == first + j
<1>2. x \in Int /\ y \in Int /\ x < y /\ y < x + SndSize
  BY <1>1
<1> HIDE DEF x, y
<1>3. x = SndSize * (x \div SndSize) + (x % SndSize) /\ x \div SndSize \in Int /\ x % SndSize \in Int
  BY <1>1, <1>2, DivMod
<1>4. y = SndSize * (y \div SndSize) + (y % SndSize) /\ y \div SndSize \in Int /\ y % SndSize \in Int
  BY <1>1, <1>2, DivMod
<1> DEFINE q == (y \div SndSize) - (x \div SndSize)
           r == y - x
<1>5. ASSUME x % SndSize = y % SndSize PROVE FALSE
  <2>1. q \in Int /\ r \in Int /\ SndSize * q = r /\ 0 < r /\ -SndSize < r /\ r < SndSize
    BY <1>1, <1>2, <1>3, <1>4, <1>5
  <2> HIDE DEF q, r
  <2> QED BY <1>1, <2>1, NoMultipleBetween
<1> QED BY <1>5 DEF x, y, At

LEMMA OwingFacts ==
    IsFiniteSet(Owing) /\ Cardinality(Owing) \in Nat
<1>1. IsFiniteSet(Mounts) /\ IsFiniteSet(1 .. Largest)
  BY FS_Interval, LargestFacts, PipeSizes DEF Mounts
<1>2. IsFiniteSet(Mounts \X (1 .. Largest))
  BY <1>1, FS_Product
<1>3. Owing \subseteq Mounts \X (1 .. Largest)
  BY DEF Owing
<1>4. IsFiniteSet(Owing)
  BY <1>2, <1>3, FS_Subset
<1> QED BY <1>4, FS_CardinalityType

(* The tasks that work on something, and those that do on an item of one   *)
(* buffer                                                                  *)
LEMMA HoldingFacts ==
    /\ IsFiniteSet(Working) /\ Cardinality(Working) \in Nat
    /\ \A on : IsFiniteSet(Holding(on)) /\ Cardinality(Holding(on)) \in Nat
<1>1. IsFiniteSet(Mounts)
  BY FS_Interval, PipeSizes DEF Mounts
<1>2. IsFiniteSet(Working)
  BY <1>1, FS_Subset DEF Working
<1>3. ASSUME NEW on PROVE IsFiniteSet(Holding(on))
  BY <1>1, FS_Subset DEF Holding
<1> QED BY <1>2, <1>3, FS_CardinalityType

LEMMA CountTypes ==
    ASSUME PipeTypeOK, HeldInv
    PROVE  /\ Flying \in {0, 1} /\ Foreign \in {0, 1} /\ Gone \in {0, 1}
           /\ Unread \in {0, 1} /\ Unreceived \in Nat /\ returned \in Nat
           /\ used - Gone \in Nat /\ Under \in Nat /\ Requested \in Nat
           /\ used \in Nat /\ rcv \in Nat
<1>1. used \in Nat /\ rcv \in Nat
  <2>1. used \in 0 .. SndSize /\ rcv \in 0 .. RcvSize
    BY DEF PipeTypeOK
  <2> QED BY <2>1, PipeSizes
<1>2. Flying \in {0, 1} /\ Foreign \in {0, 1} /\ Gone \in {0, 1} /\ Unread \in {0, 1}
  BY DEF Flying, Foreign, Gone, Unread
<1>3. Gone = 1 => used > 0
  BY DEF Gone, HeldInv, SendHolds
<1>4. returned \in Nat /\ Unreceived \in Nat
  <2>1. returned \in 0 .. RcvSize
    BY DEF PipeTypeOK
  <2>2. returned + Cardinality(Holding(current)) <= rcv
    BY DEF HeldInv
  <2> DEFINE h == Cardinality(Holding(current))
  <2>3. h \in Nat
    BY HoldingFacts
  <2> HIDE DEF h
  <2> QED BY <1>1, <2>1, <2>2, <2>3, PipeSizes DEF Unreceived, h
<1>5. used - Gone \in Nat
  BY <1>1, <1>2, <1>3
<1> QED BY <1>1, <1>2, <1>4, <1>5 DEF Under, Requested

LEMMA Times ==
    ASSUME NEW l \in Nat, NEW a \in Nat, NEW b \in Nat, a <= b
    PROVE  l * a \in Nat /\ l * b \in Nat /\ l * a <= l * b
OBVIOUS

LEMMA TimesNext ==
    ASSUME NEW l \in Nat, NEW a \in Nat
    PROVE  l * a \in Nat /\ l * (a + 1) = l * a + l
OBVIOUS

LEMMA WithinWindow ==
    ASSUME NEW u \in Nat, NEW v \in Nat, NEW x \in Nat, NEW y \in Nat, NEW c \in Nat, NEW w \in Nat,
           u + x + c <= w, v <= u, y <= x
    PROVE  v + y + c <= w
OBVIOUS

(* Steps by which no more answers are due *)
LEMMA WindowLess ==
    ASSUME PipeTypeOK, HeldInv, WindowInv, UNCHANGED <<probe, unsent>>,
           Under' \in Nat, Requested' \in Nat, Under' <= Under, Requested' <= Requested
    PROVE  WindowInv'
<1>1. Owing' = Owing
  BY DEF Owing
<1>2. Under \in Nat /\ Requested \in Nat /\ Cardinality(Owing) \in Nat /\ Window \in Nat
  BY CountTypes, OwingFacts, PipeSizes
<1>3. Largest * Requested' \in Nat /\ Largest * Requested \in Nat
      /\ Largest * Requested' <= Largest * Requested
  BY <1>2, LargestFacts, Times
<1>4. Under' + Largest * Requested' + Cardinality(Owing) <= Window
  BY <1>2, <1>3, WithinWindow DEF WindowInv
<1> QED BY <1>1, <1>4 DEF WindowInv
-----------------------------------------------------------------------------
(* The TinyUSB task *)

LEMMA AbortKeeps ==
    ASSUME PipeInv, NEW why \in {"no buffer", "foreign item", "request", "endpoint"}, Abort(why)
    PROVE  PipeInv'
<1>0. /\ UNCHANGED <<usb, mounts, mounted, current, rcv, returned, slots, first, used, send,
                     send_on, held>>
      /\ UNCHANGED <<probe, probe_on, unsent, ep_out, ep_in, flying, started, requests, made, got>>
      /\ aborted' = why
  BY DEF Abort, mounting, buffers, sender, probes, endpoints, host
<1>1. PipeTypeOK'
  <2>1. aborted' \in {"no", "no buffer", "foreign item", "request", "endpoint"}
    BY <1>0
  <2>2. PipeTypeOK
    BY DEF PipeInv
  <2> QED BY <1>0, <2>1, <2>2, ZenonT(30) DEF PipeTypeOK
<1>2. MountInv'
  BY <1>0 DEF MountInv, Started, PipeInv
<1>3. HeldInv' /\ FlyingInv'
  BY <1>0 DEF HeldInv, FlyingInv, Holding, SendHolds, PipeInv
<1>4. WindowInv'
  <2>1. Under' = Under /\ Requested' = Requested /\ Owing' = Owing
    BY <1>0 DEF Under, Requested, Flying, Foreign, Gone, Unread, Unreceived, Holding, Owing
  <2> QED BY <1>0, <2>1 DEF WindowInv, PipeInv
<1> QED BY <1>1, <1>2, <1>3, <1>4 DEF PipeInv

LEMMA MountKeeps == ASSUME PipeInv, Mount PROVE PipeInv'
<1> USE DEF PipeInv, Mount, buffers, sender, probes, host
<1>1. PipeTypeOK' /\ MountInv'
  <2>1. mounts \in Nat /\ mounts + 1 \in 0 .. MaxMounts /\ current \in Nat /\ send_on \in Nat
    <3>1. mounts \in 0 .. MaxMounts /\ mounts < MaxMounts /\ current \in 0 .. MaxMounts
          /\ send_on \in 0 .. MaxMounts
      BY DEF PipeTypeOK
    <3> QED BY <3>1, PipeSizes
  <2>2. PipeTypeOK'
    BY <2>1 DEF PipeTypeOK
  <2>3. MountInv'
    <3>1. ASSUME NEW m \in Mounts, probe[m] # "none" PROVE m < mounts + 1
      <4>1. m <= mounts
        BY <3>1 DEF MountInv, Started
      <4> QED BY <2>1, <4>1, PipeSizes DEF Mounts
    <3>2. current <= mounts + 1 /\ current < mounts + 1 /\ send_on <= current
      BY <2>1 DEF MountInv
    <3> QED BY <3>1, <3>2 DEF MountInv, Started
  <2> QED BY <2>2, <2>3
<1>2. HeldInv'
  BY DEF HeldInv, Holding, SendHolds
<1>3. FlyingInv'
  BY DEF FlyingInv
<1>4. WindowInv'
  <2>1. Under' = Under /\ Requested' \in Nat /\ Requested' <= Requested
    <3>1. Under' = Under /\ Unread' = 0 /\ Unreceived' = Unreceived
      BY DEF Under, Flying, Foreign, Gone, Unread, Unreceived, Holding
    <3> QED BY <3>1, CountTypes DEF Requested
  <2> QED BY <2>1, CountTypes, WindowLess
<1> QED BY <1>1, <1>2, <1>3, <1>4

(* Steps of the TinyUSB task and the host that leave buffers and tasks as  *)
(* they are                                                                *)
LEMMA UsbKeeps ==
    ASSUME PipeInv, PipeTypeOK', MountInv',
           UNCHANGED <<mounts, buffers, send_on, held, probe, probe_on, unsent, flying>>,
           \/ send' = send
           \/ send = "none" /\ send' = "receive",
           \/ mounted' = mounted /\ ep_in' = ep_in
           \/ ep_in' # "busy" /\ (~mounted' => ep_in' = "idle"),
           Unread' <= Unread
    PROVE  PipeInv'
<1> USE DEF PipeInv, buffers
<1>1. HeldInv'
  BY DEF HeldInv, Holding, SendHolds
<1>2. FlyingInv'
  BY DEF FlyingInv
<1>3. WindowInv'
  <2>1. Foreign' = Foreign /\ Gone' = Gone /\ Unreceived' = Unreceived /\ Flying' <= Flying
        /\ Flying' \in {0, 1} /\ Flying \in {0, 1} /\ Unread' \in {0, 1}
    BY DEF Foreign, Gone, Flying, Unread, Unreceived, Holding
  <2>2. Under' \in Nat /\ Under' <= Under
    BY <2>1, CountTypes DEF Under
  <2>3. Requested' \in Nat /\ Requested' <= Requested
    BY <2>1, <1>1, CountTypes DEF Requested, HeldInv, Unreceived
  <2> QED BY <2>2, <2>3, WindowLess
<1> QED BY <1>1, <1>2, <1>3

LEMMA StartSenderKeeps == ASSUME PipeInv, StartSender PROVE PipeInv'
<1> USE DEF StartSender, mounting, buffers, probes, endpoints, host
<1>1. PipeTypeOK' /\ MountInv'
  BY ZenonT(30) DEF PipeInv, PipeTypeOK, MountInv, Started
<1>2. Unread' <= Unread
  BY DEF Unread
<1>3. UNCHANGED <<mounts, buffers, send_on, held, probe, probe_on, unsent, flying>>
      /\ (send' = send \/ (send = "none" /\ send' = "receive"))
  OBVIOUS
<1>4. \/ mounted' = mounted /\ ep_in' = ep_in
      \/ ep_in' # "busy" /\ (~mounted' => ep_in' = "idle")
  OBVIOUS
<1> QED BY ONLY <1>1, <1>2, <1>3, <1>4, PipeInv, UsbKeeps

LEMMA ResetKeeps == ASSUME PipeInv, Reset PROVE PipeInv'
<1> USE DEF Reset, buffers, sender, probes, host
<1>1. PipeTypeOK' /\ MountInv'
  BY DEF PipeInv, PipeTypeOK, MountInv, Started
<1>2. Unread' <= Unread
  BY DEF Unread
<1>3. UNCHANGED <<mounts, buffers, send_on, held, probe, probe_on, unsent, flying>>
      /\ (send' = send \/ (send = "none" /\ send' = "receive"))
  OBVIOUS
<1>4. \/ mounted' = mounted /\ ep_in' = ep_in
      \/ ep_in' # "busy" /\ (~mounted' => ep_in' = "idle")
  OBVIOUS
<1> QED BY ONLY <1>1, <1>2, <1>3, <1>4, PipeInv, UsbKeeps

LEMMA OutCompleteKeeps == ASSUME PipeInv, OutComplete PROVE PipeInv'
<1> USE DEF OutComplete, mounting, buffers, sender, probes, endpoints, host
<1>1. PipeTypeOK' /\ MountInv'
  BY DEF PipeInv, PipeTypeOK, MountInv, Started
<1>2. Unread' <= Unread
  BY DEF Unread
<1>3. UNCHANGED <<mounts, buffers, send_on, held, probe, probe_on, unsent, flying>>
      /\ (send' = send \/ (send = "none" /\ send' = "receive"))
  OBVIOUS
<1>4. \/ mounted' = mounted /\ ep_in' = ep_in
      \/ ep_in' # "busy" /\ (~mounted' => ep_in' = "idle")
  OBVIOUS
<1> QED BY ONLY <1>1, <1>2, <1>3, <1>4, PipeInv, UsbKeeps

LEMMA RearmKeeps == ASSUME PipeInv, Rearm PROVE PipeInv'
<1> USE DEF Rearm, mounting, buffers, sender, probes, host
<1>1. PipeTypeOK' /\ MountInv'
  BY DEF PipeInv, PipeTypeOK, MountInv, Started
<1>2. Unread' <= Unread
  BY DEF Unread
<1>3. UNCHANGED <<mounts, buffers, send_on, held, probe, probe_on, unsent, flying>>
      /\ (send' = send \/ (send = "none" /\ send' = "receive"))
  OBVIOUS
<1>4. \/ mounted' = mounted /\ ep_in' = ep_in
      \/ ep_in' # "busy" /\ (~mounted' => ep_in' = "idle")
  OBVIOUS
<1> QED BY ONLY <1>1, <1>2, <1>3, <1>4, PipeInv, UsbKeeps

LEMMA InCompleteKeeps == ASSUME PipeInv, InComplete PROVE PipeInv'
<1> USE DEF InComplete, mounting, buffers, sender, probes, host
<1>1. PipeTypeOK' /\ MountInv'
  BY DEF PipeInv, PipeTypeOK, MountInv, Started
<1>2. Unread' <= Unread
  BY DEF Unread
<1>3. UNCHANGED <<mounts, buffers, send_on, held, probe, probe_on, unsent, flying>>
      /\ (send' = send \/ (send = "none" /\ send' = "receive"))
  OBVIOUS
<1>4. \/ mounted' = mounted /\ ep_in' = ep_in
      \/ ep_in' # "busy" /\ (~mounted' => ep_in' = "idle")
  OBVIOUS
<1> QED BY ONLY <1>1, <1>2, <1>3, <1>4, PipeInv, UsbKeeps

LEMMA HostReadsKeeps == ASSUME PipeInv, HostReads PROVE PipeInv'
<1> USE DEF HostReads, mounting, buffers, sender, probes
<1>1. PipeTypeOK' /\ MountInv'
  <2>1. InFlight \in Nat
    BY DEF PipeInv, PipeTypeOK, InFlight
  <2> QED BY <2>1, ZenonT(30) DEF PipeInv, PipeTypeOK, MountInv, Started
<1>2. Unread' <= Unread
  BY DEF Unread
<1>3. UNCHANGED <<mounts, buffers, send_on, held, probe, probe_on, unsent, flying>>
      /\ (send' = send \/ (send = "none" /\ send' = "receive"))
  OBVIOUS
<1>4. \/ mounted' = mounted /\ ep_in' = ep_in
      \/ ep_in' # "busy" /\ (~mounted' => ep_in' = "idle")
  OBVIOUS
<1> QED BY ONLY <1>1, <1>2, <1>3, <1>4, PipeInv, UsbKeeps

LEMMA MakeBuffersKeeps == ASSUME PipeInv, MakeBuffers PROVE PipeInv'
<1> USE DEF PipeInv
<1>0. /\ usb = "init" /\ usb' = "create" /\ current' = mounts /\ rcv' = 0 /\ returned' = 0
      /\ slots' = [p \in Place |-> 0] /\ first' = 0 /\ used' = 0
      /\ flying' = Elsewhere /\ started' = InFlight
      /\ UNCHANGED <<mounts, mounted, send, send_on, held, probe, probe_on, unsent, made>>
      /\ UNCHANGED <<ep_out, ep_in, aborted, requests, got>>
  BY DEF MakeBuffers, mounting, sender, probes, host
<1>1. /\ mounts \in Nat /\ mounts <= MaxMounts /\ current \in Nat /\ send_on \in Nat /\ current < mounts
      /\ send_on <= current /\ \A m \in Mounts : probe_on[m] <= current /\ probe_on[m] \in Nat
  <2>1. /\ mounts \in 0 .. MaxMounts /\ current \in 0 .. MaxMounts /\ send_on \in 0 .. MaxMounts
        /\ \A m \in Mounts : probe_on[m] \in 0 .. MaxMounts
    BY DEF PipeTypeOK
  <2> QED BY <1>0, <2>1, PipeSizes DEF MountInv
<1>2. PipeTypeOK'
  <2>1. 0 \in Place /\ 0 \in 0 .. SndSize /\ 0 \in 0 .. RcvSize /\ InFlight \in Nat
    <3>1. 0 \in Place /\ 0 \in 0 .. SndSize /\ 0 \in 0 .. RcvSize
      BY PipeSizes DEF Place
    <3>2. InFlight \in Nat
      BY DEF Place, InFlight, PipeTypeOK
    <3> QED BY <3>1, <3>2
  <2> QED BY <1>0, <2>1 DEF PipeTypeOK, Elsewhere
<1>3. Holding(current') = {} /\ send_on # current'
  <2>1. \A m \in Mounts : probe_on[m] # current'
    BY <1>0, <1>1
  <2> QED BY <1>0, <1>1, <2>1 DEF Holding
<1>4. MountInv'
  <2>1. \A m \in Mounts : probe_on[m] <= current' /\ (probe[m] # "none" => Started(m)')
    <3>1. \A m \in Mounts : probe_on[m] <= mounts
      BY <1>1
    <3> QED BY <1>0, <3>1 DEF MountInv, Started
  <2>2. current' <= mounts' /\ send_on' <= current' /\ mounts' > 0
    BY <1>0, <1>1
  <2> QED BY <1>0, <2>1, <2>2 DEF MountInv
<1>5. Holding(current)' = {} /\ ~SendHolds' /\ send_on' # current'
  BY <1>0, <1>3 DEF Holding, SendHolds
<1>6. HeldInv' /\ FlyingInv'
  <2>1. Cardinality(Holding(current)') = 0
    BY <1>5, FS_EmptySet
  <2> QED BY <1>0, <1>5, <2>1 DEF HeldInv, FlyingInv
<1>7. WindowInv'
  <2>0. Unreceived' = 0
    BY <1>0, <1>5, FS_EmptySet DEF Unreceived
  <2>1. Flying' = Flying /\ Gone' = 0 /\ Unreceived' = 0 /\ Unread' = Unread /\ Foreign' \in {0, 1}
    BY <1>0, <1>5, <2>0 DEF Flying, Gone, Unread, Foreign
  <2>2. Requested' \in Nat /\ Requested' <= Requested
    <3>1. Unreceived \in Nat /\ Unread \in {0, 1}
      BY CountTypes
    <3>2. Requested' = Unread
      BY <1>0, <2>1, <3>1 DEF Requested
    <3> QED BY <3>1, <3>2 DEF Requested
  <2>3. Foreign' <= Foreign + (used - Gone)
    <3>1. CASE send = "transfer" /\ send_on = current
      BY <3>1, CountTypes, <2>1 DEF HeldInv, SendHolds, Gone
    <3>2. CASE send = "transfer" /\ send_on # current
      BY <3>2, CountTypes, <2>1 DEF Foreign
    <3>3. CASE send # "transfer"
      BY <1>0, <3>3, CountTypes, <2>1 DEF Foreign
    <3> QED BY <3>1, <3>2, <3>3
  <2>4. Under' \in Nat /\ Under' <= Under
    BY <1>0, <2>1, <2>3, CountTypes DEF Under
  <2> QED BY <1>0, <2>2, <2>4, WindowLess
<1> QED BY <1>2, <1>4, <1>6, <1>7

LEMMA CreateProbeKeeps == ASSUME PipeInv, CreateProbe PROVE PipeInv'
<1> USE DEF PipeInv
<1>0. /\ usb = "create" /\ usb' = "idle" /\ probe' = [probe EXCEPT ![mounts] = "receive"]
      /\ UNCHANGED <<mounts, mounted, current, rcv, returned, slots, first, used, send, send_on,
                     held>>
      /\ UNCHANGED <<probe_on, unsent, ep_out, ep_in, flying, started, aborted, requests, made,
                     got>>
  BY DEF CreateProbe, mounting, buffers, sender, endpoints, host
<1>1. mounts \in Mounts /\ mounts \in Nat /\ probe[mounts] = "none"
  <2>1. mounts \in 0 .. MaxMounts /\ mounts > 0
    BY <1>0 DEF MountInv, PipeTypeOK
  <2>2. mounts \in Mounts /\ mounts \in Nat
    BY <2>1, PipeSizes DEF Mounts
  <2> QED BY <1>0, <2>2 DEF MountInv, Started
<1>2. PipeTypeOK'
  BY <1>0, <1>1, ZenonT(30) DEF PipeTypeOK
<1>3. \A m \in Mounts : probe'[m] = "work" <=> probe[m] = "work"
  BY <1>0, <1>1 DEF PipeTypeOK
<1>4. MountInv'
  <2>1. ASSUME NEW m \in Mounts, probe'[m] # "none" PROVE m <= mounts
    <3>1. CASE m = mounts
      BY <1>1, <3>1
    <3>2. CASE m # mounts
      <4>1. probe[m] # "none"
        BY <1>0, <2>1, <3>2 DEF PipeTypeOK
      <4>2. m < mounts /\ m \in Int
        BY <1>0, <4>1, PipeSizes DEF MountInv, Started, Mounts
      <4> QED BY <1>1, <4>2
    <3> QED BY <3>1, <3>2
  <2> QED BY <1>0, <2>1 DEF MountInv, Started
<1>5. Holding(current)' = Holding(current) /\ Owing' = Owing
  BY <1>0, <1>3 DEF Holding, Owing
<1>6. HeldInv' /\ FlyingInv'
  BY <1>0, <1>5 DEF HeldInv, FlyingInv, SendHolds
<1>7. WindowInv'
  <2>1. Under' = Under /\ Requested' = Requested
    BY <1>0, <1>5 DEF Under, Requested, Flying, Foreign, Gone, Unread, Unreceived
  <2> QED BY <1>0, <1>3, <1>5, <2>1 DEF WindowInv
<1> QED BY <1>2, <1>4, <1>6, <1>7

LEMMA ProcessDataKeeps == ASSUME PipeInv, ProcessData PROVE PipeInv'
<1> USE DEF PipeInv
<1>0. /\ usb = "process" /\ usb' = "rearm" /\ rcv < RcvSize /\ rcv' = rcv + 1
      /\ UNCHANGED <<mounts, mounted, current, returned, slots, first, used, send, send_on, held>>
      /\ UNCHANGED <<probe, probe_on, unsent, ep_out, ep_in, flying, started, aborted, requests,
                     made, got>>
  BY DEF ProcessData, mounting, sender, probes, endpoints, host
<1>1. PipeTypeOK'
  <2>1. rcv + 1 \in 0 .. RcvSize
    <3>1. rcv \in 0 .. RcvSize
      BY DEF PipeTypeOK
    <3> QED BY <1>0, <3>1, PipeSizes
  <2> QED BY <1>0, <2>1, ZenonT(30) DEF PipeTypeOK
<1>2. MountInv' /\ FlyingInv'
  BY <1>0 DEF MountInv, Started, FlyingInv
<1>3. Cardinality(Holding(current)') = Cardinality(Holding(current))
  <2>1. Holding(current)' = Holding(current)
    BY <1>0 DEF Holding
  <2> QED BY <2>1
<1>4. HeldInv'
  <2>1. (returned + Cardinality(Holding(current)) <= rcv)'
    BY <1>0, <1>3, CountTypes, HoldingFacts DEF HeldInv
  <2> QED BY <1>0, <2>1 DEF HeldInv, SendHolds
<1>5. WindowInv'
  <2>1. Under' = Under /\ Unreceived' = Unreceived + 1
    <3>1. Under' = Under
      BY <1>0 DEF Under, Flying, Foreign, Gone
    <3>2. Unreceived' = Unreceived + 1
      BY <1>0, <1>3, CountTypes, HoldingFacts DEF Unreceived
    <3> QED BY <3>1, <3>2
  <2>2. ep_out = "full"
    BY <1>0 DEF MountInv
  <2>3. Unread = 1 /\ Unread' = 0
    BY <1>0, <2>2 DEF Unread
  <2>4. Requested' = Requested
    BY <1>0, <2>1, <2>3, CountTypes DEF Requested
  <2> QED BY <1>0, <2>1, <2>4, CountTypes, WindowLess
<1> QED BY <1>1, <1>2, <1>4, <1>5
-----------------------------------------------------------------------------
(* usb_send_task *)

LEMMA SendReceiveKeeps == ASSUME PipeInv, SendReceive PROVE PipeInv'
<1> USE DEF PipeInv
<1>1. CASE current = 0
  BY <1>1, AbortKeeps DEF SendReceive
<1>2. CASE current # 0
  <2>0. /\ send = "receive" /\ send' = "blocked" /\ send_on' = current
        /\ UNCHANGED <<usb, mounts, mounted, current, rcv, returned, slots, first, used, held,
                       probe, probe_on>>
        /\ UNCHANGED <<unsent, ep_out, ep_in, flying, started, aborted, requests, made, got>>
    BY <1>2 DEF SendReceive, mounting, buffers, probes, endpoints, host
  <2>1. PipeTypeOK'
    BY <2>0, ZenonT(30) DEF PipeTypeOK
  <2>2. MountInv'
    <3>1. current <= current
      <4>1. current \in 0 .. MaxMounts
        BY DEF PipeTypeOK
      <4> QED BY <4>1, PipeSizes
    <3> QED BY <2>0, <3>1 DEF MountInv, Started
  <2>3. HeldInv' /\ FlyingInv'
    BY <2>0 DEF HeldInv, FlyingInv, SendHolds, Holding
  <2>4. WindowInv'
    <3>1. Under' = Under /\ Requested' = Requested /\ Owing' = Owing
      BY <2>0 DEF Under, Requested, Flying, Foreign, Gone, Unread, Unreceived, Holding, Owing
    <3> QED BY <2>0, <3>1 DEF WindowInv
  <2> QED BY <2>1, <2>2, <2>3, <2>4
<1> QED BY <1>1, <1>2

LEMMA SendGetsKeeps == ASSUME PipeInv, SendGets PROVE PipeInv'
<1> USE DEF PipeInv
<1>0. /\ send = "blocked" /\ send_on = current /\ used > 0 /\ send' = "transfer" /\ held' = slots[first]
      /\ UNCHANGED <<usb, mounts, mounted, current, rcv, returned, slots, first, used, send_on,
                     probe, probe_on>>
      /\ UNCHANGED <<unsent, ep_out, ep_in, flying, started, aborted, requests, made, got>>
  BY DEF SendGets, mounting, buffers, probes, endpoints, host
<1>1. PipeTypeOK'
  BY <1>0, ZenonT(30) DEF PipeTypeOK
<1>2. MountInv'
  BY <1>0 DEF MountInv, Started
<1>3. HeldInv' /\ FlyingInv'
  BY <1>0 DEF HeldInv, FlyingInv, SendHolds, Holding
<1>4. WindowInv'
  <2>1. Under' = Under /\ Requested' = Requested /\ Owing' = Owing
    BY <1>0 DEF Under, Requested, Flying, Foreign, Gone, Unread, Unreceived, Holding, Owing
  <2> QED BY <1>0, <2>1 DEF WindowInv
<1> QED BY <1>1, <1>2, <1>3, <1>4

LEMMA TransferKeeps == ASSUME PipeInv, Transfer PROVE PipeInv'
<1> USE DEF PipeInv
<1>0. /\ send = "transfer" /\ mounted /\ ep_in = "idle" /\ ep_in' = "busy" /\ send' = "free"
      /\ flying' = (IF send_on = current THEN first ELSE Elsewhere) /\ started' = held
      /\ UNCHANGED <<usb, mounts, mounted, current, rcv, returned, slots, first, used, send_on,
                     held, probe>>
      /\ UNCHANGED <<probe_on, unsent, ep_out, aborted, requests, made, got>>
  BY DEF Transfer, mounting, buffers, probes, host
<1>1. PipeTypeOK'
  <2>1. flying' \in Place \cup {Elsewhere} /\ started' \in Nat
    BY <1>0 DEF PipeTypeOK
  <2> QED BY <1>0, <2>1 DEF PipeTypeOK
<1>2. MountInv'
  BY <1>0 DEF MountInv, Started
<1>3. HeldInv' /\ FlyingInv'
  BY <1>0 DEF HeldInv, FlyingInv, SendHolds, Holding
<1>4. WindowInv'
  <2>1. Requested' = Requested /\ Flying = 0 /\ Flying' = 1 /\ Gone = 0 /\ Foreign' = 0 /\ used' = used
    BY <1>0 DEF Requested, Flying, Foreign, Gone, Unread, Unreceived, Holding
  <2>2. \/ send_on = current /\ Foreign = 0 /\ Gone' = 1
        \/ send_on # current /\ Foreign = 1 /\ Gone' = 0
    BY <1>0 DEF Foreign, Gone
  <2>3. Under' = Under
    BY <2>1, <2>2, CountTypes DEF Under
  <2> QED BY <1>0, <2>1, <2>3, CountTypes, WindowLess
<1> QED BY <1>1, <1>2, <1>3, <1>4

LEMMA TransferNowhereKeeps == ASSUME PipeInv, TransferNowhere PROVE PipeInv'
<1> USE DEF PipeInv
<1>1. CASE Abort("endpoint")
  BY <1>1, AbortKeeps
<1>2. CASE ~Abort("endpoint")
  <2>0. /\ send = "transfer" /\ ~mounted /\ send' = "free"
        /\ UNCHANGED <<usb, mounts, mounted, current, rcv, returned, slots, first, used, send_on,
                       held, probe>>
        /\ UNCHANGED <<probe_on, unsent, ep_out, ep_in, flying, started, aborted, requests, made,
                       got>>
    BY <1>2 DEF TransferNowhere, mounting, buffers, probes, endpoints, host
  <2>1. PipeTypeOK'
    BY <2>0 DEF PipeTypeOK
  <2>2. MountInv'
    BY <2>0 DEF MountInv, Started
  <2>3. HeldInv' /\ FlyingInv'
    BY <2>0 DEF HeldInv, FlyingInv, SendHolds, Holding
  <2>4. WindowInv'
    <3>1. Requested' = Requested /\ Flying' = Flying /\ Gone = 0 /\ Foreign' = 0 /\ used' = used
      BY <2>0 DEF Requested, Flying, Foreign, Gone, Unread, Unreceived, Holding
    <3>2. \/ send_on = current /\ Foreign = 0 /\ Gone' = 1 /\ used > 0
          \/ send_on # current /\ Foreign = 1 /\ Gone' = 0
      BY <2>0 DEF Foreign, Gone, HeldInv, SendHolds
    <3>3. Under' = Under - 1 /\ Under' \in Nat
      BY <3>1, <3>2, CountTypes DEF Under
    <3> QED BY <2>0, <3>1, <3>3, CountTypes, WindowLess
  <2> QED BY <2>1, <2>2, <2>3, <2>4
<1> QED BY <1>1, <1>2

LEMMA SendFreeKeeps == ASSUME PipeInv, SendFree PROVE PipeInv'
<1> USE DEF PipeInv
<1>1. CASE send_on # current
  BY <1>1, AbortKeeps DEF SendFree
<1>2. CASE send_on = current
  <2>0. /\ send = "free" /\ send' = "receive" /\ first' = At(1) /\ used' = used - 1
        /\ UNCHANGED <<usb, mounts, mounted, current, rcv, returned, slots, send_on, held, probe,
                       probe_on>>
        /\ UNCHANGED <<unsent, ep_out, ep_in, flying, started, aborted, requests, made, got>>
    BY <1>2 DEF SendFree, mounting, probes, endpoints, host
  <2>1. used > 0
    BY <1>2, <2>0 DEF HeldInv, SendHolds
  <2>2. PipeTypeOK'
    <3>1. used - 1 \in 0 .. SndSize
      <4>1. used \in 0 .. SndSize
        BY DEF PipeTypeOK
      <4> QED BY <2>1, <4>1, PipeSizes
    <3>2. At(1) \in Place
      BY AtFacts DEF PipeTypeOK
    <3> QED BY <2>0, <3>1, <3>2, ZenonT(30) DEF PipeTypeOK
  <2>3. MountInv'
    BY <2>0 DEF MountInv, Started
  <2>4. HeldInv'
    BY <2>0 DEF HeldInv, SendHolds, Holding
  <2>5. FlyingInv'
    BY <1>2, <2>0 DEF FlyingInv, At
  <2>6. WindowInv'
    <3>1. Requested' = Requested /\ Flying' = Flying /\ Gone = 1 /\ Gone' = 0 /\ Foreign' = Foreign
      BY <1>2, <2>0 DEF Requested, Flying, Foreign, Gone, Unread, Unreceived, Holding
    <3>2. Under' = Under
      BY <2>0, <3>1, CountTypes DEF Under
    <3> QED BY <2>0, <3>1, <3>2, CountTypes, WindowLess
  <2> QED BY <2>2, <2>3, <2>4, <2>5, <2>6
<1> QED BY <1>1, <1>2
-----------------------------------------------------------------------------
(* The probe's tasks *)

LEMMA PipeTypes ==
    ASSUME PipeTypeOK
    PROVE  /\ probe \in [Mounts -> {"none", "receive", "blocked", "work"}]
           /\ probe_on \in [Mounts -> 0 .. MaxMounts] /\ unsent \in [Mounts -> Nat]
           /\ slots \in [Place -> Nat] /\ first \in Place /\ made \in Nat
           /\ rcv \in 0 .. RcvSize /\ returned \in 0 .. RcvSize /\ used \in 0 .. SndSize
           /\ current \in 0 .. MaxMounts
BY DEF PipeTypeOK

LEMMA ProbeTypes ==
    ASSUME PipeTypeOK,
           probe' \in [Mounts -> {"none", "receive", "blocked", "work"}],
           probe_on' \in [Mounts -> 0 .. MaxMounts], unsent' \in [Mounts -> Nat],
           slots' \in [Place -> Nat], made' \in Nat, rcv' \in 0 .. RcvSize, returned' \in 0 .. RcvSize,
           used' \in 0 .. SndSize,
           UNCHANGED <<usb, mounts, mounted, current, first, send, send_on, held>>,
           UNCHANGED <<ep_out, ep_in, flying, started, aborted, requests, got>>
    PROVE  PipeTypeOK'
<1>1. /\ usb' \in {"idle", "start", "init", "create", "process", "rearm"}
      /\ mounts' \in 0 .. MaxMounts /\ mounted' \in BOOLEAN /\ current' \in 0 .. MaxMounts
      /\ first' \in Place
      /\ send' \in {"none", "receive", "blocked", "transfer", "free"} /\ send_on' \in 0 .. MaxMounts
      /\ held' \in Nat
  BY DEF PipeTypeOK
<1>2. /\ ep_out' \in {"off", "armed", "full"} /\ ep_in' \in {"idle", "busy", "read"}
      /\ flying' \in Place \cup {Elsewhere} /\ started' \in Nat
      /\ aborted' \in {"no", "no buffer", "foreign item", "request", "endpoint"}
      /\ requests' \in Nat /\ got' \in Nat
  BY DEF PipeTypeOK
<1> QED BY ONLY <1>1, <1>2, probe' \in [Mounts -> {"none", "receive", "blocked", "work"}],
           probe_on' \in [Mounts -> 0 .. MaxMounts], unsent' \in [Mounts -> Nat],
           slots' \in [Place -> Nat], made' \in Nat, rcv' \in 0 .. RcvSize, returned' \in 0 .. RcvSize,
           used' \in 0 .. SndSize
        DEF PipeTypeOK

LEMMA ProbeReceiveKeeps == ASSUME PipeInv, NEW m \in Mounts, ProbeReceive(m) PROVE PipeInv'
<1> USE DEF PipeInv
<1>0. /\ probe[m] = "receive" /\ probe' = [probe EXCEPT ![m] = "blocked"]
      /\ probe_on' = [probe_on EXCEPT ![m] = current]
      /\ UNCHANGED <<usb, mounts, mounted, current, rcv, returned, slots, first, used, send,
                     send_on, held>>
      /\ UNCHANGED <<unsent, ep_out, ep_in, flying, started, aborted, requests, made, got>>
  BY DEF ProbeReceive, mounting, buffers, sender, endpoints, host
<1>1. PipeTypeOK'
  <2>1. probe' \in [Mounts -> {"none", "receive", "blocked", "work"}]
        /\ probe_on' \in [Mounts -> 0 .. MaxMounts]
    BY <1>0, PipeTypes
  <2> QED BY ONLY <1>0, <2>1, PipeTypeOK, PipeTypes, ProbeTypes
<1>2. MountInv'
  <2>1. current <= current
    <3>1. current \in 0 .. MaxMounts
      BY PipeTypes
    <3> QED BY <3>1, PipeSizes
  <2>2. \A n \in Mounts : probe_on'[n] <= current /\ (probe'[n] # "none" => probe[n] # "none")
    BY <1>0, <2>1, PipeTypes DEF MountInv
  <2> QED BY <1>0, <2>2 DEF MountInv, Started
<1>3. \A n \in Mounts : /\ probe'[n] = "work" <=> probe[n] = "work"
                        /\ probe[n] = "work" => probe_on'[n] = probe_on[n]
  BY <1>0, PipeTypes
<1>4. Holding(current)' = Holding(current) /\ Owing' = Owing
  BY <1>0, <1>3 DEF Holding, Owing
<1>5. HeldInv' /\ FlyingInv'
  BY <1>0, <1>4 DEF HeldInv, FlyingInv, SendHolds
<1>6. WindowInv'
  <2>1. Under' = Under /\ Requested' = Requested
    BY <1>0, <1>4 DEF Under, Requested, Flying, Foreign, Gone, Unread, Unreceived
  <2> QED BY <1>0, <1>3, <1>4, <2>1 DEF WindowInv
<1> QED BY <1>1, <1>2, <1>5, <1>6

(* A request that is being worked on owes its answers, at most Largest.    *)
LEMMA ProbeGetsKeeps == ASSUME PipeInv, NEW m \in Mounts, ProbeGets(m) PROVE PipeInv'
<1> USE DEF PipeInv
<1> PICK n \in Answers : ProbeGets(m) /\ unsent' = [unsent EXCEPT ![m] = n]
  BY DEF ProbeGets
<1>0. /\ probe[m] = "blocked" /\ probe_on[m] = current
      /\ Unreceived > 0 /\ probe' = [probe EXCEPT ![m] = "work"]
      /\ UNCHANGED <<usb, mounts, mounted, current, rcv, returned, slots, first, used, send,
                     send_on, held>>
      /\ UNCHANGED <<probe_on, ep_out, ep_in, flying, started, aborted, requests, made, got>>
  BY DEF ProbeGets, mounting, buffers, sender, endpoints, host
<1>1. n \in Nat /\ n <= Largest /\ Largest \in Nat
  BY LargestFacts
<1>2. PipeTypeOK'
  <2>1. probe' \in [Mounts -> {"none", "receive", "blocked", "work"}] /\ unsent' \in [Mounts -> Nat]
    BY <1>0, <1>1, PipeTypes
  <2> QED BY ONLY <1>0, <2>1, PipeTypeOK, PipeTypes, ProbeTypes
<1>3. MountInv'
  <2>1. \A k \in Mounts : probe'[k] # "none" => probe[k] # "none"
    BY <1>0, PipeTypes
  <2> QED BY <1>0, <2>1 DEF MountInv, Started
<1>4. Cardinality(Holding(current)') = Cardinality(Holding(current)) + 1
  <2>1. \A k \in Mounts : probe'[k] = "work" <=> k = m \/ probe[k] = "work"
    BY <1>0, PipeTypes
  <2>2. Holding(current)' = Holding(current) \cup {m} /\ m \notin Holding(current)
    BY <1>0, <2>1 DEF Holding
  <2> QED BY <2>2, HoldingFacts, FS_AddElement
<1>5. HeldInv' /\ FlyingInv'
  <2>1. (returned + Cardinality(Holding(current)) <= rcv)'
    BY <1>0, <1>4, CountTypes, HoldingFacts DEF Unreceived
  <2> QED BY <1>0, <2>1 DEF HeldInv, FlyingInv, SendHolds
<1>6. Cardinality(Owing') <= Cardinality(Owing) + Largest /\ Cardinality(Owing') \in Nat
  <2> DEFINE more == {m} \X (1 .. n)
  <2>1. IsFiniteSet(more) /\ Cardinality(more) = n
    <3>1. IsFiniteSet({m}) /\ Cardinality({m}) = 1
      BY FS_Singleton
    <3>2. IsFiniteSet(1 .. n) /\ Cardinality(1 .. n) = n
      BY <1>1, FS_Interval
    <3>3. IsFiniteSet(more) /\ Cardinality(more) = Cardinality({m}) * Cardinality(1 .. n)
      BY <3>1, <3>2, FS_Product
    <3> HIDE DEF more
    <3> QED BY <1>1, <3>1, <3>2, <3>3
  <2>2. Owing' \subseteq Owing \cup more
    <3> SUFFICES ASSUME NEW p \in Owing' PROVE p \in Owing \cup more
      OBVIOUS
    <3>1. p \in Mounts \X (1 .. Largest) /\ probe'[p[1]] = "work" /\ p[2] <= unsent'[p[1]]
      BY DEF Owing
    <3>2. CASE p[1] = m
      <4>1. p[2] <= n /\ p[2] \in 1 .. Largest
        BY <1>0, <3>1, <3>2, PipeTypes
      <4>2. p[2] \in 1 .. n
        BY <1>1, <4>1
      <4> QED BY <3>1, <3>2, <4>2
    <3>3. CASE p[1] # m
      BY <1>0, <3>1, <3>3, PipeTypes DEF Owing
    <3> QED BY <3>2, <3>3
  <2> HIDE DEF more
  <2>3. IsFiniteSet(Owing \cup more) /\ Cardinality(Owing \cup more) \in Nat
        /\ Cardinality(Owing \cup more) <= Cardinality(Owing) + n
    <3>1. IsFiniteSet(Owing \cap more)
      BY <2>1, FS_Subset
    <3>2. Cardinality(Owing \cap more) \in Nat
      BY <3>1, FS_CardinalityType
    <3>3. IsFiniteSet(Owing \cup more)
          /\ Cardinality(Owing \cup more) = Cardinality(Owing) + n - Cardinality(Owing \cap more)
      BY <2>1, OwingFacts, FS_Union
    <3>4. Cardinality(Owing \cup more) \in Nat
      BY <3>3, FS_CardinalityType
    <3> QED BY <1>1, <3>2, <3>3, <3>4, OwingFacts
  <2>4. IsFiniteSet(Owing') /\ Cardinality(Owing') <= Cardinality(Owing \cup more)
    BY <2>2, <2>3, FS_Subset
  <2>5. Cardinality(Owing') \in Nat
    BY <2>4, FS_CardinalityType
  <2> QED BY <1>1, <2>3, <2>4, <2>5, OwingFacts
<1>7. WindowInv'
  <2>1. Under' = Under /\ Unread' = Unread
    BY <1>0 DEF Under, Flying, Foreign, Gone, Unread
  <2>2. Requested = Requested' + 1 /\ Requested' \in Nat
    BY <1>0, <1>4, <2>1, CountTypes, HoldingFacts DEF Requested, Unreceived
  <2>3. Largest * Requested = Largest * Requested' + Largest /\ Largest * Requested' \in Nat
    BY <1>1, <2>2, TimesNext
  <2>4. Under' + Largest * Requested' + Cardinality(Owing') <= Window
    <3> DEFINE a == Largest * Requested'
               c == Cardinality(Owing')
               b == Cardinality(Owing)
    <3>1. Under + (a + Largest) + b <= Window
      BY <2>3 DEF WindowInv
    <3>2. a \in Nat /\ b \in Nat /\ c \in Nat /\ c <= b + Largest /\ Under \in Nat /\ Window \in Nat
      BY <1>6, <2>3, OwingFacts, CountTypes, PipeSizes
    <3> HIDE DEF a, b, c
    <3>3. Under + a + c <= Window
      BY <1>1, <3>1, <3>2
    <3> QED BY <2>1, <3>3 DEF a, c
  <2>5. \A k \in Mounts : probe'[k] = "work" => unsent'[k] <= Largest
    BY <1>0, <1>1, PipeTypes DEF WindowInv
  <2> QED BY <2>4, <2>5 DEF WindowInv
<1> QED BY <1>2, <1>3, <1>5, <1>7

(* One packet has been made. *)
LEMMA OneMade ==
    ASSUME PipeInv, NEW m \in Mounts, probe[m] = "work", unsent[m] > 0, probe' = probe,
           unsent' = [unsent EXCEPT ![m] = @ - 1]
    PROVE  /\ unsent' \in [Mounts -> Nat] /\ \A k \in Mounts : unsent'[k] <= unsent[k]
           /\ Cardinality(Owing) = Cardinality(Owing') + 1 /\ Cardinality(Owing') \in Nat
<1> USE DEF PipeInv
<1> DEFINE p == <<m, unsent[m]>>
<1>1. unsent \in [Mounts -> Nat] /\ unsent[m] \in Nat /\ unsent[m] - 1 \in Nat /\ unsent[m] <= Largest
  BY PipeTypes DEF WindowInv
<1>2. unsent' \in [Mounts -> Nat] /\ unsent'[m] = unsent[m] - 1
      /\ \A k \in Mounts : k # m => unsent'[k] = unsent[k]
  BY <1>1
<1>3. \A k \in Mounts : unsent'[k] <= unsent[k]
  BY <1>1, <1>2
<1>4. p \in Owing
  BY <1>1, LargestFacts DEF Owing
<1>5. Owing' = Owing \ {p}
  <2>1. ASSUME NEW q \in Mounts \X (1 .. Largest)
        PROVE  q[2] <= unsent'[q[1]] <=> q[2] <= unsent[q[1]] /\ q # p
    <3>1. q[1] \in Mounts /\ q[2] \in Nat /\ q = <<q[1], q[2]>>
      BY LargestFacts
    <3>2. CASE q[1] = m
      <4>1. q # p <=> q[2] # unsent[m]
        BY <3>1, <3>2
      <4>2. q[2] <= unsent[m] - 1 <=> q[2] <= unsent[m] /\ q[2] # unsent[m]
        BY <1>1, <3>1
      <4> QED BY <1>2, <3>2, <4>1, <4>2
    <3>3. CASE q[1] # m
      BY <1>2, <3>1, <3>3
    <3> QED BY <3>2, <3>3
  <2> HIDE DEF p
  <2> QED BY <2>1 DEF Owing
<1> HIDE DEF p
<1>6. IsFiniteSet(Owing') /\ Cardinality(Owing') = Cardinality(Owing) - 1
  BY <1>4, <1>5, OwingFacts, FS_RemoveElement
<1>7. Cardinality(Owing') \in Nat
  BY <1>6, FS_CardinalityType
<1> QED BY <1>2, <1>3, <1>6, <1>7, OwingFacts

LEMMA ProbeSendsKeeps == ASSUME PipeInv, NEW m \in Mounts, ProbeSends(m) PROVE PipeInv'
<1> USE DEF PipeInv
<1>0. /\ probe[m] = "work" /\ unsent[m] > 0 /\ used < SndSize
      /\ slots' = [slots EXCEPT ![At(used)] = made + 1] /\ used' = used + 1 /\ made' = made + 1
      /\ unsent' = [unsent EXCEPT ![m] = @ - 1]
      /\ UNCHANGED <<usb, mounts, mounted, current, rcv, returned, first, send, send_on, held,
                     probe, probe_on>>
      /\ UNCHANGED <<ep_out, ep_in, flying, started, aborted, requests, got>>
  BY DEF ProbeSends, mounting, sender, endpoints, host
<1>1. /\ unsent' \in [Mounts -> Nat] /\ \A k \in Mounts : unsent'[k] <= unsent[k]
      /\ Cardinality(Owing) = Cardinality(Owing') + 1 /\ Cardinality(Owing') \in Nat
  BY <1>0, OneMade
<1>2. used \in Nat /\ SndSize \in Nat /\ At(used) \in Place /\ made + 1 \in Nat
  BY CountTypes, AtFacts, PipeSizes, PipeTypes
<1>3. PipeTypeOK'
  <2>1. slots' \in [Place -> Nat] /\ used' \in 0 .. SndSize /\ made' \in Nat
    BY <1>0, <1>2, PipeTypes
  <2> QED BY ONLY <1>0, <1>1, <2>1, PipeTypeOK, PipeTypes, ProbeTypes
<1>4. MountInv' /\ FlyingInv'
  BY <1>0 DEF MountInv, Started, FlyingInv
<1>5. HeldInv'
  <2>1. SendHolds => slots'[first] = slots[first] /\ used' > 0
    <3> SUFFICES ASSUME SendHolds PROVE slots'[first] = slots[first] /\ used' > 0
      OBVIOUS
    <3>1. 0 < used /\ used < 0 + SndSize
      BY <1>0, <1>2 DEF HeldInv
    <3>2. At(used) # first
      BY <1>2, <3>1, AtApart, AtFacts, PipeTypes
    <3> QED BY <1>0, <1>2, <3>1, <3>2, PipeTypes
  <2>2. Holding(current)' = Holding(current)
    BY <1>0 DEF Holding
  <2> QED BY <1>0, <2>1, <2>2 DEF HeldInv, SendHolds
<1>6. WindowInv'
  <2>1. Under' = Under + 1 /\ Requested' = Requested
    <3>1. Flying' = Flying /\ Foreign' = Foreign /\ Gone' = Gone /\ Unreceived' = Unreceived
          /\ Unread' = Unread
      BY <1>0 DEF Flying, Foreign, Gone, Unread, Unreceived, Holding
    <3> QED BY <1>0, <3>1, CountTypes DEF Under, Requested
  <2>2. Under' + Largest * Requested' + Cardinality(Owing') <= Window
    <3> DEFINE a == Largest * Requested
    <3>1. a \in Nat
      BY CountTypes, LargestFacts
    <3>2. Under + a + Cardinality(Owing) <= Window
      BY DEF WindowInv
    <3> HIDE DEF a
    <3>3. (Under + 1) + a + Cardinality(Owing') <= Window
      BY <1>1, <3>1, <3>2, CountTypes, PipeSizes
    <3> QED BY <2>1, <3>3 DEF a
  <2>3. \A k \in Mounts : probe'[k] = "work" => unsent'[k] <= Largest
    BY <1>0, <1>1, LargestFacts, PipeTypes DEF WindowInv
  <2> QED BY <2>2, <2>3 DEF WindowInv
<1> QED BY <1>3, <1>4, <1>5, <1>6

LEMMA ProbeDropsKeeps == ASSUME PipeInv, NEW m \in Mounts, ProbeDrops(m) PROVE PipeInv'
<1> USE DEF PipeInv
<1>0. /\ probe[m] = "work" /\ unsent[m] > 0 /\ made' = made + 1
      /\ unsent' = [unsent EXCEPT ![m] = @ - 1]
      /\ UNCHANGED <<usb, mounts, mounted, current, rcv, returned, slots, first, used, send,
                     send_on, held>>
      /\ UNCHANGED <<probe, probe_on, ep_out, ep_in, flying, started, aborted, requests, got>>
  BY DEF ProbeDrops, mounting, buffers, sender, endpoints, host
<1>1. /\ unsent' \in [Mounts -> Nat] /\ \A k \in Mounts : unsent'[k] <= unsent[k]
      /\ Cardinality(Owing) = Cardinality(Owing') + 1 /\ Cardinality(Owing') \in Nat
  BY <1>0, OneMade
<1>2. PipeTypeOK'
  <2>1. made' \in Nat
    BY <1>0, PipeTypes
  <2> QED BY ONLY <1>0, <1>1, <2>1, PipeTypeOK, PipeTypes, ProbeTypes
<1>3. MountInv' /\ FlyingInv' /\ HeldInv'
  BY <1>0 DEF MountInv, Started, FlyingInv, HeldInv, Holding, SendHolds
<1>4. WindowInv'
  <2>1. Under' = Under /\ Requested' = Requested
    BY <1>0 DEF Under, Requested, Flying, Foreign, Gone, Unread, Unreceived, Holding
  <2>2. Under' + Largest * Requested' + Cardinality(Owing') <= Window
    <3> DEFINE a == Largest * Requested
    <3>1. a \in Nat
      BY CountTypes, LargestFacts
    <3>2. Under + a + Cardinality(Owing) <= Window
      BY DEF WindowInv
    <3> HIDE DEF a
    <3>3. Under + a + Cardinality(Owing') <= Window
      BY <1>1, <3>1, <3>2, CountTypes, PipeSizes
    <3> QED BY <2>1, <3>3 DEF a
  <2>3. \A k \in Mounts : probe'[k] = "work" => unsent'[k] <= Largest
    BY <1>0, <1>1, LargestFacts, PipeTypes DEF WindowInv
  <2> QED BY <2>2, <2>3 DEF WindowInv
<1> QED BY <1>2, <1>3, <1>4

LEMMA ProbeReturnsKeeps == ASSUME PipeInv, NEW m \in Mounts, ProbeReturns(m) PROVE PipeInv'
<1> USE DEF PipeInv
<1>1. CASE probe_on[m] # current
  BY <1>1, AbortKeeps DEF ProbeReturns
<1>2. CASE probe_on[m] = current
  <2> PICK freed \in IF Holding(current) = {m} THEN {returned + 1} ELSE 0 .. returned + 1 :
          rcv' = rcv - freed /\ returned' = returned + 1 - freed
    BY <1>2 DEF ProbeReturns
  <2>0. /\ probe[m] = "work" /\ unsent[m] = 0 /\ probe' = [probe EXCEPT ![m] = "receive"]
        /\ rcv' = rcv - freed /\ returned' = returned + 1 - freed
        /\ UNCHANGED <<usb, mounts, mounted, current, slots, first, used, send, send_on, held>>
        /\ UNCHANGED <<probe_on, unsent, ep_out, ep_in, flying, started, aborted, requests, made,
                       got>>
    BY <1>2 DEF ProbeReturns, mounting, sender, endpoints, host
  <2>1. /\ m \in Holding(current) /\ Cardinality(Holding(current)) \in Nat \ {0}
        /\ freed \in Nat /\ freed <= returned + 1 /\ returned + Cardinality(Holding(current)) <= rcv
    <3>1. m \in Holding(current)
      BY <1>2, <2>0 DEF Holding
    <3>2. Cardinality(Holding(current)) # 0
      BY <3>1, HoldingFacts, FS_EmptySet
    <3>3. freed \in Nat /\ freed <= returned + 1
      BY CountTypes
    <3> QED BY <3>1, <3>2, <3>3, HoldingFacts DEF HeldInv
  <2>2. PipeTypeOK'
    <3>1. rcv' \in 0 .. RcvSize /\ returned' \in 0 .. RcvSize
      <4>1. rcv \in 0 .. RcvSize /\ returned \in Nat
        BY PipeTypes, CountTypes
      <4> DEFINE h == Cardinality(Holding(current))
      <4>2. h \in Nat \ {0} /\ returned + h <= rcv
        BY <2>1
      <4> HIDE DEF h
      <4> QED BY <2>0, <2>1, <4>1, <4>2, PipeSizes
    <3>2. probe' \in [Mounts -> {"none", "receive", "blocked", "work"}]
      BY <2>0, PipeTypes
    <3> QED BY ONLY <2>0, <3>1, <3>2, PipeTypeOK, PipeTypes, ProbeTypes
  <2>3. \A k \in Mounts : /\ probe'[k] = "work" <=> probe[k] = "work" /\ k # m
                          /\ probe'[k] # "none" => probe[k] # "none"
    BY <2>0, PipeTypes
  <2>4. MountInv' /\ FlyingInv'
    BY <2>0, <2>3 DEF MountInv, Started, FlyingInv
  <2>5. Cardinality(Holding(current)') = Cardinality(Holding(current)) - 1
    <3>1. Holding(current)' = Holding(current) \ {m}
      BY <2>0, <2>3 DEF Holding
    <3> QED BY <2>1, <3>1, HoldingFacts, FS_RemoveElement
  <2>6. HeldInv'
    <3>1. (returned + Cardinality(Holding(current)) <= rcv)'
      BY <2>0, <2>1, <2>5, CountTypes
    <3> QED BY <2>0, <3>1 DEF HeldInv, SendHolds
  <2>7. Owing' = Owing
    <3>1. \A q \in Mounts \X (1 .. Largest) : probe[q[1]] = "work" /\ q[2] <= unsent[q[1]] => q[1] # m
      BY <2>0, LargestFacts
    <3> QED BY <2>0, <2>3, <3>1 DEF Owing
  <2>8. WindowInv'
    <3>1. Under' = Under /\ Unread' = Unread
      BY <2>0 DEF Under, Flying, Foreign, Gone, Unread
    <3>2. Unreceived' = Unreceived
      BY <2>0, <2>1, <2>5, CountTypes DEF Unreceived
    <3>3. Requested' = Requested
      BY <3>1, <3>2 DEF Requested
    <3> QED BY <2>0, <2>3, <2>7, <3>1, <3>3 DEF WindowInv
  <2> QED BY <2>2, <2>4, <2>6, <2>8
<1> QED BY <1>1, <1>2
-----------------------------------------------------------------------------
(* The host *)

LEMMA SeqLen ==
    ASSUME NEW S, NEW k \in Nat, NEW f, f = [i \in 1 .. k |-> f[i]], \A i \in 1 .. k : f[i] \in S
    PROVE  f \in Seq(S) /\ Len(f) = k
OBVIOUS

LEMMA Concat ==
    ASSUME NEW S, NEW x \in Seq(S), NEW y \in Seq(S)
    PROVE  x \o y \in Seq(S) /\ Len(x \o y) = Len(x) + Len(y)
OBVIOUS

LEMMA FlightTypes == ASSUME PipeTypeOK PROVE InFlight \in Nat /\ held \in Nat
BY DEF PipeTypeOK, InFlight, Place, Elsewhere

LEMMA FlownFacts == ASSUME PipeTypeOK PROVE Flown \in Seq(Nat) /\ Len(Flown) = Flying
<1>1. InFlight \in Nat
  BY FlightTypes
<1>2. CASE ep_in = "busy"
  BY <1>1, <1>2 DEF Flown, Flying
<1>3. CASE ep_in # "busy"
  BY <1>3 DEF Flown, Flying
<1> QED BY <1>2, <1>3

LEMMA KeptFacts == ASSUME PipeTypeOK PROVE Kept \in Seq(Nat) /\ Len(Kept) = Foreign
<1>1. held \in Nat
  BY FlightTypes
<1>2. CASE send = "transfer" /\ send_on # current
  BY <1>1, <1>2 DEF Kept, Foreign
<1>3. CASE ~(send = "transfer" /\ send_on # current)
  BY <1>3 DEF Kept, Foreign
<1> QED BY <1>2, <1>3

LEMMA QueuedFacts ==
    ASSUME PipeTypeOK, HeldInv
    PROVE  /\ Queued = [i \in 1 .. used - Gone |-> slots[At(Gone + i - 1)]]
           /\ Queued \in Seq(Nat) /\ Len(Queued) = used - Gone
<1>1. used - Gone \in Nat /\ Gone \in {0, 1}
  BY CountTypes
<1>2. Queued = [i \in 1 .. used - Gone |-> slots[At(Gone + i - 1)]]
  BY DEF Queued, Gone
<1>3. ASSUME NEW i \in 1 .. used - Gone PROVE slots[At(Gone + i - 1)] \in Nat
  <2>1. Gone + i - 1 \in Nat
    BY <1>1
  <2>2. At(Gone + i - 1) \in Place
    BY <2>1, AtFacts, PipeTypes
  <2> QED BY <2>2, PipeTypes
<1>4. Queued \in Seq(Nat) /\ Len(Queued) = used - Gone
  BY <1>1, <1>2, <1>3, SeqLen
<1> QED BY <1>2, <1>4

LEMMA PendingFacts ==
    ASSUME PipeTypeOK, HeldInv
    PROVE  Pending \in Seq(Nat) /\ Len(Pending) = Under
<1> DEFINE a == Flown
           b == Kept
           c == Queued
<1>1. a \in Seq(Nat) /\ b \in Seq(Nat) /\ c \in Seq(Nat)
      /\ Len(a) = Flying /\ Len(b) = Foreign /\ Len(c) = used - Gone
  BY FlownFacts, KeptFacts, QueuedFacts
<1>2. Pending = (a \o b) \o c
  BY DEF Pending
<1> HIDE DEF a, b, c
<1>3. (a \o b) \o c \in Seq(Nat) /\ Len((a \o b) \o c) = Len(a) + Len(b) + Len(c)
  <2>1. a \o b \in Seq(Nat) /\ Len(a \o b) = Len(a) + Len(b)
    BY ONLY <1>1, Concat
  <2> DEFINE ab == a \o b
  <2>2. ab \in Seq(Nat) /\ Len(ab) = Len(a) + Len(b)
    BY ONLY <2>1
  <2> HIDE DEF ab
  <2>3. ab \o c \in Seq(Nat) /\ Len(ab \o c) = Len(ab) + Len(c)
    BY ONLY <1>1, <2>2, Concat
  <2> QED BY <2>2, <2>3 DEF ab
<1>4. Flying \in Nat /\ Foreign \in Nat /\ used - Gone \in Nat
  BY CountTypes
<1> QED BY <1>1, <1>2, <1>3, <1>4 DEF Under

(* Who works owes at most the largest answer. *)
LEMMA OwingBound == Cardinality(Owing) <= Largest * Cardinality(Working)
<1> DEFINE W == Working
<1>1. Owing \subseteq W \X (1 .. Largest)
  BY DEF Owing, Working
<1>2. IsFiniteSet(W) /\ Cardinality(W) \in Nat
  BY HoldingFacts
<1> HIDE DEF W
<1>3. IsFiniteSet(1 .. Largest) /\ Cardinality(1 .. Largest) = Largest
  BY LargestFacts, FS_Interval
<1>4. IsFiniteSet(W \X (1 .. Largest)) /\ Cardinality(W \X (1 .. Largest)) = Cardinality(W) * Largest
  BY <1>2, <1>3, FS_Product
<1>5. Cardinality(Owing) <= Cardinality(W) * Largest
  BY <1>1, <1>4, FS_Subset
<1>6. Cardinality(W) * Largest = Largest * Cardinality(W)
  BY <1>2, LargestFacts
<1> QED BY <1>5, <1>6 DEF W

LEMMA TimesSum ==
    ASSUME NEW l \in Nat, NEW a \in Nat, NEW b \in Nat
    PROVE  l * a \in Nat /\ l * b \in Nat /\ l * (a + b) = l * a + l * b
OBVIOUS

LEMMA OneMoreRequest ==
    ASSUME NEW l \in Nat, NEW u \in Nat, NEW r \in Nat, NEW w \in Nat, NEW c \in Nat, NEW n \in Nat,
           c <= l * w, u + l * (r + w) + l <= n
    PROVE  u + l * (r + 1) + c <= n
<1>1. l * (r + w) = l * r + l * w /\ l * r \in Nat /\ l * w \in Nat
  BY TimesSum
<1>2. l * (r + 1) = l * r + l
  BY TimesNext
<1> DEFINE a == l * r
           b == l * w
<1>3. a \in Nat /\ b \in Nat /\ c <= b /\ u + (a + b) + l <= n
  BY <1>1
<1> HIDE DEF a, b
<1>4. u + (a + l) + c <= n
  BY <1>3
<1> QED BY <1>2, <1>4 DEF a

LEMMA HostSendsKeeps == ASSUME PipeInv, HostSends PROVE PipeInv'
<1> USE DEF PipeInv
<1>0. /\ mounted /\ ep_out = "armed" /\ Expected + Largest <= Window
      /\ requests' = requests + 1 /\ ep_out' = "full"
      /\ UNCHANGED <<usb, mounts, mounted, current, rcv, returned, slots, first, used, send,
                     send_on, held>>
      /\ UNCHANGED <<probe, probe_on, unsent, ep_in, flying, started, aborted, made, got>>
  BY DEF HostSends, mounting, buffers, sender, probes
<1>1. PipeTypeOK'
  <2>1. requests + 1 \in Nat
    <3>1. requests \in Nat
      BY DEF PipeTypeOK
    <3> QED BY ONLY <3>1
  <2> QED BY ONLY <1>0, <2>1, PipeTypeOK, ZenonT(30) DEF PipeTypeOK
<1>2. MountInv' /\ FlyingInv' /\ HeldInv'
  BY <1>0 DEF MountInv, Started, FlyingInv, HeldInv, Holding, SendHolds
<1>3. WindowInv'
  <2>1. Under' = Under /\ Unreceived' = Unreceived /\ Unread' = 1 /\ Owing' = Owing
    BY <1>0 DEF Under, Flying, Foreign, Gone, Unread, Unreceived, Holding, Owing, MountInv
  <2>2. Expected = Under + Largest * (Unreceived + Cardinality(Working))
    <3>1. Unreceived + 0 = Unreceived
      BY CountTypes
    <3> QED BY <1>0, <3>1, PendingFacts DEF Expected
  <2>4. Under + Largest * (Unreceived + 1) + Cardinality(Owing) <= Window
    <3>1. Under \in Nat /\ Unreceived \in Nat /\ Cardinality(Working) \in Nat /\ Cardinality(Owing) \in Nat
          /\ Window \in Nat /\ Largest \in Nat
      BY CountTypes, HoldingFacts, OwingFacts, PipeSizes, LargestFacts
    <3>2. Under + Largest * (Unreceived + Cardinality(Working)) + Largest <= Window
      BY <1>0, <2>2
    <3> QED BY ONLY <3>1, <3>2, OwingBound, OneMoreRequest
  <2>5. Requested' = Unreceived + 1
    BY <2>1 DEF Requested
  <2> QED BY <1>0, <2>1, <2>4, <2>5 DEF WindowInv
<1> QED BY <1>1, <1>2, <1>3

-----------------------------------------------------------------------------
LEMMA PipeInitially == ASSUME PipeInit PROVE PipeInv
<1> USE DEF PipeInit
<1>1. PipeTypeOK
  <2>1. 0 \in Nat /\ 0 \in 0 .. MaxMounts /\ 0 \in 0 .. RcvSize /\ 0 \in 0 .. SndSize /\ 0 \in Place
    BY PipeSizes DEF Place
  <2> QED BY <2>1 DEF PipeTypeOK
<1>2. MountInv /\ HeldInv /\ FlyingInv
  <2>1. \A m \in Mounts : probe[m] # "work"
    OBVIOUS
  <2>2. Holding(current) = {}
    BY ONLY <2>1 DEF Holding
  <2>3. Cardinality(Holding(current)) = 0
    BY <2>2, FS_EmptySet
  <2> QED BY <2>3 DEF MountInv, Started, HeldInv, SendHolds, FlyingInv
<1>3. WindowInv
  <2>0. \A m \in Mounts : probe[m] # "work"
    OBVIOUS
  <2>1. Owing = {} /\ Holding(current) = {}
    BY ONLY <2>0 DEF Owing, Holding
  <2>2. Flying = 0 /\ Foreign = 0 /\ Gone = 0 /\ Unread = 0 /\ Unreceived = 0
    BY <2>1, FS_EmptySet DEF Flying, Foreign, Gone, Unread, Unreceived
  <2>3. Under = 0 /\ Requested = 0
    BY <2>2 DEF Under, Requested
  <2>4. Cardinality(Owing) = 0
    BY <2>1, FS_EmptySet
  <2>5. Largest * 0 = 0
    BY LargestFacts
  <2> QED BY <2>0, <2>3, <2>4, <2>5, PipeSizes DEF WindowInv
<1> QED BY <1>1, <1>2, <1>3 DEF PipeInv

LEMMA PipeStutters == ASSUME PipeInv, UNCHANGED pipe PROVE PipeInv'
<1>0. /\ UNCHANGED <<usb, mounts, mounted, current, rcv, returned, slots, first, used, send,
                     send_on, held>>
      /\ UNCHANGED <<probe, probe_on, unsent, ep_out, ep_in, flying, started, requests, made, got>>
      /\ UNCHANGED aborted
  BY DEF pipe, mounting, buffers, sender, probes, endpoints, host
<1>1. PipeTypeOK'
  <2>1. PipeTypeOK
    BY DEF PipeInv
  <2> QED BY ONLY <1>0, <2>1, PipeTypes, ProbeTypes
<1>2. MountInv' /\ FlyingInv' /\ HeldInv'
  BY <1>0 DEF MountInv, Started, FlyingInv, HeldInv, Holding, SendHolds, PipeInv
<1>3. WindowInv'
  <2>1. Under' = Under /\ Requested' = Requested /\ Owing' = Owing
    BY <1>0 DEF Under, Requested, Flying, Foreign, Gone, Unread, Unreceived, Holding, Owing
  <2> QED BY <1>0, <2>1 DEF WindowInv, PipeInv
<1> QED BY <1>1, <1>2, <1>3 DEF PipeInv

LEMMA PipeStep == ASSUME PipeInv, [PipeNext]_pipe PROVE PipeInv'
<1>1. ASSUME UsbStep PROVE PipeInv'
  <2>1. ASSUME ProcessFails PROVE PipeInv'
    BY <2>1, AbortKeeps DEF ProcessFails
  <2> QED BY <1>1, <2>1, MountKeeps, StartSenderKeeps, MakeBuffersKeeps, CreateProbeKeeps, ResetKeeps,
             OutCompleteKeeps, ProcessDataKeeps, RearmKeeps, InCompleteKeeps DEF UsbStep
<1>2. ASSUME SendStep PROVE PipeInv'
  <2>1. ASSUME TransferTimesOut PROVE PipeInv'
    BY <2>1, AbortKeeps DEF TransferTimesOut
  <2> QED BY <1>2, <2>1, SendReceiveKeeps, SendGetsKeeps, TransferKeeps, TransferNowhereKeeps,
             SendFreeKeeps DEF SendStep
<1>3. ASSUME NEW m \in Mounts, ProbeStep(m) PROVE PipeInv'
  BY <1>3, ProbeReceiveKeeps, ProbeGetsKeeps, ProbeSendsKeeps, ProbeDropsKeeps, ProbeReturnsKeeps
     DEF ProbeStep
<1> QED BY <1>1, <1>2, <1>3, HostSendsKeeps, HostReadsKeeps, PipeStutters DEF PipeNext

THEOREM PipeInvariant == PipeSpec => []PipeInv
BY PipeInitially, PipeStep, PTL DEF PipeSpec

(* Types, for every size of the buffers, every window and number of mounts *)
THEOREM PipeTypeCorrect == PipeSpec => []PipeTypeOK
<1>1. PipeInv => PipeTypeOK
  BY DEF PipeInv
<1> QED BY <1>1, PipeInvariant, PTL
-----------------------------------------------------------------------------
(* Sequences *)

(* What is behind the first element *)
LEMMA Behind ==
    ASSUME NEW S, NEW x \in S, NEW q \in Seq(S)
    PROVE  LET p == <<x>> \o q
           IN  /\ p \in Seq(S) /\ Len(p) = Len(q) + 1 /\ p[1] = x /\ SubSeq(p, 2, Len(p)) = q
               /\ SubSeq(p, 1, 0) \o SubSeq(p, 2, Len(p)) = q
<1> DEFINE p == <<x>> \o q
<1>1. p \in Seq(S) /\ Len(p) = Len(q) + 1 /\ p[1] = x /\ \A i \in 1 .. Len(q) : p[i + 1] = q[i]
  OBVIOUS
<1> HIDE DEF p
<1>2. SubSeq(p, 2, Len(p)) = q
  BY <1>1
<1>3. SubSeq(p, 1, 0) = << >>
  BY <1>1
<1>4. << >> \o q = q
  OBVIOUS
<1> QED BY <1>1, <1>2, <1>3, <1>4 DEF p

(* A front part and what is behind it *)
LEMMA Front ==
    ASSUME NEW S, NEW a \in Seq(S), NEW b \in Seq(S)
    PROVE  LET p == a \o b
           IN  /\ p \in Seq(S) /\ Len(p) = Len(a) + Len(b)
               /\ SubSeq(p, 1, Len(a)) \o SubSeq(p, Len(p) + 1, Len(p)) = a
<1> DEFINE p == a \o b
<1>1. p \in Seq(S) /\ Len(p) = Len(a) + Len(b) /\ \A i \in 1 .. Len(a) : p[i] = a[i]
  OBVIOUS
<1> HIDE DEF p
<1>2. SubSeq(p, 1, Len(a)) = a
  BY <1>1
<1>3. SubSeq(p, Len(p) + 1, Len(p)) = << >>
  BY <1>1
<1>4. a \o << >> = a
  OBVIOUS
<1> QED BY <1>1, <1>2, <1>3, <1>4 DEF p

LEMMA Grouped ==
    ASSUME NEW S, NEW a \in Seq(S), NEW b \in Seq(S), NEW c \in Seq(S)
    PROVE  (a \o b) \o c = a \o (b \o c) /\ << >> \o a = a /\ a \o << >> = a
OBVIOUS

-----------------------------------------------------------------------------
(* The answers under way, and what the steps do with them *)

LEMMA PendingParts ==
    ASSUME PipeInv
    PROVE  /\ Flown \in Seq(Nat) /\ Kept \in Seq(Nat) /\ Queued \in Seq(Nat) /\ Pending \in Seq(Nat)
           /\ Len(Flown) = Flying /\ Len(Kept) = Foreign /\ Len(Queued) = used - Gone
           /\ Queued = [i \in 1 .. used - Gone |-> slots[At(Gone + i - 1)]]
           /\ Pending = (Flown \o Kept) \o Queued
BY FlownFacts, KeptFacts, QueuedFacts, PendingFacts DEF PipeInv, Pending

(* ... and after a step *)
LEMMA PartsNext ==
    PipeInv' =>
        /\ Flown' \in Seq(Nat) /\ Kept' \in Seq(Nat) /\ Queued' \in Seq(Nat) /\ Pending' \in Seq(Nat)
        /\ Len(Queued') = used' - Gone' /\ InFlight' \in Nat
<1> DEFINE Parts == /\ Flown \in Seq(Nat) /\ Kept \in Seq(Nat) /\ Queued \in Seq(Nat)
                    /\ Pending \in Seq(Nat) /\ Len(Queued) = used - Gone /\ InFlight \in Nat
<1>1. PipeInv => Parts
  BY PendingParts, FlightTypes DEF PipeInv
<1>2. PipeInv' => Parts'
  <2> HIDE DEF Parts
  <2> QED BY <1>1, PTL
<1> QED BY <1>2

LEMMA PendingSame ==
    ASSUME UNCHANGED <<current, slots, first, used, held, flying, started>>,
           ep_in' = "busy" <=> ep_in = "busy",
           \/ UNCHANGED <<send, send_on>>
           \/ send \notin {"transfer", "free"} /\ send' \notin {"transfer", "free"}
           \/ send = "blocked" /\ send' = "transfer" /\ send_on = current /\ send_on' = send_on
    PROVE  Pending' = Pending
<1>1. Flown' = Flown
  BY DEF Flown, InFlight
<1>2. Kept' = Kept
  BY DEF Kept
<1>3. Gone' = Gone
  BY DEF Gone
<1>4. Queued = [i \in 1 .. used - Gone |-> slots[(first + (Gone + i - 1)) % SndSize]]
  BY DEF Queued, Gone, At
<1>5. Queued' = [i \in 1 .. used' - Gone' |-> slots'[(first' + (Gone' + i - 1)) % SndSize]]
  BY DEF Queued, Gone, At
<1>6. Queued' = Queued
  BY <1>3, <1>4, <1>5
<1> QED BY <1>1, <1>2, <1>6 DEF Pending

LEMMA AnswerSame ==
    ASSUME UNCHANGED <<made, got>>, Pending' = Pending
    PROVE  UNCHANGED Answer!vars
BY DEF Answer!vars

LEMMA AbortSame == ASSUME NEW why, Abort(why) PROVE UNCHANGED Answer!vars
<1>1. UNCHANGED <<current, slots, first, used, held, flying, started, ep_in, send, send_on, made, got>>
  BY DEF Abort, buffers, sender, probes, endpoints, host
<1> QED BY <1>1, PendingSame, AnswerSame

(* The oldest answer is lost. *)
LEMMA LoseFirst ==
    ASSUME PipeInv, PipeInv', NEW x \in Nat, Pending = <<x>> \o Pending', UNCHANGED <<made, got>>
    PROVE  Answer!Next
<1> DEFINE q == Pending'
<1>1. q \in Seq(Nat) /\ Len(q) \in Nat
  BY PendingParts DEF q
<1>2. Pending \in Seq(Nat) /\ Len(Pending) = Len(q) + 1
      /\ SubSeq(Pending, 1, 0) \o SubSeq(Pending, 2, Len(Pending)) = q
  <2> HIDE DEF q
  <2>1. Pending = <<x>> \o q
    BY DEF q
  <2>2. LET p == <<x>> \o q
        IN  /\ p \in Seq(Nat) /\ Len(p) = Len(q) + 1 /\ p[1] = x /\ SubSeq(p, 2, Len(p)) = q
            /\ SubSeq(p, 1, 0) \o SubSeq(p, 2, Len(p)) = q
    BY ONLY x \in Nat, <1>1, Behind
  <2> QED BY ONLY <2>1, <2>2
<1>3. 1 <= SndSize /\ 1 \in 1 .. Len(Pending) /\ 1 \in 1 .. Len(Pending) - 1 + 1
  BY <1>1, <1>2, PipeSizes
<1>4. Answer!Lose(1, 1)
  BY <1>2, <1>3 DEF Answer!Lose, q
<1> QED BY <1>3, <1>4 DEF Answer!Next

(* What is in the buffer is lost, behind what has left it. *)
LEMMA LoseRest ==
    ASSUME PipeInv, NEW b \in Seq(Nat), Pending' \in Seq(Nat), Pending = Pending' \o b,
           Len(b) <= SndSize, UNCHANGED <<made, got>>
    PROVE  [Answer!Next]_(Answer!vars)
<1> DEFINE a == Pending'
           k == Len(a) + 1
<1>1. a \in Seq(Nat) /\ Len(a) \in Nat /\ Len(b) \in Nat /\ Pending = a \o b
  OBVIOUS
<1>2. CASE b = << >>
  <2>1. a \o << >> = a
    BY <1>1
  <2> QED BY <1>1, <1>2, <2>1, AnswerSame
<1>3. CASE b # << >>
  <2> HIDE DEF a
  <2>1. Pending \in Seq(Nat) /\ Len(Pending) = Len(a) + Len(b)
        /\ SubSeq(Pending, 1, Len(a)) \o SubSeq(Pending, Len(Pending) + 1, Len(Pending)) = a
    BY <1>1, Front
  <2>2. Len(b) > 0
    BY <1>1, <1>3
  <2>3. k \in 1 .. Len(Pending) /\ Len(b) \in 1 .. Len(Pending) - k + 1
        /\ k - 1 = Len(a) /\ k + Len(b) = Len(Pending) + 1
    BY <1>1, <2>1, <2>2
  <2>4. Pending' = SubSeq(Pending, 1, k - 1) \o SubSeq(Pending, k + Len(b), Len(Pending))
    BY <2>1, <2>3 DEF a
  <2>5. Answer!Lose(k, Len(b))
    BY <2>4 DEF Answer!Lose
  <2> QED BY <2>3, <2>5 DEF Answer!Next
<1> QED BY <1>2, <1>3

(* The answer in flight comes first. *)
LEMMA FlownFirst ==
    ASSUME PipeInv, PipeInv', ep_in = "busy", ep_in' # "busy",
           UNCHANGED <<current, slots, first, used, held, send, send_on>>
    PROVE  InFlight \in Nat /\ Pending = <<InFlight>> \o Pending'
<1> DEFINE k == Kept
           q == Queued
<1>1. k \in Seq(Nat) /\ q \in Seq(Nat) /\ Flown = <<InFlight>> /\ Flown' = << >>
  BY PendingParts DEF Flown
<1>2. Kept' = k
  BY DEF Kept
<1>3. Queued' = q
  BY DEF Queued, At
<1>4. InFlight \in Nat /\ <<InFlight>> \in Seq(Nat)
  BY FlightTypes DEF PipeInv
<1>5. Pending = (<<InFlight>> \o k) \o q /\ Pending' = (<< >> \o k) \o q
  BY <1>1, <1>2, <1>3 DEF Pending
<1> HIDE DEF k, q
<1>6. << >> \o k = k /\ (<<InFlight>> \o k) \o q = <<InFlight>> \o (k \o q)
  BY ONLY <1>1, <1>4, Grouped
<1> QED BY ONLY <1>4, <1>5, <1>6

LEMMA ResetRefines == ASSUME PipeInv, PipeInv', Reset PROVE [Answer!Next]_(Answer!vars)
<1>0. /\ ep_in' = "idle"
      /\ UNCHANGED <<current, slots, first, used, held, flying, started, send, send_on, made, got>>
  BY DEF Reset, buffers, sender, probes, host
<1>1. CASE ep_in = "busy"
  BY <1>0, <1>1, FlownFirst, LoseFirst
<1>2. CASE ep_in # "busy"
  BY <1>0, <1>2, PendingSame, AnswerSame
<1> QED BY <1>1, <1>2

LEMMA HostReadsRefines == ASSUME PipeInv, PipeInv', HostReads PROVE Answer!Next
<1>0. /\ ep_in = "busy" /\ ep_in' = "read" /\ got' = InFlight
      /\ UNCHANGED <<current, slots, first, used, held, flying, started, send, send_on, made>>
  BY DEF HostReads, buffers, sender, probes
<1> DEFINE q == Pending'
           x == InFlight
<1>1. x \in Nat /\ Pending = <<x>> \o q
  BY <1>0, FlownFirst
<1>2. q \in Seq(Nat) /\ Len(q) \in Nat
  BY PartsNext
<1>3. got' = x
  BY <1>0
<1> HIDE DEF q, x
<1>4. LET p == <<x>> \o q
      IN  /\ p \in Seq(Nat) /\ Len(p) = Len(q) + 1 /\ p[1] = x /\ SubSeq(p, 2, Len(p)) = q
          /\ SubSeq(p, 1, 0) \o SubSeq(p, 2, Len(p)) = q
  BY ONLY <1>1, <1>2, Behind
<1>5. Len(Pending) = Len(q) + 1 /\ Pending[1] = x /\ SubSeq(Pending, 2, Len(Pending)) = q
  BY ONLY <1>1, <1>4
<1>6. 1 \in 1 .. Len(Pending) /\ 1 + 1 = 2
  BY <1>2, <1>5
<1>7. Answer!Deliver(1)
  BY <1>0, <1>3, <1>5, <1>6 DEF Answer!Deliver, q
<1> QED BY <1>6, <1>7 DEF Answer!Next

(* The new buffer is empty; usb_send_task may still hold a packet of the   *)
(* old one.                                                                *)
LEMMA MakeBuffersRefines == ASSUME PipeInv, PipeInv', MakeBuffers PROVE [Answer!Next]_(Answer!vars)
<1>0. /\ usb = "init" /\ current' = mounts /\ used' = 0 /\ first' = 0
      /\ flying' = Elsewhere /\ started' = InFlight
      /\ UNCHANGED <<send, send_on, held, ep_in, made, got>>
  BY DEF MakeBuffers, sender, probes, host
<1> DEFINE f == Flown
           k == Kept
           q == Queued
<1>1. /\ f \in Seq(Nat) /\ k \in Seq(Nat) /\ q \in Seq(Nat) /\ Pending = (f \o k) \o q
      /\ Pending' \in Seq(Nat) /\ Kept' \in Seq(Nat)
  BY PendingParts, PartsNext
<1>2. Flown' = f
  BY <1>0 DEF Flown, InFlight
<1>3. send_on # current'
  <2>1. current \in 0 .. MaxMounts /\ mounts \in 0 .. MaxMounts /\ send_on \in 0 .. MaxMounts
    BY DEF PipeInv, PipeTypeOK
  <2>2. send_on <= current /\ current < mounts
    BY <1>0 DEF PipeInv, MountInv
  <2> QED BY <1>0, <2>1, <2>2, PipeSizes
<1>4. Kept' = IF send = "transfer" THEN <<held>> ELSE << >>
  BY <1>0, <1>3 DEF Kept
<1>5. Queued' = << >>
  <2>1. Gone' = 0
    BY <1>0, <1>3 DEF Gone
  <2>2. Len(Queued') = used' - Gone' /\ Queued' \in Seq(Nat)
    BY PartsNext
  <2>3. Len(Queued') = 0
    BY <1>0, <2>1, <2>2
  <2> QED BY <2>2, <2>3
<1>6. Pending' = f \o Kept'
  <2>1. f \o Kept' \in Seq(Nat)
    BY <1>1
  <2>2. Pending' = (f \o Kept') \o << >>
    BY <1>2, <1>5 DEF Pending
  <2> QED BY <2>1, <2>2, Grouped
<1>7. Len(q) <= SndSize
  <2>1. Len(q) = used - Gone /\ Gone \in {0, 1} /\ used \in 0 .. SndSize
    BY PendingParts, CountTypes, PipeTypes DEF PipeInv
  <2> QED BY <2>1, PipeSizes
<1>8. CASE send = "transfer" /\ send_on = current
  <2>1. k = << >> /\ used > 0 /\ held = slots[first] /\ Gone = 0
    BY <1>8 DEF Kept, PipeInv, HeldInv, SendHolds, Gone
  <2>2. Len(q) = used /\ used \in Nat /\ q[1] = slots[first]
    <3>1. q = [i \in 1 .. used |-> slots[At(i - 1)]] /\ used \in Nat
      <4>1. used \in Nat /\ used - 0 = used
        BY CountTypes DEF PipeInv
      <4>2. \A i \in 1 .. used : 0 + i - 1 = i - 1
        BY <4>1
      <4> QED BY <2>1, <4>1, <4>2, PendingParts
    <3>2. At(1 - 1) = first
      BY AtFacts, PipeTypes DEF PipeInv
    <3> QED BY <2>1, <3>1, <3>2
  <2> DEFINE b == SubSeq(q, 2, Len(q))
  <2>3. held \in Nat
    BY FlightTypes DEF PipeInv
  <2>4. b \in Seq(Nat) /\ Len(b) <= Len(q) /\ q = <<held>> \o b
    <3> HIDE DEF q
    <3>1. q \in Seq(Nat) /\ Len(q) \in Nat \ {0} /\ q[1] = held
      BY <1>1, <2>1, <2>2
    <3> QED BY ONLY <2>3, <3>1
  <2>5. Pending = Pending' \o b
    <3> HIDE DEF f, b, q
    <3>1. f \o << >> = f /\ Kept' = <<held>> /\ <<held>> \in Seq(Nat)
      BY <1>1, <1>4, <1>8, <2>3, Grouped
    <3>2. Pending = f \o (<<held>> \o b)
      BY <1>1, <2>1, <2>4, <3>1
    <3>3. f \o (<<held>> \o b) = (f \o <<held>>) \o b
      <4>1. f \in Seq(Nat) /\ b \in Seq(Nat) /\ <<held>> \in Seq(Nat)
        BY <1>1, <2>4, <3>1
      <4> QED BY ONLY <4>1, Grouped, SMTT(30)
    <3> QED BY <1>6, <3>1, <3>2, <3>3
  <2>6. Len(b) <= SndSize
    <3> HIDE DEF b, q
    <3>1. Len(b) \in Nat /\ Len(q) \in Nat
      BY <1>1, <2>4
    <3> QED BY <1>7, <2>4, <3>1, PipeSizes
  <2> HIDE DEF b
  <2> QED BY <1>0, <1>1, <2>4, <2>5, <2>6, LoseRest
<1>9. CASE ~(send = "transfer" /\ send_on = current)
  <2>1. Kept' = k
    BY <1>4, <1>9 DEF Kept
  <2>2. Pending = Pending' \o q
    BY <1>1, <1>6, <2>1
  <2> HIDE DEF q
  <2> QED BY <1>0, <1>1, <1>7, <2>2, LoseRest
<1> QED BY <1>8, <1>9

(* The oldest answer of the buffer, and the others *)
LEMMA Oldest ==
    ASSUME PipeInv, send = "transfer", send_on = current, UNCHANGED <<current, slots, first, used>>,
           send' = "free", send_on' = send_on, PipeInv'
    PROVE  slots[first] \in Nat /\ Queued = <<slots[first]>> \o Queued'
<1> DEFINE q == Queued
           r == Queued'
           x == slots[first]
<1>1. used > 0 /\ used \in Nat /\ Gone = 0 /\ Gone' = 1
  BY CountTypes DEF Gone, PipeInv, HeldInv, SendHolds
<1>2. q \in Seq(Nat) /\ r \in Seq(Nat) /\ Len(q) = used /\ Len(r) = used - 1
  <2>1. used - 0 = used /\ used' = used
    BY <1>1
  <2> QED BY <1>1, <2>1, PendingParts, PartsNext
<1>3. q = [i \in 1 .. used |-> slots[At(i - 1)]]
  <2>1. used - 0 = used /\ \A i \in 1 .. used : 0 + i - 1 = i - 1
    BY <1>1
  <2> QED BY <1>1, <2>1, PendingParts
<1>4. r = [i \in 1 .. used - 1 |-> slots[At(i)]]
  <2>1. r = [i \in 1 .. used - 1 |-> slots[(first + (1 + i - 1)) % SndSize]]
    BY <1>1 DEF Queued, Gone, At
  <2>2. \A i \in 1 .. used - 1 : 1 + i - 1 = i
    BY <1>1
  <2> QED BY <2>1, <2>2 DEF At
<1>5. x \in Nat /\ q[1] = x
  <2>1. slots \in [Place -> Nat] /\ first \in Place /\ At(0) = first /\ 1 - 1 = 0
    BY AtFacts, PipeTypes DEF PipeInv
  <2> QED BY <1>1, <1>3, <2>1
<1>6. \A i \in 1 .. used - 1 : q[i + 1] = r[i]
  <2> SUFFICES ASSUME NEW i \in 1 .. used - 1 PROVE q[i + 1] = r[i]
    OBVIOUS
  <2>1. i + 1 \in 1 .. used /\ (i + 1) - 1 = i
    BY <1>1
  <2> HIDE DEF q, r
  <2> QED BY <1>3, <1>4, <2>1
<1> HIDE DEF q, r, x
<1>7. q = <<x>> \o r
  BY <1>1, <1>2, <1>5, <1>6
<1> QED BY <1>5, <1>7 DEF q, r, x

LEMMA TransferRefines == ASSUME PipeInv, PipeInv', Transfer PROVE UNCHANGED Answer!vars
<1>0. /\ send = "transfer" /\ ep_in = "idle" /\ ep_in' = "busy" /\ send' = "free"
      /\ flying' = (IF send_on = current THEN first ELSE Elsewhere) /\ started' = held
      /\ UNCHANGED <<current, slots, first, used, send_on, held, made, got>>
  BY DEF Transfer, buffers, probes, host
<1> DEFINE q == Queued
           r == Queued'
<1>1. Flown = << >> /\ Flown' = <<InFlight'>> /\ Kept' = << >> /\ q \in Seq(Nat) /\ r \in Seq(Nat)
  BY <1>0, PendingParts, PartsNext DEF Flown, Kept
<1>2. Pending = (<< >> \o Kept) \o q /\ Pending' = (<<InFlight'>> \o << >>) \o r
  BY <1>1 DEF Pending
<1>3. InFlight' \in Nat /\ held \in Nat
  BY FlightTypes, PartsNext DEF PipeInv
<1>4. CASE send_on = current
  <2>1. Kept = << >> /\ InFlight' = slots[first]
    <3>1. first # Elsewhere
      BY PipeTypes, PipeSizes DEF PipeInv, Place, Elsewhere
    <3> QED BY <1>0, <1>4, <3>1 DEF Kept, InFlight
  <2>2. q = <<slots[first]>> \o r
    BY <1>0, <1>4, Oldest
  <2> HIDE DEF q, r
  <2>3. (<< >> \o << >>) \o q = q /\ <<InFlight'>> \o << >> = <<InFlight'>>
    BY ONLY <1>1, <1>3
  <2> QED BY <1>0, <1>2, <2>1, <2>2, <2>3, AnswerSame
<1>5. CASE send_on # current
  <2>1. Kept = <<held>> /\ InFlight' = held
    BY <1>0, <1>5 DEF Kept, InFlight
  <2>2. r = q
    BY <1>0, <1>5 DEF Queued, At
  <2> HIDE DEF q, r
  <2>3. << >> \o <<held>> = <<held>> /\ <<held>> \o << >> = <<held>>
    BY ONLY <1>3
  <2> QED BY <1>0, <1>2, <2>1, <2>2, <2>3, AnswerSame
<1> QED BY <1>4, <1>5

LEMMA TransferNowhereRefines ==
    ASSUME PipeInv, PipeInv', TransferNowhere PROVE [Answer!Next]_(Answer!vars)
<1>1. CASE Abort("endpoint")
  BY <1>1, AbortSame
<1>2. CASE ~Abort("endpoint")
  <2>0. /\ send = "transfer" /\ ~mounted /\ send' = "free"
        /\ UNCHANGED <<current, slots, first, used, send_on, held, ep_in, flying, started, made,
                       got>>
    BY <1>2 DEF TransferNowhere, buffers, probes, endpoints, host
  <2> DEFINE q == Queued
             r == Queued'
  <2>1. /\ Flown = << >> /\ Flown' = << >> /\ Kept' = << >> /\ q \in Seq(Nat) /\ r \in Seq(Nat)
        /\ held \in Nat
    BY <2>0, PendingParts, PartsNext, FlightTypes DEF Flown, Kept, PipeInv, FlyingInv
  <2>2. Pending = (<< >> \o Kept) \o q /\ Pending' = (<< >> \o << >>) \o r
    BY <2>1 DEF Pending
  <2>3. << >> \o << >> = << >> /\ << >> \o r = r /\ << >> \o q = q /\ << >> \o <<held>> = <<held>>
    <3> HIDE DEF q, r
    <3> QED BY ONLY <2>1
  <2>4. CASE send_on = current
    <3>1. Kept = << >>
      BY <2>4 DEF Kept
    <3>2. slots[first] \in Nat /\ q = <<slots[first]>> \o r
      BY <2>0, <2>4, Oldest
    <3> HIDE DEF q, r
    <3>3. Pending = <<slots[first]>> \o Pending'
      BY <2>2, <2>3, <3>1, <3>2
    <3> QED BY <2>0, <3>2, <3>3, LoseFirst
  <2>5. CASE send_on # current
    <3>1. Kept = <<held>>
      BY <2>0, <2>5 DEF Kept
    <3>2. r = q
      BY <2>0, <2>5 DEF Queued, At
    <3> HIDE DEF q, r
    <3>3. Pending = <<held>> \o Pending'
      BY <2>2, <2>3, <3>1, <3>2
    <3> QED BY <2>0, <2>1, <3>3, LoseFirst
  <2> QED BY <2>4, <2>5
<1> QED BY <1>1, <1>2

(* One step on along the ring *)
LEMMA ModAhead ==
    ASSUME NEW b \in Nat \ {0}, NEW x \in Int, NEW j \in Int
    PROVE  ((x % b) + j) % b = (x + j) % b
<1> DEFINE y == (x % b) + j
<1>1. x \div b \in Int /\ x % b \in 0 .. b - 1 /\ x = b * (x \div b) + (x % b)
  BY DivMod
<1>2. y \in Int
  BY <1>1
<1>3. y \div b \in Int /\ y % b \in 0 .. b - 1 /\ y = b * (y \div b) + (y % b)
  BY <1>2, DivMod
<1> DEFINE q == (x \div b) + (y \div b)
           r == y % b
           z == x + j
<1>4. q \in Int /\ r \in Int /\ 0 <= r /\ r < b /\ z \in Int /\ z = b * q + r
  BY <1>1, <1>2, <1>3
<1> HIDE DEF q, r, z
<1>5. z % b = r
  BY <1>4, ModUnique
<1> QED BY <1>5 DEF r, z

LEMMA SendFreeRefines == ASSUME PipeInv, PipeInv', SendFree PROVE UNCHANGED Answer!vars
<1>1. CASE send_on # current
  BY <1>1, AbortSame DEF SendFree
<1>2. CASE send_on = current
  <2>0. /\ send = "free" /\ send' = "receive" /\ first' = At(1) /\ used' = used - 1
        /\ UNCHANGED <<current, slots, send_on, held, ep_in, flying, started, made, got>>
    BY <1>2 DEF SendFree, probes, endpoints, host
  <2>1. Flown' = Flown /\ Kept' = Kept
    BY <2>0 DEF Flown, Kept, InFlight
  <2>2. used \in Nat /\ used > 0 /\ first \in Nat /\ SndSize \in Nat \ {0}
    BY <1>2, <2>0, CountTypes, PipeTypes, PipeSizes DEF PipeInv, HeldInv, SendHolds, Place
  <2>3. Queued = [i \in 1 .. used - 1 |-> slots[(first + i) % SndSize]]
    <3>1. Queued = [i \in 1 .. used - 1 |-> slots[(first + (1 + i - 1)) % SndSize]]
      BY <1>2, <2>0 DEF Queued, At
    <3>2. \A i \in 1 .. used - 1 : 1 + i - 1 = i
      BY <2>2
    <3> QED BY <3>1, <3>2
  <2>4. Queued' = [i \in 1 .. used - 1 |-> slots[(((first + 1) % SndSize) + (i - 1)) % SndSize]]
    <3>1. Queued' = [i \in 1 .. (used - 1) - 0 |-> slots[(At(1) + (0 + i - 1)) % SndSize]]
      BY <2>0 DEF Queued, At
    <3>2. (used - 1) - 0 = used - 1 /\ \A i \in 1 .. used - 1 : 0 + i - 1 = i - 1
      BY <2>2
    <3> QED BY <3>1, <3>2 DEF At
  <2>5. \A i \in 1 .. used - 1 : (((first + 1) % SndSize) + (i - 1)) % SndSize = (first + i) % SndSize
    <3> SUFFICES ASSUME NEW i \in 1 .. used - 1
                 PROVE  (((first + 1) % SndSize) + (i - 1)) % SndSize = (first + i) % SndSize
      OBVIOUS
    <3>1. first + 1 \in Int /\ i - 1 \in Int /\ (first + 1) + (i - 1) = first + i
      BY <2>2
    <3>2. (((first + 1) % SndSize) + (i - 1)) % SndSize = ((first + 1) + (i - 1)) % SndSize
      BY <2>2, <3>1, ModAhead
    <3> QED BY <3>1, <3>2
  <2>6. Queued' = Queued
    BY <2>3, <2>4, <2>5
  <2> QED BY <2>0, <2>1, <2>6, AnswerSame DEF Pending
<1> QED BY <1>1, <1>2

(* The window leaves room for one more answer besides the one in flight.   *)
LEMMA RoomBesideFlight ==
    ASSUME PipeInv, Window <= SndSize, NEW m \in Mounts, ProbeSends(m)
    PROVE  Flying = 1 /\ Gone = 0 => used + 1 < SndSize
<1> SUFFICES ASSUME Flying = 1, Gone = 0 PROVE used + 1 < SndSize
  OBVIOUS
<1>1. Cardinality(Owing) = Cardinality(Owing') + 1 /\ Cardinality(Owing') \in Nat
  BY OneMade DEF ProbeSends
<1> DEFINE a == Largest * Requested
           c == Cardinality(Owing')
<1>2. a \in Nat
  BY CountTypes, LargestFacts DEF PipeInv
<1>3. Under + a + (c + 1) <= Window
  BY <1>1 DEF PipeInv, WindowInv
<1>4. Under = 1 + Foreign + used /\ Foreign \in Nat /\ used \in Nat /\ c \in Nat
      /\ Window \in Nat /\ SndSize \in Nat
  BY <1>1, CountTypes, PipeSizes DEF PipeInv, Under
<1> HIDE DEF a, c
<1> QED BY <1>2, <1>3, <1>4

(* A transfer never reads from the place the next answer is put to. *)
LEMMA NotOverwritten ==
    ASSUME PipeInv, Window <= SndSize, NEW m \in Mounts, ProbeSends(m), ep_in = "busy", flying # Elsewhere
    PROVE  flying # At(used) /\ flying \in Place
<1>0. used \in Nat /\ used < SndSize /\ SndSize \in Nat \ {0} /\ first \in Place /\ first \in Nat
  <2>1. first \in Place
    BY PipeTypes DEF PipeInv
  <2> QED BY <2>1, CountTypes, PipeSizes DEF PipeInv, ProbeSends, Place
<1>1. flying \in Place
  BY DEF PipeInv, PipeTypeOK
<1>2. CASE send = "free" /\ send_on = current
  <2>1. used > 0 /\ flying = first
    BY <1>2 DEF PipeInv, HeldInv, SendHolds, FlyingInv
  <2>2. At(0) # At(used) /\ At(0) = first
    BY <1>0, <2>1, AtApart, AtFacts
  <2> QED BY <1>1, <2>1, <2>2
<1>3. CASE ~(send = "free" /\ send_on = current)
  <2>1. (flying + 1) % SndSize = first
    BY <1>3 DEF PipeInv, FlyingInv
  <2>2. used + 1 < SndSize
    BY <1>3, RoomBesideFlight DEF Flying, Gone
  <2>3. ASSUME flying = At(used) PROVE FALSE
    <3>1. first + used \in Int /\ (first + used) + 1 = first + (used + 1)
      BY <1>0
    <3> DEFINE x == first + used
    <3>2. ((x % SndSize) + 1) % SndSize = (x + 1) % SndSize
      <4>1. x \in Int /\ 1 \in Int /\ SndSize \in Nat \ {0}
        BY <1>0, <3>1
      <4> HIDE DEF x
      <4> QED BY ONLY <4>1, ModAhead
    <3>3. At(used + 1) = first
      BY <2>1, <2>3, <3>1, <3>2 DEF At
    <3>4. 0 \in Nat /\ used + 1 \in Nat /\ 0 < used + 1 /\ used + 1 < 0 + SndSize
      BY <1>0, <2>2
    <3>5. At(0) # At(used + 1) /\ At(0) = first
      BY <1>0, <3>4, AtApart, AtFacts
    <3> QED BY <3>3, <3>5
  <2> QED BY <1>1, <2>3
<1> QED BY <1>2, <1>3

LEMMA ProbeSendsRefines ==
    ASSUME PipeInv, PipeInv', Window <= SndSize, NEW m \in Mounts, ProbeSends(m)
    PROVE  Answer!Next
<1>0. /\ used < SndSize /\ slots' = [slots EXCEPT ![At(used)] = made + 1] /\ used' = used + 1
      /\ made' = made + 1
      /\ UNCHANGED <<current, first, send, send_on, held, ep_in, flying, started, got>>
  BY DEF ProbeSends, sender, endpoints, host
<1>1. /\ used \in Nat /\ SndSize \in Nat \ {0} /\ slots \in [Place -> Nat] /\ first \in Place
      /\ made \in Nat /\ Gone \in {0, 1} /\ used - Gone \in Nat
  BY CountTypes, PipeSizes, PipeTypes DEF PipeInv
<1>2. At(used) \in Place
  BY <1>1, AtFacts
<1>3. \A p \in Place : slots'[p] = IF p = At(used) THEN made + 1 ELSE slots[p]
  BY <1>0, <1>1
<1> DEFINE f == Flown
           k == Kept
           q == Queued
           x == made + 1
           n == used - Gone
<1>4. Flown' = f
  <2>1. CASE ep_in = "busy" /\ flying # Elsewhere
    <3>1. flying # At(used) /\ flying \in Place
      BY <2>1, NotOverwritten
    <3>2. slots'[flying] = slots[flying]
      BY <1>3, <3>1
    <3> QED BY <1>0, <2>1, <3>2 DEF Flown, InFlight
  <2>2. CASE ~(ep_in = "busy" /\ flying # Elsewhere)
    BY <1>0, <2>2 DEF Flown, InFlight
  <2> QED BY <2>1, <2>2
<1>5. Kept' = k
  BY <1>0 DEF Kept
<1>6. q \in Seq(Nat) /\ Len(q) = n /\ q = [i \in 1 .. n |-> slots[At(Gone + i - 1)]]
  BY PendingParts
<1>7. Queued' = [i \in 1 .. n + 1 |-> slots'[At(Gone + i - 1)]]
  <2>1. Gone' = Gone /\ used' - Gone' = n + 1
    <3>1. Gone' = Gone
      BY <1>0 DEF Gone
    <3> QED BY <1>0, <1>1, <3>1
  <2>2. Queued' = [i \in 1 .. used' - Gone' |-> slots'[(first' + (Gone' + i - 1)) % SndSize]]
    BY DEF Queued, Gone, At
  <2>3. first' = first
    BY <1>0
  <2> HIDE DEF n
  <2> QED BY <2>1, <2>2, <2>3 DEF At
<1>8. \A i \in 1 .. n : slots'[At(Gone + i - 1)] = slots[At(Gone + i - 1)]
  <2> SUFFICES ASSUME NEW i \in 1 .. n PROVE slots'[At(Gone + i - 1)] = slots[At(Gone + i - 1)]
    OBVIOUS
  <2> DEFINE j == Gone + i - 1
  <2>1. j \in Nat /\ j < used /\ used < j + SndSize
    BY <1>0, <1>1
  <2> HIDE DEF j
  <2>2. At(j) # At(used) /\ At(j) \in Place
    BY <1>1, <2>1, AtApart, AtFacts
  <2> QED BY <1>3, <2>2 DEF j
<1>9. slots'[At(Gone + (n + 1) - 1)] = x
  <2>1. Gone + (n + 1) - 1 = used
    BY <1>1
  <2> QED BY <1>2, <1>3, <2>1
<1>10. Queued' = q \o <<x>>
  <2>1. n \in Nat /\ x \in Nat
    BY <1>1
  <2> DEFINE r == Queued'
  <2>2. r = [i \in 1 .. n + 1 |-> slots'[At(Gone + i - 1)]]
    BY <1>7
  <2>3. \A i \in 1 .. n : r[i] = q[i]
    <3> HIDE DEF n, r, q
    <3> QED BY <1>6, <1>8, <2>1, <2>2
  <2>4. r[n + 1] = x
    <3> HIDE DEF n, r, x
    <3> QED BY <1>9, <2>1, <2>2
  <2>5. r \in Seq(Nat) /\ Len(r) = n + 1
    <3>1. r \in Seq(Nat)
      BY PartsNext
    <3> HIDE DEF n, r
    <3> QED BY <2>1, <2>2, <3>1
  <2> HIDE DEF n, r, q, x
  <2>6. r = q \o <<x>>
    BY ONLY <1>6, <2>1, <2>3, <2>4, <2>5
  <2> QED BY <2>6 DEF r
<1>11. Pending' = Pending \o <<x>>
  <2>1. f \in Seq(Nat) /\ k \in Seq(Nat) /\ Pending = (f \o k) \o q /\ <<x>> \in Seq(Nat)
    BY <1>1, PendingParts
  <2>2. Pending' = (f \o k) \o (q \o <<x>>)
    BY <1>4, <1>5, <1>10 DEF Pending
  <2> HIDE DEF f, k, q, x
  <2>3. f \o k \in Seq(Nat) /\ q \in Seq(Nat)
    BY <1>6, <2>1, Concat
  <2> DEFINE fk == f \o k
             s == <<x>>
  <2>4. (fk \o q) \o s = fk \o (q \o s)
    <3>1. fk \in Seq(Nat) /\ q \in Seq(Nat) /\ s \in Seq(Nat)
      BY <2>1, <2>3
    <3> HIDE DEF fk, s
    <3> QED BY ONLY <3>1, Grouped, SMTT(30)
  <2> QED BY <2>1, <2>2, <2>4
<1>12. [i \in 1 .. made' - made |-> made + i] = <<x>>
  <2>1. made' - made = 1
    BY <1>0, <1>1
  <2> QED BY <2>1
<1>13. Answer!Put
  <2>1. made' \in Nat /\ made' > made /\ got' = got
    BY <1>0, <1>1
  <2> HIDE DEF x
  <2> QED BY <1>11, <1>12, <2>1 DEF Answer!Put
<1> QED BY <1>13 DEF Answer!Next

LEMMA ProbeDropsRefines == ASSUME PipeInv, NEW m \in Mounts, ProbeDrops(m) PROVE Answer!Next
<1>0. /\ made' = made + 1
      /\ UNCHANGED <<current, slots, first, used, send, send_on, held, ep_in, flying, started, got>>
  BY DEF ProbeDrops, buffers, sender, endpoints, host
<1>1. Pending' = Pending
  BY <1>0, PendingSame
<1>2. made' \in Nat /\ made' > made
  BY <1>0, PipeTypes DEF PipeInv
<1>3. Answer!Put
  BY <1>0, <1>1, <1>2 DEF Answer!Put
<1> QED BY <1>3 DEF Answer!Next

(* The steps that leave the answers as they are *)
LEMMA UsbSame ==
    ASSUME \/ Mount \/ StartSender \/ CreateProbe \/ OutComplete \/ ProcessData \/ Rearm \/ InComplete
           \/ HostSends
    PROVE  UNCHANGED Answer!vars
<1>1. /\ UNCHANGED <<current, slots, first, used, held, flying, started, send_on, made, got>>
      /\ ep_in' = "busy" <=> ep_in = "busy"
      /\ \/ send' = send
         \/ send \notin {"transfer", "free"} /\ send' \notin {"transfer", "free"}
  BY DEF Mount, StartSender, CreateProbe, OutComplete, ProcessData, Rearm, InComplete, HostSends,
         buffers, sender, probes, endpoints, host
<1> QED BY <1>1, PendingSame, AnswerSame

LEMMA SendSame == ASSUME SendReceive \/ SendGets PROVE UNCHANGED Answer!vars
<1>1. ASSUME SendReceive, current = 0 PROVE UNCHANGED Answer!vars
  BY <1>1, AbortSame DEF SendReceive
<1>2. ASSUME SendReceive, current # 0 PROVE UNCHANGED Answer!vars
  <2>1. /\ UNCHANGED <<current, slots, first, used, held, flying, started, ep_in, made, got>>
        /\ send = "receive" /\ send' = "blocked"
    BY <1>2 DEF SendReceive, buffers, probes, endpoints, host
  <2> QED BY <2>1, PendingSame, AnswerSame
<1>3. ASSUME SendGets PROVE UNCHANGED Answer!vars
  <2>0. /\ UNCHANGED <<current, slots, first, used, flying, started, ep_in, send_on, made, got>>
        /\ send = "blocked" /\ send' = "transfer" /\ send_on = current
    BY <1>3 DEF SendGets, buffers, probes, endpoints, host
  <2>1. Flown' = Flown /\ Kept' = Kept
    BY <2>0 DEF Flown, Kept, InFlight
  <2>2. Queued' = Queued
    <3>1. Gone = 0 /\ Gone' = 0
      BY <2>0 DEF Gone
    <3>2. Queued = [i \in 1 .. used - Gone |-> slots[(first + (Gone + i - 1)) % SndSize]]
      BY DEF Queued, Gone, At
    <3>3. Queued' = [i \in 1 .. used' - Gone' |-> slots'[(first' + (Gone' + i - 1)) % SndSize]]
      BY DEF Queued, Gone, At
    <3> QED BY <2>0, <3>1, <3>2, <3>3
  <2> QED BY <2>0, <2>1, <2>2, AnswerSame DEF Pending
<1> QED BY <1>1, <1>2, <1>3

LEMMA ProbeSame ==
    ASSUME NEW m \in Mounts, ProbeReceive(m) \/ ProbeGets(m) \/ ProbeReturns(m)
    PROVE  UNCHANGED Answer!vars
<1>1. ASSUME Abort("foreign item") PROVE UNCHANGED Answer!vars
  BY <1>1, AbortSame
<1>2. ASSUME ~Abort("foreign item") PROVE UNCHANGED Answer!vars
  <2>1. UNCHANGED <<current, slots, first, used, send, send_on, held, ep_in, flying, started, made, got>>
    BY <1>2 DEF ProbeReceive, ProbeGets, ProbeReturns, buffers, sender, endpoints, host
  <2> QED BY <2>1, PendingSame, AnswerSame
<1> QED BY <1>1, <1>2

LEMMA StutterSame == ASSUME UNCHANGED pipe PROVE UNCHANGED Answer!vars
<1>1. UNCHANGED <<current, slots, first, used, send, send_on, held, ep_in, flying, started, made, got>>
  BY DEF pipe, buffers, sender, probes, endpoints, host
<1> QED BY <1>1, PendingSame, AnswerSame

LEMMA PipeRefines ==
    ASSUME PipeInv, PipeInv', Window <= SndSize, [PipeNext]_pipe
    PROVE  [Answer!Next]_(Answer!vars)
<1>1. ASSUME UsbStep PROVE [Answer!Next]_(Answer!vars)
  <2>1. ASSUME ProcessFails PROVE UNCHANGED Answer!vars
    BY <2>1, AbortSame DEF ProcessFails
  <2> QED BY <1>1, <2>1, UsbSame, ResetRefines, MakeBuffersRefines DEF UsbStep
<1>2. ASSUME SendStep PROVE [Answer!Next]_(Answer!vars)
  <2>1. ASSUME TransferTimesOut PROVE UNCHANGED Answer!vars
    BY <2>1, AbortSame DEF TransferTimesOut
  <2> QED BY <1>2, <2>1, SendSame, TransferRefines, TransferNowhereRefines, SendFreeRefines DEF SendStep
<1>3. ASSUME NEW m \in Mounts, ProbeStep(m) PROVE [Answer!Next]_(Answer!vars)
  BY <1>3, ProbeSame, ProbeSendsRefines, ProbeDropsRefines DEF ProbeStep
<1> QED BY <1>1, <1>2, <1>3, UsbSame, HostReadsRefines, StutterSame DEF PipeNext

LEMMA PipeInitRefines == ASSUME PipeInit PROVE Answer!Init
<1>1. Flown = << >> /\ Kept = << >> /\ Queued = << >>
  BY DEF PipeInit, Flown, Kept, Queued
<1>2. Pending = << >>
  BY <1>1 DEF Pending
<1> QED BY <1>2 DEF PipeInit, Answer!Init

(* Over every interleaving of the TinyUSB task, usb_send_task and the      *)
(* probe tasks, a host that lets no more answers be due than the send      *)
(* buffer holds receives them in order and at most once: no transfer ever  *)
(* reads from a place that has been written to again.                      *)
THEOREM PipeImplementation ==
    ASSUME Window <= SndSize
    PROVE  PipeSpec => ImplementsLossyFifo
<1>1. PipeInit => Answer!Init
  BY PipeInitRefines
<1>2. PipeInv /\ PipeInv' /\ [PipeNext]_pipe => [Answer!Next]_(Answer!vars)
  BY PipeRefines
<1> QED BY <1>1, <1>2, PipeInvariant, PTL DEF PipeSpec, ImplementsLossyFifo, Answer!Spec

(* What has been started leaves the place it was started from unchanged.   *)
LEMMA StartedStep ==
    ASSUME PipeInv, SentAsStarted, Window <= SndSize, [PipeNext]_pipe
    PROVE  SentAsStarted'
<1>1. ASSUME UNCHANGED <<slots, flying, started>>, ep_in' = "busy" => ep_in = "busy" PROVE SentAsStarted'
  BY <1>1 DEF SentAsStarted, InFlight
<1>2. ASSUME NEW why, Abort(why) PROVE SentAsStarted'
  BY <1>1, <1>2 DEF Abort, buffers, endpoints
<1>3. ASSUME UsbStep PROVE SentAsStarted'
  <2>1. CASE MakeBuffers
    BY <2>1 DEF MakeBuffers, SentAsStarted, InFlight
  <2>2. CASE ~MakeBuffers
    BY <1>1, <1>2, <1>3, <2>2 DEF UsbStep, Mount, StartSender, CreateProbe, Reset, OutComplete,
       ProcessData, ProcessFails, Rearm, InComplete, buffers, endpoints
  <2> QED BY <2>1, <2>2
<1>4. ASSUME SendStep PROVE SentAsStarted'
  <2>1. CASE Transfer
    <3>1. /\ send = "transfer" /\ UNCHANGED slots /\ started' = held
          /\ flying' = IF send_on = current THEN first ELSE Elsewhere
      BY <2>1 DEF Transfer, buffers
    <3>2. first # Elsewhere
      BY PipeTypes, PipeSizes DEF PipeInv, Place, Elsewhere
    <3>3. send_on = current => held = slots[first]
      BY <3>1 DEF PipeInv, HeldInv
    <3> QED BY <3>1, <3>2, <3>3 DEF SentAsStarted, InFlight
  <2>2. CASE ~Transfer
    <3>1. \/ UNCHANGED <<slots, flying, started, ep_in>>
          \/ \E why : Abort(why)
      BY <1>4, <2>2 DEF SendStep, SendReceive, SendGets, TransferTimesOut, TransferNowhere, SendFree,
         buffers, endpoints
    <3> QED BY <1>1, <1>2, <3>1
  <2> QED BY <2>1, <2>2
<1>5. ASSUME NEW m \in Mounts, ProbeStep(m) PROVE SentAsStarted'
  <2>1. CASE ProbeSends(m)
    <3>1. /\ slots' = [slots EXCEPT ![At(used)] = made + 1] /\ UNCHANGED <<ep_in, flying, started>>
      BY <2>1 DEF ProbeSends, endpoints
    <3>2. ASSUME ep_in = "busy", flying # Elsewhere PROVE slots'[flying] = slots[flying]
      <4>1. flying # At(used) /\ flying \in Place
        BY <2>1, <3>2, NotOverwritten
      <4>2. slots \in [Place -> Nat]
        BY PipeTypes DEF PipeInv
      <4> QED BY <3>1, <4>1, <4>2
    <3> QED BY <3>1, <3>2 DEF SentAsStarted, InFlight
  <2>2. CASE ~ProbeSends(m)
    <3>1. \/ UNCHANGED <<slots, flying, started, ep_in>>
          \/ Abort("foreign item")
      BY <1>5, <2>2 DEF ProbeStep, ProbeReceive, ProbeGets, ProbeDrops, ProbeReturns, buffers, endpoints
    <3> QED BY <1>1, <1>2, <3>1
  <2> QED BY <2>1, <2>2
<1>6. ASSUME HostSends \/ HostReads \/ UNCHANGED pipe PROVE SentAsStarted'
  BY <1>1, <1>6 DEF HostSends, HostReads, pipe, buffers, endpoints
<1> QED BY <1>3, <1>4, <1>5, <1>6 DEF PipeNext

(* Such a host is sent each packet as it was when its transfer was         *)
(* started, although usb_send_task frees it right behind the start.        *)
THEOREM PipeSentAsStarted ==
    ASSUME Window <= SndSize
    PROVE  PipeSpec => []SentAsStarted
<1>1. PipeInit => SentAsStarted
  BY DEF PipeInit, SentAsStarted
<1>2. PipeInv /\ SentAsStarted /\ [PipeNext]_pipe => SentAsStarted'
  BY StartedStep
<1> QED BY <1>1, <1>2, PipeInvariant, PTL DEF PipeSpec
=============================================================================
