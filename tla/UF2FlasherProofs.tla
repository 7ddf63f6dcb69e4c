-------------------------- MODULE UF2FlasherProofs --------------------------
(***************************************************************************)
(* Theorems about UF2Flasher, for every flash, buffer, block and payload   *)
(* size and every set of well-numbered UF2 blocks.                         *)
(***************************************************************************)
EXTENDS UF2Flasher, TLAPS

-----------------------------------------------------------------------------
(* Division and rounding *)

(* Quotient and remainder, as the prover knows them. *)
LEMMA DivMod ==
    ASSUME NEW b \in Nat \ {0}, NEW a \in Int
    PROVE  a \div b \in Int /\ a % b \in 0 .. b - 1 /\ a = b * (a \div b) + (a % b)
  OBVIOUS

(* Between -b and b, zero is the only multiple of b. *)
LEMMA NoMultipleBetween ==
    ASSUME NEW b \in Nat \ {0}, NEW q \in Int, NEW r \in Int, b * q = r, -b < r, r < b
    PROVE  r = 0
  OBVIOUS

(* The remainder is the only one. *)
LEMMA ModUnique ==
    ASSUME NEW b \in Nat \ {0}, NEW q \in Int, NEW r \in Int, 0 <= r, r < b,
           NEW x \in Int, x = b * q + r
    PROVE  x % b = r
  <1>1. x \div b \in Int /\ x % b \in 0 .. b - 1 /\ x = b * (x \div b) + (x % b)
    BY DivMod
  <1> DEFINE d == q - (x \div b)
             e == (x % b) - r
  <1>2. d \in Int /\ e \in Int /\ b * d = e /\ -b < e /\ e < b
    BY <1>1
  <1> HIDE DEF d, e
  <1>3. e = 0
    BY <1>2, NoMultipleBetween
  <1> QED BY <1>1, <1>3 DEF e

(* What an aligned number leaves of a remainder *)
LEMMA AlignedSum ==
    ASSUME NEW b \in Nat \ {0}, NEW x \in Int, NEW y \in Int, NEW z \in Int,
           x % b = 0, z = x + y
    PROVE  z % b = y % b
  <1>1. x = b * (x \div b) /\ x \div b \in Int
    BY DivMod
  <1>2. y = b * (y \div b) + (y % b) /\ y \div b \in Int /\ y % b \in 0 .. b - 1
    BY DivMod
  <1> DEFINE q == (x \div b) + (y \div b)
             r == y % b
  <1>3. /\ q \in Int /\ r \in Int /\ 0 <= r /\ r < b
        /\ z \in Int /\ z = b * q + r
    BY <1>1, <1>2
  <1> HIDE DEF q, r
  <1>4. b \in Nat \ {0} /\ z % b = r
    BY ONLY <1>3, b \in Nat \ {0}, ModUnique
  <1> QED BY <1>4 DEF r

(* One block is aligned. *)
LEMMA AlignedSelf == ASSUME NEW b \in Nat \ {0} PROVE b % b = 0
  <1> DEFINE q == 1
             r == 0
  <1>1. q \in Int /\ r \in Int /\ 0 <= r /\ r < b /\ b = b * q + r
    OBVIOUS
  <1> HIDE DEF q, r
  <1>2. b % b = r
    BY <1>1, ModUnique
  <1> QED BY <1>2 DEF r

(* Rounding up stays below every aligned bound. *)
LEMMA AlignedBelow ==
    ASSUME NEW b \in Nat \ {0}, NEW x \in Int, NEW y \in Int, x % b = 0, y % b = 0, x < y
    PROVE  x + b <= y
  <1>1. x = b * (x \div b) /\ x \div b \in Int
    BY DivMod
  <1>2. y = b * (y \div b) /\ y \div b \in Int
    BY DivMod
  <1> DEFINE d == (y \div b) - (x \div b)
             e == y - x
  <1>3. d \in Int /\ e \in Int /\ b * d = e /\ 0 < e /\ -b < e
    BY <1>1, <1>2
  <1> HIDE DEF d, e
  <1>4. ~(e < b)
    BY <1>3, NoMultipleBetween
  <1> QED BY <1>4 DEF e

-----------------------------------------------------------------------------
(* Arithmetic of erase blocks. *)

(* The erase block size can divide. *)
LEMMA BlockSizeType == BlockSize \in Nat \ {0}
  BY SizeAssumption

(* addr & ~(FLASH_BLOCK_SIZE - 1): the last block boundary not after addr. *)
LEMMA BaseFacts ==
    ASSUME NEW a \in Nat
    PROVE  /\ Base(a) \in Nat /\ Base(a) % BlockSize = 0
           /\ Base(a) <= a /\ a < Base(a) + BlockSize
  <1>1. a \div BlockSize \in Int /\ a % BlockSize \in 0 .. BlockSize - 1
        /\ a = BlockSize * (a \div BlockSize) + (a % BlockSize)
    BY SizeAssumption, DivMod
  <1>2. Base(a) \in Int /\ Base(a) = BlockSize * (a \div BlockSize) + 0
    BY <1>1, SizeAssumption DEF Base
  <1>3. Base(a) % BlockSize = 0
    <2> DEFINE q == a \div BlockSize
               r == 0
    <2>1. q \in Int /\ r \in Int /\ 0 <= r /\ r < BlockSize /\ Base(a) = BlockSize * q + r
      BY <1>1, <1>2, SizeAssumption
    <2> HIDE DEF q, r
    <2>2. Base(a) % BlockSize = r
      BY <1>2, <2>1, BlockSizeType, ModUnique
    <2> QED BY <2>2 DEF r
  <1>4. a % BlockSize <= a
    BY <1>1, SizeAssumption
  <1> QED BY <1>1, <1>3, <1>4, SizeAssumption DEF Base

(* The padding of a flush ends at the next boundary, less than a block away. *)
LEMMA PadFacts ==
    ASSUME NEW end \in Nat
    PROVE  /\ Pad(end) \in Nat
           /\ (end + Pad(end)) % BlockSize = 0
           /\ \A y \in Nat : y % BlockSize = 0 /\ end <= y => end + Pad(end) <= y
  <1> DEFINE m == end % BlockSize
  <1>1. end \div BlockSize \in Int /\ m \in 0 .. BlockSize - 1
        /\ end = BlockSize * (end \div BlockSize) + m
    BY SizeAssumption, DivMod
  <1>2. CASE m = 0
    <2>1. BlockSize - m = BlockSize
      BY <1>2, SizeAssumption
    <2>2. Pad(end) = 0
      BY <2>1, AlignedSelf, SizeAssumption DEF Pad
    <2> QED BY <2>2, <1>2
  <1>3. CASE m # 0
    <2>1. Pad(end) = BlockSize - m
      <3> DEFINE k == BlockSize - m
                 q == 0
      <3>1. k \in Int /\ q \in Int /\ 0 <= k /\ k < BlockSize /\ k = BlockSize * q + k
        BY <1>1, <1>3, SizeAssumption
      <3> HIDE DEF k, q
      <3>2. k % BlockSize = k
        BY <3>1, SizeAssumption, ModUnique
      <3> QED BY <3>2 DEF Pad, k
    <2>2. end + Pad(end) = Base(end) + BlockSize
      BY <1>1, <2>1, SizeAssumption DEF Base
    <2>3. (Base(end) + BlockSize) % BlockSize = 0
      <3>1. BlockSize % BlockSize = 0
        BY AlignedSelf, SizeAssumption
      <3>2. Base(end) \in Int /\ Base(end) % BlockSize = 0 /\ BlockSize \in Int
        BY BaseFacts, SizeAssumption
      <3> DEFINE z == Base(end) + BlockSize
      <3>3. z \in Int /\ z = Base(end) + BlockSize
        BY <3>2
      <3> HIDE DEF z
      <3>4. z % BlockSize = 0
        BY <3>1, <3>2, <3>3, AlignedSum, BlockSizeType
      <3> QED BY <3>4 DEF z
    <2>4. ASSUME NEW y \in Nat, y % BlockSize = 0, end <= y PROVE Base(end) + BlockSize <= y
      <3>1. Base(end) <= y /\ Base(end) \in Nat /\ Base(end) % BlockSize = 0
        BY <2>4, BaseFacts
      <3>2. end # y
        BY <1>3, <2>4
      <3>3. Base(end) < y
        BY <2>4, <3>2, BaseFacts
      <3> QED BY <2>4, <3>1, <3>3, AlignedBelow, SizeAssumption
    <2> QED BY <1>1, <2>1, <2>2, <2>3, <2>4, SizeAssumption
  <1> QED BY <1>2, <1>3

(* An erase of an aligned range wipes that range and nothing else. *)
LEMMA EraseAligned ==
    ASSUME NEW addr \in Nat, NEW size \in Nat, addr % BlockSize = 0, size % BlockSize = 0
    PROVE  \A a \in EraseRange(addr, size) : a \in addr .. addr + size - 1
  <1> SUFFICES ASSUME NEW a \in Addr, NEW x \in addr .. addr + size - 1, Base(x) = Base(a)
               PROVE  a \in addr .. addr + size - 1
    BY DEF EraseRange
  <1>1. a \in Nat /\ x \in Nat
    BY SizeAssumption DEF Addr
  <1>2. Base(x) \in Nat /\ Base(x) % BlockSize = 0 /\ Base(x) <= x /\ x < Base(x) + BlockSize
    BY <1>1, BaseFacts
  <1>3. Base(a) <= a /\ a < Base(a) + BlockSize
    BY <1>1, BaseFacts
  <1>4. addr <= Base(x)
    <2>1. Base(x) < addr => Base(x) + BlockSize <= addr
      BY <1>2, AlignedBelow, SizeAssumption
    <2> QED BY <1>1, <1>2, <2>1, SizeAssumption
  <1>5. (addr + size) % BlockSize = 0
    <2> DEFINE z == addr + size
    <2>1. addr \in Int /\ size \in Int /\ z \in Int /\ z = addr + size
      OBVIOUS
    <2> HIDE DEF z
    <2>2. z % BlockSize = 0
      BY <2>1, AlignedSum, BlockSizeType
    <2> QED BY <2>2 DEF z
  <1>6. Base(x) + BlockSize <= addr + size
    BY <1>2, <1>5, AlignedBelow, SizeAssumption
  <1> QED BY <1>1, <1>2, <1>3, <1>4, <1>6, SizeAssumption

-----------------------------------------------------------------------------
(* What the assumptions say of a block and of the sizes. *)

(* What the assumptions say of one UF2 block. *)
LEMMA BlockFacts ==
    ASSUME NEW b \in Blocks
    PROVE  /\ b.no \in 0 .. NoLimit - 1 /\ b.addr \in Nat
           /\ b.data \in [0 .. DataSize - 1 -> Byte]
           /\ RealPayloadSize(b) \in 1 .. DataSize
           /\ b.addr + RealPayloadSize(b) <= FlashSize
  BY BlockAssumption, SizeAssumption DEF UF2, RealPayloadSize

(* The sizes are positive integers. *)
LEMMA Sizes ==
    /\ BlockSize \in Nat \ {0} /\ BufferSize \in Nat \ {0} /\ FlashSize \in Nat \ {0}
    /\ DataSize \in Nat \ {0} /\ NoLimit \in Nat \ {0}
    /\ NoBlock \notin Blocks /\ Erased \in Byte
  BY SizeAssumption, BlockAssumption

(* Buffer and flash are whole blocks. *)
LEMMA SizesAligned == BufferSize % BlockSize = 0 /\ FlashSize % BlockSize = 0
  BY SizeAssumption

(* Numbers that the sequence check of write10 takes for consecutive are. *)
LEMMA SequentialFacts ==
    ASSUME NEW b \in Blocks, NEW c \in Blocks, c.no # NoLimit - 1, Sequential(b, c.no)
    PROVE  b.no = c.no + 1
  <1> DEFINE n == b.no
             m == c.no
             k == n - 1
  <1>1. n \in Int /\ 0 <= n /\ n < NoLimit /\ m \in Int /\ 0 <= m /\ m < NoLimit - 1
    BY BlockFacts, Sizes
  <1>2. k % NoLimit = m % NoLimit
    BY DEF Sequential
  <1>3. NoLimit \in Nat \ {0}
    BY Sizes
  <1> HIDE DEF n, m
  <1>4. m % NoLimit = m
    BY <1>1, <1>3
  <1>5. CASE n = 0
    <2>1. k % NoLimit = NoLimit - 1
      BY <1>3, <1>5
    <2> QED BY <2>1, <1>1, <1>2, <1>3, <1>4
  <1>6. CASE n # 0
    <2>1. k % NoLimit = k
      BY <1>1, <1>3, <1>6
    <2> QED BY <2>1, <1>1, <1>2, <1>3, <1>4 DEF n, m
  <1> QED BY <1>5, <1>6

-----------------------------------------------------------------------------
(* The invariant holds at first and every step preserves it. *)

(* At start nothing is buffered and there is no session. *)
LEMMA InitInv == Init => IInv
  <1> SUFFICES ASSUME Init PROVE IInv
    OBVIOUS
  <1>1. TypeOK
    <2>1. flash \in [Addr -> Byte] /\ buffer \in [0 .. BufferSize - 1 -> Byte]
      BY Sizes, BlockAssumption DEF Init
    <2>2. 0 \in Addr /\ 0 \in 0 .. BufferSize /\ 0 \in 0 .. DataSize /\ -1 \in -1 .. NoLimit - 1
      BY Sizes DEF Addr
    <2> QED BY <2>1, <2>2 DEF Init, TypeOK
  <1>2. SessionInv /\ CallInv /\ WriteInv
    BY DEF Init, SessionInv, SessionMatchesCall, CallInv, Open, InHand, WriteInv
  <1>3. PlaceInv
    <2>1. 0 % BlockSize = 0
      BY BlockSizeType
    <2> QED BY <2>1, Sizes DEF Init, PlaceInv, End, AddressHonoured
  <1> QED BY <1>1, <1>2, <1>3 DEF IInv

(* A new block is taken up at the end of the buffer, or sent through a flush. *)
LEMMA Write10Inv ==
    ASSUME WellNumbered, IInv, NEW b \in Blocks, Write10(b)
    PROVE  IInv'
  <1> USE DEF IInv, Write10, msc
  <1>1. TypeOK'
    BY Sizes DEF TypeOK
  <1>2. SessionInv'
    BY DEF SessionInv, SessionMatchesCall
  <1>3. CallInv'
    BY BlockFacts DEF CallInv, Open, InHand
  <1>4. PlaceInv'
    <2>1. ASSUME pc' = "align", last_written_pos' > 0 PROVE p'.addr + done' = End'
      <3>1. /\ msc_last_block_written # -1 /\ p \in Blocks /\ p.no # NoLimit - 1
            /\ msc_last_block_written = p.no /\ End = p.addr + RealPayloadSize(p)
            /\ Sequential(b, p.no)
        BY <2>1 DEF PlaceInv, CallInv, Open, WellNumbered
      <3>2. b.no = p.no + 1
        BY <3>1, SequentialFacts
      <3>3. b.addr = p.addr + RealPayloadSize(p)
        BY <3>1, <3>2 DEF WellNumbered
      <3> QED BY <3>1, <3>3, BlockFacts DEF End
    <2> QED BY <2>1 DEF PlaceInv, End, AddressHonoured
  <1>5. WriteInv'
    BY DEF WriteInv
  <1> QED BY <1>1, <1>2, <1>3, <1>4, <1>5

(* Connecting leaves buffer and block alone. *)
LEMMA ConnectInv == ASSUME IInv, Connect PROVE IInv'
  <1> USE DEF IInv, Connect, msc
  <1>1. TypeOK'
    BY DEF TypeOK
  <1>2. SessionInv'
    BY DEF SessionInv, SessionMatchesCall
  <1>3. CallInv'
    BY DEF CallInv, Open, InHand
  <1>4. PlaceInv'
    BY Sizes DEF PlaceInv, End, AddressHonoured, SessionInv
  <1>5. WriteInv'
    BY DEF WriteInv
  <1> QED BY <1>1, <1>2, <1>3, <1>4, <1>5

(* A flush hands out an aligned range that ends at a boundary in the flash. *)
LEMMA FlushInv == ASSUME IInv, Flush PROVE IInv'
  <1> USE DEF IInv, Flush, msc
  <1>1. CASE last_written_pos = 0
    <2>1. TypeOK'
      BY <1>1 DEF TypeOK, CallInv
    <2>2. SessionInv'
      BY <1>1 DEF SessionInv, SessionMatchesCall, CallInv, TypeOK
    <2>3. CallInv'
      BY <1>1 DEF CallInv, Open, InHand, TypeOK
    <2>4. PlaceInv'
      BY <1>1 DEF PlaceInv, End, AddressHonoured, CallInv, TypeOK
    <2>5. WriteInv'
      BY <1>1 DEF WriteInv, CallInv, TypeOK
    <2> QED BY <2>1, <2>2, <2>3, <2>4, <2>5
  <1>2. CASE last_written_pos > 0
    <2> DEFINE pad == Pad(End)
    <2>1. End \in Nat /\ aligned_addr \in Nat /\ last_written_pos \in Nat
      BY Sizes DEF TypeOK, Addr, End
    <2>2. /\ pad \in Nat /\ (End + pad) % BlockSize = 0 /\ End + pad <= FlashSize
          /\ End + pad <= aligned_addr + BufferSize
      <3> DEFINE limit == aligned_addr + BufferSize
      <3>1. limit % BlockSize = 0 /\ limit \in Nat
        <4>1. limit \in Int /\ limit = aligned_addr + BufferSize /\ aligned_addr % BlockSize = 0
          BY <2>1, Sizes DEF PlaceInv
        <4> HIDE DEF limit
        <4>2. aligned_addr \in Int /\ BufferSize \in Int
          BY <2>1, Sizes
        <4>3. limit % BlockSize = BufferSize % BlockSize
          BY <4>1, <4>2, BlockSizeType, AlignedSum, Zenon
        <4>4. limit \in Nat
          BY <2>1, Sizes DEF limit
        <4> QED BY <4>3, <4>4, SizesAligned
      <3>2. End <= aligned_addr + BufferSize
        BY Sizes, <2>1 DEF TypeOK, End
      <3> QED BY <2>1, <3>1, <3>2, PadFacts, Sizes, SizesAligned DEF PlaceInv
    <2> HIDE DEF pad
    <2>3. /\ last_written_pos' = last_written_pos + pad /\ pc' = "erase" /\ written' = 0
          /\ s_flash' = [addr |-> aligned_addr, size |-> last_written_pos + pad, started |-> FALSE]
          /\ buffer' = ReadBack(last_written_pos, pad) /\ aligned_addr' = aligned_addr
      BY <1>2, <2>1 DEF FlashData, End, pad
    <2>4. last_written_pos + pad \in 0 .. BufferSize
      BY <2>1, <2>2, Sizes DEF End
    <2>5. buffer' \in [0 .. BufferSize - 1 -> Byte]
      <3>1. ASSUME NEW i \in 0 .. BufferSize - 1, i >= last_written_pos, i < last_written_pos + pad
            PROVE  aligned_addr + i \in Addr
        BY <2>1, <2>2, <3>1, Sizes DEF End, Addr
      <3> QED BY <2>3, <3>1 DEF ReadBack, TypeOK
    <2>6. TypeOK'
      BY <1>2, <2>3, <2>4, <2>5, Sizes DEF TypeOK
    <2>7. SessionInv'
      BY <1>2, <2>3 DEF SessionInv, SessionMatchesCall
    <2>8. CallInv'
      BY <1>2, <2>3 DEF CallInv, Open, InHand
    <2>9. PlaceInv'
      BY <1>2, <2>1, <2>2, <2>3 DEF PlaceInv, End, AddressHonoured
    <2>10. WriteInv'
      <3>1. (last_written_pos + pad) % BlockSize = 0
        <4> DEFINE size == last_written_pos + pad
                   stop == End + pad
        <4>1. /\ size \in Int /\ stop \in Int /\ stop = aligned_addr + size
              /\ aligned_addr % BlockSize = 0 /\ stop % BlockSize = 0
          BY <2>1, <2>2 DEF End, PlaceInv
        <4> HIDE DEF size, stop
        <4>2. aligned_addr \in Int
          BY <2>1
        <4>3. stop % BlockSize = size % BlockSize
          BY <4>1, <4>2, BlockSizeType, AlignedSum, Zenon
        <4> QED BY <4>1, <4>3 DEF size
      <3>2. aligned_addr + (last_written_pos + pad) <= FlashSize /\ 0 <= last_written_pos + pad
        BY <2>1, <2>2 DEF End
      <3> QED BY <1>2, <2>3, <3>1, <3>2 DEF WriteInv, CallInv
    <2> QED BY <2>6, <2>7, <2>8, <2>9, <2>10
  <1> QED BY <1>1, <1>2 DEF TypeOK

(* An empty buffer is begun at the boundary below the data. *)
LEMMA AlignBufferInv == ASSUME WellNumbered, IInv, AlignBuffer PROVE IInv'
  <1> USE DEF IInv, AlignBuffer, msc
  <1> DEFINE addr == p.addr + done
  <1>1. /\ p \in Blocks /\ InHand /\ done < RealPayloadSize(p) /\ done \in Nat
        /\ addr \in Addr /\ addr \in Nat /\ ret # "finish"
    <2>1. p \in Blocks /\ ret # "finish" /\ done \in Nat
      BY Sizes DEF CallInv, Open, TypeOK
    <2>2. InHand /\ done < RealPayloadSize(p)
      BY <2>1 DEF CallInv, InHand
    <2> QED BY <2>1, <2>2, BlockFacts, Sizes DEF Addr
  <1>2. /\ Base(addr) \in Nat /\ Base(addr) % BlockSize = 0
        /\ Base(addr) <= addr /\ addr < Base(addr) + BlockSize
    BY <1>1, BaseFacts
  <1>3. BlockSize <= BufferSize
    <2>1. 0 % BlockSize = 0 /\ 0 \in Int /\ BufferSize \in Int /\ 0 < BufferSize
      BY Sizes
    <2> QED BY <2>1, Sizes, SizesAligned, AlignedBelow
  <1>4. CASE last_written_pos = 0
    <2>1. /\ aligned_addr' = Base(addr) /\ last_written_pos' = addr - Base(addr)
          /\ buffer' = ReadBack(0, addr - Base(addr))
      BY <1>4
    <2>2. last_written_pos' \in 0 .. BufferSize /\ aligned_addr' \in Addr /\ End' = addr
      BY <1>1, <1>2, <1>3, <2>1, Sizes DEF Addr, End
    <2>3. buffer' \in [0 .. BufferSize - 1 -> Byte]
      <3>1. ASSUME NEW i \in 0 .. BufferSize - 1, i >= 0, i < addr - Base(addr)
            PROVE  aligned_addr' + i \in Addr
        BY <1>1, <1>2, <2>1, <3>1, Sizes DEF Addr
      <3> QED BY <2>1, <3>1 DEF ReadBack, TypeOK
    <2>4. TypeOK'
      BY <2>2, <2>3 DEF TypeOK
    <2>5. SessionInv'
      BY DEF SessionInv, SessionMatchesCall
    <2>6. CallInv'
      BY <1>1 DEF CallInv, Open, InHand
    <2>7. PlaceInv'
      BY <1>1, <1>2, <2>1, <2>2, Sizes DEF PlaceInv, AddressHonoured, End, Addr
    <2>8. WriteInv'
      BY DEF WriteInv
    <2> QED BY <2>4, <2>5, <2>6, <2>7, <2>8
  <1>5. CASE last_written_pos # 0
    <2>1. TypeOK'
      BY <1>5 DEF TypeOK
    <2>2. SessionInv'
      BY DEF SessionInv, SessionMatchesCall
    <2>3. CallInv'
      BY <1>1 DEF CallInv, Open, InHand
    <2>4. PlaceInv'
      BY <1>5 DEF PlaceInv, AddressHonoured, End, TypeOK
    <2>5. WriteInv'
      BY DEF WriteInv
    <2> QED BY <2>1, <2>2, <2>3, <2>4, <2>5
  <1> QED BY <1>4, <1>5

(* The data that fits ends the callback with the buffer at its end. *)
LEMMA AppendAllInv == ASSUME WellNumbered, IInv, AppendAll PROVE IInv'
  <1> DEFINE len == RealPayloadSize(p) - done
  <1>1. p \in Blocks /\ done < RealPayloadSize(p) /\ done \in Nat
    BY Sizes DEF IInv, AppendAll, CallInv, Open, InHand, TypeOK
  <1>8. AsInt(p.no) = p.no /\ p.no \in 0 .. NoLimit - 1
    BY <1>1, BlockFacts DEF WellNumbered, AsInt
  <1>2. /\ last_written_pos \in Nat /\ aligned_addr \in Nat
        /\ p.addr + done = End /\ len \in Nat /\ last_written_pos + len \in 0 .. BufferSize
        /\ p.addr \in Nat /\ RealPayloadSize(p) \in 1 .. DataSize
        /\ p.addr + RealPayloadSize(p) <= FlashSize
        /\ p.data \in [0 .. DataSize - 1 -> Byte]
    <2>1. /\ last_written_pos \in Nat /\ last_written_pos <= BufferSize /\ BufferSize \in Nat
          /\ aligned_addr \in Nat
      BY Sizes DEF IInv, TypeOK, Addr
    <2>2. p.addr + done = End
      BY DEF IInv, AppendAll, PlaceInv, AddressHonoured, End
    <2>3. /\ p.addr \in Nat /\ RealPayloadSize(p) \in 1 .. DataSize
          /\ p.addr + RealPayloadSize(p) <= FlashSize
          /\ p.data \in [0 .. DataSize - 1 -> Byte]
      BY <1>1, BlockFacts
    <2>4. len <= BufferSize - last_written_pos /\ len \in Nat
      BY <1>1, <2>3, Sizes DEF AppendAll
    <2> QED BY <2>1, <2>2, <2>3, <2>4
  <1>3. TypeOK'
    <2>1. ASSUME NEW i \in 0 .. BufferSize - 1, i >= last_written_pos, i < last_written_pos + len
          PROVE  p.data[done + i - last_written_pos] \in Byte
      <3> DEFINE j == done + i - last_written_pos
      <3>1. j \in 0 .. DataSize - 1
        <4>1. last_written_pos \in Nat /\ RealPayloadSize(p) \in 1 .. DataSize
          BY <1>2
        <4> QED BY <1>1, <2>1, <4>1, Sizes
      <3> HIDE DEF j
      <3>2. p.data[j] \in Byte
        BY <1>2, <3>1
      <3> QED BY <3>2 DEF j
    <2>2. buffer' \in [0 .. BufferSize - 1 -> Byte]
      BY <2>1 DEF IInv, AppendAll, Stored, TypeOK
    <2>3. msc_last_block_written' \in -1 .. NoLimit - 1
      BY <1>8, Sizes DEF AppendAll
    <2>4. last_written_pos' \in 0 .. BufferSize
      BY <1>2 DEF AppendAll
    <2> QED BY <2>2, <2>3, <2>4 DEF IInv, AppendAll, TypeOK
  <1>4. SessionInv'
    BY <1>8, Sizes DEF IInv, AppendAll, SessionInv, SessionMatchesCall
  <1>5. CallInv'
    BY <1>1 DEF IInv, AppendAll, CallInv, Open, InHand
  <1>6. PlaceInv'
    <2>1. End' = p.addr + RealPayloadSize(p)
      <3>1. End' = aligned_addr + (last_written_pos + len)
        BY DEF AppendAll, End
      <3>2. /\ last_written_pos \in Nat /\ aligned_addr \in Nat /\ p.addr \in Nat
            /\ RealPayloadSize(p) \in Nat /\ p.addr + done = aligned_addr + last_written_pos
        BY <1>2, Sizes DEF End
      <3> QED BY <1>1, <3>1, <3>2
    <2> QED BY <1>8, <1>2, <2>1 DEF IInv, AppendAll, PlaceInv, AddressHonoured
  <1>7. WriteInv'
    BY DEF AppendAll, WriteInv
  <1> QED BY <1>3, <1>4, <1>5, <1>6, <1>7 DEF IInv

(* A full buffer keeps its copy of the data in hand. *)
LEMMA AppendOverflowInv == ASSUME IInv, AppendOverflow PROVE IInv'
  <1> DEFINE room == BufferSize - last_written_pos
  <1>1. p \in Blocks /\ done < RealPayloadSize(p) /\ done \in Nat /\ ret # "finish"
    BY Sizes DEF IInv, AppendOverflow, CallInv, Open, TypeOK, InHand
  <1>2. /\ room \in Nat /\ room < RealPayloadSize(p) - done
        /\ p.addr + done = End /\ last_written_pos \in Nat /\ aligned_addr \in Nat
        /\ aligned_addr + BufferSize <= FlashSize
        /\ RealPayloadSize(p) \in 1 .. DataSize /\ p.data \in [0 .. DataSize - 1 -> Byte]
    <2>1. /\ last_written_pos \in Nat /\ last_written_pos <= BufferSize /\ BufferSize \in Nat
          /\ aligned_addr \in Nat
      BY Sizes DEF IInv, TypeOK, Addr
    <2>2. p.addr + done = End
      BY DEF IInv, AppendOverflow, PlaceInv, AddressHonoured, End
    <2>3. /\ p.addr \in Nat /\ RealPayloadSize(p) \in 1 .. DataSize
          /\ p.addr + RealPayloadSize(p) <= FlashSize
          /\ p.data \in [0 .. DataSize - 1 -> Byte]
      BY <1>1, BlockFacts
    <2>4. room < RealPayloadSize(p) - done
      BY <1>1, <2>1, <2>3 DEF AppendOverflow
    <2>5. aligned_addr + BufferSize <= FlashSize
      BY <1>1, <2>1, <2>2, <2>3, <2>4, Sizes DEF End
    <2> QED BY <2>1, <2>2, <2>3, <2>4, <2>5
  <1>3. /\ s_flash' = [addr |-> aligned_addr, size |-> BufferSize, started |-> FALSE]
        /\ written' = 0 /\ pc' = "erase" /\ buffer' = Stored(room)
    BY DEF AppendOverflow, FlashData
  <1>4. ASSUME NEW i \in last_written_pos .. BufferSize - 1
        PROVE  buffer'[i] = p.data[done + i - last_written_pos]
    BY <1>2, <1>3, Sizes DEF Stored
  <1>5. TypeOK'
    <2>1. ASSUME NEW i \in 0 .. BufferSize - 1, i >= last_written_pos, i < last_written_pos + room
          PROVE  p.data[done + i - last_written_pos] \in Byte
      <3> DEFINE j == done + i - last_written_pos
      <3>1. j \in 0 .. DataSize - 1
        BY <1>1, <1>2, <2>1, Sizes
      <3> HIDE DEF j
      <3>2. p.data[j] \in Byte
        BY <1>2, <3>1
      <3> QED BY <3>2 DEF j
    <2>2. buffer' \in [0 .. BufferSize - 1 -> Byte]
      BY <1>3, <2>1 DEF IInv, Stored, TypeOK
    <2> QED BY <1>3, <2>2, Sizes DEF IInv, AppendOverflow, TypeOK
  <1>6. SessionInv'
    BY <1>3 DEF IInv, AppendOverflow, SessionInv, SessionMatchesCall
  <1>7. CallInv'
    BY <1>1, <1>3 DEF IInv, AppendOverflow, CallInv, Open, InHand
  <1>8. PlaceInv'
    BY <1>2, <1>3 DEF IInv, AppendOverflow, PlaceInv, AddressHonoured, End
  <1>9. WriteInv'
    BY <1>2, <1>3, <1>4, Sizes, SizesAligned DEF AppendOverflow, WriteInv, OverflowInv, End
  <1> QED BY <1>5, <1>6, <1>7, <1>8, <1>9 DEF IInv

(* What the invariant says while the buffer is written out. *)
LEMMA WritingFacts ==
    ASSUME IInv, pc \in {"erase", "write"}
    PROVE  /\ aligned_addr \in Nat /\ s_flash.addr = aligned_addr /\ s_flash.size \in Nat
           /\ s_flash.size <= BufferSize /\ s_flash.size % BlockSize = 0
           /\ aligned_addr + s_flash.size <= FlashSize
           /\ written \in Nat /\ written <= s_flash.size
           /\ last_written_pos \in Nat /\ last_written_pos <= BufferSize
           /\ flash \in [Addr -> Byte] /\ buffer \in [0 .. BufferSize - 1 -> Byte]
           /\ p \in Blocks /\ ret \in {"overflow", "align", "finish"}
  BY Sizes DEF IInv, TypeOK, WriteInv, Addr, CallInv, Open

(* An erase leaves buffer and block alone. *)
LEMMA EraseInv == ASSUME IInv, Erase PROVE IInv'
  <1>1. flash' \in [Addr -> Byte]
    BY Sizes, WritingFacts DEF Erase
  <1>2. TypeOK'
    BY <1>1 DEF IInv, Erase, TypeOK, msc
  <1>3. SessionInv'
    BY DEF IInv, Erase, SessionInv, SessionMatchesCall, msc
  <1>4. CallInv'
    BY DEF IInv, Erase, CallInv, Open, InHand, msc
  <1>5. PlaceInv'
    BY DEF IInv, Erase, PlaceInv, AddressHonoured, End, msc
  <1>6. WriteInv'
    <2>1. s_flash'.addr = s_flash.addr /\ s_flash'.size = s_flash.size
      BY DEF IInv, Erase, TypeOK
    <2> QED BY <2>1, Sizes DEF IInv, Erase, WriteInv, OverflowInv, End, msc
  <1> QED BY <1>2, <1>3, <1>4, <1>5, <1>6 DEF IInv

(* Programming within the buffered range changes nothing else. *)
LEMMA ProgrammedFacts ==
    ASSUME IInv, pc = "write", NEW n \in Nat, written + n <= s_flash.size
    PROVE  /\ Programmed(n) \in [Addr -> Byte]
           /\ \A a \in Addr : a \notin aligned_addr .. aligned_addr + s_flash.size - 1
                                 => Programmed(n)[a] = flash[a]
           /\ \A i \in 0 .. written + n - 1 : Programmed(n)[aligned_addr + i] = buffer[i]
  <1>0. /\ aligned_addr \in Nat /\ s_flash.addr = aligned_addr /\ s_flash.size \in Nat
        /\ s_flash.size <= BufferSize /\ aligned_addr + s_flash.size <= FlashSize
        /\ written \in Nat
        /\ flash \in [Addr -> Byte] /\ buffer \in [0 .. BufferSize - 1 -> Byte]
    BY WritingFacts
  <1>1. ASSUME NEW a \in Addr
        PROVE  Programmed(n)[a] = IF a - aligned_addr >= written /\ a - aligned_addr < written + n
                                  THEN buffer[a - aligned_addr] ELSE flash[a]
    BY <1>0 DEF Programmed
  <1>2. ASSUME NEW a \in Addr, a - aligned_addr >= written, a - aligned_addr < written + n
        PROVE  a - aligned_addr \in 0 .. BufferSize - 1
    BY <1>0, <1>2, Sizes DEF Addr
  <1>3. Programmed(n) \in [Addr -> Byte]
    <2>1. ASSUME NEW a \in Addr PROVE Programmed(n)[a] \in Byte
      BY <1>0, <1>1, <1>2
    <2> QED BY <2>1 DEF Programmed
  <1>4. ASSUME NEW a \in Addr, a \notin aligned_addr .. aligned_addr + s_flash.size - 1
        PROVE  Programmed(n)[a] = flash[a]
    BY <1>0, <1>1, <1>4, Sizes DEF Addr
  <1>5. ASSUME NEW i \in 0 .. written + n - 1
        PROVE  Programmed(n)[aligned_addr + i] = buffer[i]
    <2> DEFINE a == aligned_addr + i
    <2>1. a \in Addr /\ a - aligned_addr = i /\ i \in Nat /\ i < written + n
      BY <1>0, Sizes DEF Addr
    <2> HIDE DEF a
    <2>2. CASE i < written
      <3>1. flash[aligned_addr + i] = buffer[i]
        BY <1>0, <2>1, <2>2 DEF IInv, WriteInv
      <3>2. Programmed(n)[a] = flash[a]
        BY <1>0, <1>1, <2>1, <2>2
      <3> QED BY <3>1, <3>2 DEF a
    <2>3. CASE i >= written
      <3>1. Programmed(n)[a] = buffer[i]
        BY <1>0, <1>1, <2>1, <2>3
      <3> QED BY <3>1 DEF a
    <2> QED BY <1>0, <2>1, <2>2, <2>3
  <1> QED BY <1>3, <1>4, <1>5

(* A chunk is not empty and within what is left. *)
LEMMA ChunkFacts ==
    ASSUME IInv, pc = "write"
    PROVE  Chunk \in Nat /\ written + Chunk <= s_flash.size
  <1>1. s_flash.size \in Nat /\ written \in Nat /\ written <= s_flash.size
    BY WritingFacts
  <1> QED BY <1>1, Sizes DEF Chunk

(* A chunk programmed is what the buffer holds. *)
LEMMA WriteChunkInv == ASSUME IInv, WriteChunk PROVE IInv'
  <1>1. /\ Chunk \in Nat /\ written + Chunk <= s_flash.size /\ flash' = Programmed(Chunk)
        /\ written' = written + Chunk /\ written \in Nat
    BY ChunkFacts, WritingFacts DEF WriteChunk
  <1>2. flash' \in [Addr -> Byte]
    BY <1>1, ProgrammedFacts DEF WriteChunk
  <1>3. written' \in 0 .. BufferSize /\ written' <= s_flash.size
    BY <1>1, WritingFacts, Sizes DEF WriteChunk
  <1>4. TypeOK'
    BY <1>2, <1>3 DEF IInv, WriteChunk, TypeOK, msc
  <1>5. SessionInv'
    BY DEF IInv, WriteChunk, SessionInv, SessionMatchesCall, msc
  <1>6. CallInv'
    BY DEF IInv, WriteChunk, CallInv, Open, InHand, msc
  <1>7. PlaceInv'
    BY DEF IInv, WriteChunk, PlaceInv, AddressHonoured, End, msc
  <1>8. WriteInv'
    <2>1. ASSUME NEW i \in 0 .. written' - 1
          PROVE  flash'[aligned_addr + i] = buffer[i]
      <3>1. i \in 0 .. written + Chunk - 1
        BY <1>1
      <3>2. Programmed(Chunk)[aligned_addr + i] = buffer[i]
        BY <1>1, <3>1, ProgrammedFacts DEF WriteChunk
      <3> QED BY <1>1, <3>2
    <2> QED BY <1>3, <2>1 DEF IInv, WriteChunk, WriteInv, OverflowInv, End, msc
  <1> QED BY <1>4, <1>5, <1>6, <1>7, <1>8 DEF IInv

(* With the buffer empty again, the rest of the data is in hand. *)
LEMMA WrittenOutInv == ASSUME IInv, WrittenOut PROVE IInv'
  <1>1. /\ p \in Blocks /\ ret \in {"overflow", "align", "finish"} /\ done \in Nat
        /\ last_written_pos \in Nat /\ last_written_pos <= BufferSize /\ pc = "write"
    BY WritingFacts, Sizes DEF WrittenOut, IInv, TypeOK
  <1>2. ret # "finish" => done' \in Nat /\ done' < RealPayloadSize(p)
    <2>1. CASE ret = "overflow"
      <3>1. /\ BufferSize - last_written_pos < RealPayloadSize(p) - done
            /\ done' = done + (BufferSize - last_written_pos)
        BY <1>1, <2>1 DEF IInv, WriteInv, OverflowInv, WrittenOut
      <3>2. RealPayloadSize(p) \in 1 .. DataSize
        BY <1>1, BlockFacts
      <3> QED BY <1>1, <3>1, <3>2, Sizes
    <2>2. CASE ret # "overflow"
      BY <1>1, <2>2 DEF WrittenOut, IInv, CallInv, InHand
    <2> QED BY <2>1, <2>2
  <1>3. done' \in 0 .. DataSize
    <2>1. CASE ret = "finish"
      BY <2>1 DEF WrittenOut, IInv, TypeOK
    <2>2. CASE ret # "finish"
      <3>1. RealPayloadSize(p) \in 1 .. DataSize
        BY <1>1, BlockFacts
      <3> QED BY <1>2, <2>2, <3>1, Sizes
    <2> QED BY <2>1, <2>2
  <1>4. TypeOK'
    BY <1>1, <1>3, Sizes DEF IInv, WrittenOut, TypeOK
  <1>5. SessionInv'
    BY DEF IInv, WrittenOut, SessionInv, SessionMatchesCall
  <1>6. CallInv'
    BY <1>1, <1>2 DEF IInv, WrittenOut, CallInv, Open, InHand
  <1>7. PlaceInv'
    <2>1. aligned_addr' = aligned_addr /\ last_written_pos' = 0 /\ aligned_addr \in Nat
          /\ End' <= FlashSize
      BY Sizes DEF WrittenOut, IInv, TypeOK, Addr, End
    <2> QED BY <2>1 DEF IInv, WrittenOut, PlaceInv, AddressHonoured
  <1>8. WriteInv'
    BY DEF WrittenOut, WriteInv
  <1> QED BY <1>4, <1>5, <1>6, <1>7, <1>8 DEF IInv

(* The end of a command starts a flush of whatever is buffered. *)
LEMMA CompleteInv == ASSUME IInv, Complete PROVE IInv'
  <1>1. TypeOK' /\ SessionInv' /\ WriteInv'
    BY DEF IInv, Complete, TypeOK, SessionInv, SessionMatchesCall, WriteInv, msc
  <1>2. CallInv' /\ PlaceInv'
    BY DEF IInv, Complete, CallInv, Open, InHand, PlaceInv, AddressHonoured, End, msc
  <1> QED BY <1>1, <1>2 DEF IInv

(* A session ends with an empty buffer. *)
LEMMA FinishInv == ASSUME IInv, Finish PROVE IInv'
  <1>1. 0 \in Addr /\ 0 \in 0 .. BufferSize /\ -1 \in -1 .. NoLimit - 1
    BY Sizes DEF Addr
  <1>2. TypeOK'
    BY <1>1 DEF IInv, Finish, TypeOK
  <1>3. SessionInv' /\ WriteInv'
    BY DEF IInv, Finish, SessionInv, SessionMatchesCall, WriteInv
  <1>4. CallInv' /\ PlaceInv'
    BY DEF IInv, Finish, CallInv, Open, InHand, PlaceInv, AddressHonoured, End
  <1> QED BY <1>2, <1>3, <1>4 DEF IInv

(* A crash leaves the flash as it was, or with a part of the chunk. *)
LEMMA RebootFlash ==
    ASSUME IInv, Reboot
    PROVE  /\ flash' \in [Addr -> Byte]
           /\ pc # "write" => flash' = flash
           /\ pc = "write" => \A a \in Addr :
                 a \notin aligned_addr .. aligned_addr + s_flash.size - 1 => flash'[a] = flash[a]
  <1>1. flash \in [Addr -> Byte]
    BY DEF IInv, TypeOK
  <1>2. CASE flash' = flash
    BY <1>1, <1>2
  <1>3. CASE flash' # flash
    <2>1. PICK n \in 1 .. Chunk : pc = "write" /\ flash' = Programmed(n)
      BY <1>3 DEF Reboot
    <2>2. n \in Nat /\ written + n <= s_flash.size
      BY <2>1, ChunkFacts, WritingFacts
    <2> QED BY <2>1, <2>2, ProgrammedFacts
  <1> QED BY <1>2, <1>3

(* A restart is as good as the first start. *)
LEMMA RebootInv == ASSUME IInv, Reboot PROVE IInv'
  <1>1. 0 \in Addr /\ 0 \in 0 .. BufferSize /\ 0 \in 0 .. DataSize /\ -1 \in -1 .. NoLimit - 1
    BY Sizes DEF Addr
  <1>2. TypeOK'
    BY <1>1, RebootFlash, Sizes DEF Reboot, TypeOK
  <1>3. SessionInv' /\ CallInv' /\ WriteInv'
    BY DEF Reboot, SessionInv, SessionMatchesCall, CallInv, Open, InHand, WriteInv
  <1>4. PlaceInv'
    <2>1. 0 % BlockSize = 0
      BY BlockSizeType
    <2> QED BY <2>1, Sizes DEF Reboot, PlaceInv, End, AddressHonoured
  <1> QED BY <1>2, <1>3, <1>4 DEF IInv

(* Every step keeps the invariant. *)
LEMMA NextInv == ASSUME WellNumbered, IInv, [Next]_vars PROVE IInv'
  <1>1. CASE \E b \in Blocks : Write10(b)
    BY <1>1, Write10Inv
  <1>2. CASE Complete
    BY <1>2, CompleteInv
  <1>3. CASE CallStep
    BY <1>3, ConnectInv, FlushInv, AlignBufferInv, AppendAllInv, AppendOverflowInv, EraseInv,
       WriteChunkInv, WrittenOutInv, FinishInv DEF CallStep
  <1>4. CASE ResetDone
    BY <1>4 DEF IInv, ResetDone, TypeOK, SessionInv, SessionMatchesCall, CallInv, Open, InHand,
       PlaceInv, AddressHonoured, End, WriteInv, OverflowInv, msc, call
  <1>5. CASE Reboot
    BY <1>5, RebootInv
  <1>6. CASE UNCHANGED vars
    BY <1>6 DEF IInv, TypeOK, SessionInv, SessionMatchesCall, CallInv, Open, InHand,
       PlaceInv, AddressHonoured, End, WriteInv, OverflowInv, vars, msc, call
  <1> QED BY <1>1, <1>2, <1>3, <1>4, <1>5, <1>6 DEF Next

(* The invariant holds in every reachable state. *)
THEOREM Invariant == ASSUME WellNumbered PROVE Spec => []IInv
  <1>1. Init => IInv
    BY InitInv
  <1>2. IInv /\ [Next]_vars => IInv'
    BY NextInv
  <1> QED BY <1>1, <1>2, PTL DEF Spec

(* The variables keep their types; in particular no index leaves the       *)
(* 16 KB buffer and no read leaves the flash.                              *)
THEOREM TypeCorrect == ASSUME WellNumbered PROVE Spec => []TypeOK
  <1>1. IInv => TypeOK
    BY DEF IInv
  <1> QED BY <1>1, Invariant, PTL

(* An erase wipes nothing that is not in the buffer: the buffer begins at  *)
(* a block boundary and is padded to the next one before it is written.    *)
THEOREM EraseSafe == ASSUME WellNumbered PROVE Spec => []ErasesOnlyTheBuffered
  <1>1. IInv => ErasesOnlyTheBuffered
    <2> SUFFICES ASSUME IInv, pc = "erase",
                        NEW a \in EraseRange(s_flash.addr, s_flash.size)
                 PROVE  Buffered(a)
      BY DEF ErasesOnlyTheBuffered
    <2>1. /\ aligned_addr \in Nat /\ s_flash.addr = aligned_addr /\ s_flash.size \in Nat
          /\ s_flash.size % BlockSize = 0 /\ aligned_addr % BlockSize = 0
      BY WritingFacts DEF IInv, PlaceInv
    <2>2. a \in aligned_addr .. aligned_addr + s_flash.size - 1
      BY <2>1, EraseAligned
    <2> QED BY <2>2 DEF Buffered, Held
  <1> QED BY <1>1, Invariant, PTL

(* handle_data appends every byte at the place its block's address names,  *)
(* although it never compares the two.                                     *)
THEOREM AddressSafe == ASSUME WellNumbered PROVE Spec => []AddressHonoured
  <1>1. IInv => AddressHonoured
    BY DEF IInv, PlaceInv
  <1> QED BY <1>1, Invariant, PTL

(* No session function is refused, and no session outlives its command.    *)
THEOREM SessionSafe == ASSUME WellNumbered PROVE Spec => []SessionMatchesCall
  <1>1. IInv => SessionMatchesCall
    BY DEF IInv, SessionInv
  <1> QED BY <1>1, Invariant, PTL

(* The target is reset with an empty buffer.                               *)
THEOREM FlushSafe == ASSUME WellNumbered PROVE Spec => []FlushedBeforeReset
  <1>1. IInv => FlushedBeforeReset
    BY DEF IInv, SessionInv, FlushedBeforeReset
  <1> QED BY <1>1, Invariant, PTL

-----------------------------------------------------------------------------
(* The flasher implements FlashImage. *)

Payload(b) == [addr |-> b.addr, len |-> RealPayloadSize(b), data |-> b.data]

Ahead == p.addr + done .. p.addr + RealPayloadSize(p) - 1

(* The view at one address. *)
LEMMA ViewFacts ==
    ASSUME NEW a \in Addr
    PROVE  View[a] = IF InHand /\ a \in Ahead THEN p.data[a - p.addr]
                     ELSE IF Buffered(a) THEN buffer[a - aligned_addr]
                     ELSE flash[a]
  BY DEF View, Ahead

(* Two views are equal when they agree on every address. *)
LEMMA SameView ==
    ASSUME \A a \in Addr : View'[a] = View[a]
    PROVE  View' = View
  BY DEF View

(* The view at one address after a step. *)
LEMMA NextFacts ==
    ASSUME NEW a \in Addr
    PROVE  View'[a] = IF InHand' /\ a \in Ahead' THEN p'.data[a - p'.addr]
                      ELSE IF Buffered(a)' THEN buffer'[a - aligned_addr']
                      ELSE flash'[a]
  BY DEF View, Ahead

(* At start the view is the flash. *)
LEMMA InitImage == ASSUME Init PROVE Image!Init
  <1>1. flash \in [Addr -> Byte]
    BY BlockAssumption DEF Init
  <1>2. ASSUME NEW a \in Addr PROVE View[a] = flash[a]
    BY ViewFacts DEF Init, InHand, Buffered, Held, Addr
  <1>3. View \in [Addr -> Byte]
    BY <1>1, <1>2 DEF View
  <1> QED BY <1>3 DEF Init, Image!Init, Open, Image!Addr, Addr

(* Accepting a block lays its payload over the view. *)
LEMMA Write10Image ==
    ASSUME IInv, NEW b \in Blocks, Write10(b)
    PROVE  Image!Write(Payload(b))
  <1>1. /\ b.addr \in Nat /\ RealPayloadSize(b) \in 1 .. DataSize
    BY BlockFacts
  <1>2. ~InHand /\ InHand' /\ p' = b /\ done' = 0 /\ Open'
    BY DEF Write10, InHand, Open
  <1>3. ASSUME NEW a \in Addr
        PROVE  View'[a] = IF a \in Image!Span(Payload(b)) THEN Payload(b).data[a - Payload(b).addr]
                          ELSE View[a]
    <2>1. Ahead' = Image!Span(Payload(b))
      BY <1>1, <1>2 DEF Ahead, Image!Span, Payload
    <2>2. Buffered(a)' = Buffered(a)
      BY DEF Write10, Buffered, Held, msc
    <2> QED BY <1>2, <2>1, <2>2, ViewFacts, NextFacts DEF Payload, Write10, msc
  <1> QED BY <1>2, <1>3 DEF Image!Write, Image!Overlay, Image!Addr, Addr, View

(* A step that keeps the view and the session is a stutter of FlashImage. *)
LEMMA StutterImage ==
    ASSUME View' = View, Open' = Open
    PROVE  [Image!Next]_(Image!vars)
  BY DEF Image!vars

(* Padding the buffer from the flash keeps the view. *)
LEMMA FlushImage == ASSUME IInv, Flush PROVE View' = View
  <1>1. InHand' = InHand /\ Ahead' = Ahead /\ p' = p /\ flash' = flash
        /\ aligned_addr' = aligned_addr
    <2>1. /\ ret' = ret /\ p' = p /\ done' = done /\ flash' = flash /\ pc = "flush"
          /\ aligned_addr' = aligned_addr /\ ret \in {"align", "finish"}
      BY DEF Flush, IInv, CallInv, TypeOK
    <2>2. pc' \in {ret, "erase"}
      BY DEF Flush, FlashData
    <2> QED BY <2>1, <2>2 DEF InHand, Ahead
  <1>2. CASE last_written_pos = 0
    <2>1. Held = 0 /\ Held' = 0 /\ buffer' = buffer
      BY <1>2 DEF Flush, Held, IInv, TypeOK, CallInv
    <2> QED BY <1>1, <2>1, ViewFacts, NextFacts, SameView DEF Buffered
  <1>3. CASE last_written_pos # 0
    <2> DEFINE pad == Pad(aligned_addr + last_written_pos)
    <2>1. aligned_addr \in Nat /\ last_written_pos \in Nat /\ last_written_pos <= BufferSize
      BY Sizes DEF IInv, TypeOK, Addr
    <2>2. pad \in Nat
      BY <2>1, PadFacts
    <2>3. last_written_pos + pad <= BufferSize
      BY <2>1, <2>2, <1>3, FlushInv, Sizes DEF IInv, TypeOK, Flush
    <2>4. Held = last_written_pos /\ Held' = last_written_pos + pad
      BY <1>3 DEF Flush, FlashData, Held
    <2>5. buffer' = ReadBack(last_written_pos, pad)
      BY <1>3 DEF Flush
    <2> HIDE DEF pad
    <2>6. ASSUME NEW a \in Addr
          PROVE  (IF Buffered(a)' THEN buffer'[a - aligned_addr'] ELSE flash'[a])
                 = (IF Buffered(a) THEN buffer[a - aligned_addr] ELSE flash[a])
      <3> DEFINE i == a - aligned_addr
      <3>1. /\ i \in Int /\ a = aligned_addr + i
            /\ Buffered(a) <=> i \in 0 .. last_written_pos - 1
            /\ Buffered(a)' <=> i \in 0 .. last_written_pos + pad - 1
        BY <1>1, <2>1, <2>2, <2>4, Sizes DEF Buffered, Addr
      <3> HIDE DEF i
      <3>2. i \in 0 .. last_written_pos + pad - 1 =>
              buffer'[i] = IF i >= last_written_pos THEN flash[aligned_addr + i] ELSE buffer[i]
        BY <1>1, <2>1, <2>2, <2>3, <2>5, Sizes DEF ReadBack
      <3>3. CASE i \in 0 .. last_written_pos - 1
        BY <1>1, <2>1, <2>2, <3>1, <3>2, <3>3 DEF i
      <3>4. CASE i \notin 0 .. last_written_pos - 1
        BY <1>1, <2>1, <2>2, <3>1, <3>2, <3>4 DEF i
      <3> QED BY <3>3, <3>4
    <2>7. ASSUME NEW a \in Addr PROVE View'[a] = View[a]
      BY <1>1, <2>6, ViewFacts, NextFacts
    <2> QED BY <2>7, SameView
  <1> QED BY <1>2, <1>3

(* Beginning the buffer with bytes of the flash keeps the view. *)
LEMMA AlignBufferImage == ASSUME WellNumbered, IInv, AlignBuffer PROVE View' = View
  <1>1. InHand' = InHand /\ Ahead' = Ahead /\ p' = p /\ flash' = flash
    BY DEF AlignBuffer, InHand, Ahead
  <1>2. CASE last_written_pos # 0
    <2>1. Held' = Held /\ aligned_addr' = aligned_addr /\ buffer' = buffer
      BY <1>2 DEF AlignBuffer, Held
    <2> QED BY <1>1, <2>1, ViewFacts, NextFacts, SameView DEF Buffered
  <1>3. CASE last_written_pos = 0
    <2> DEFINE n == last_written_pos'
               from == aligned_addr'
    <2>1. /\ n \in Nat /\ n <= BufferSize /\ aligned_addr' \in Nat
      BY AlignBufferInv, Sizes DEF IInv, TypeOK, Addr
    <2>2. Held = 0 /\ Held' = n /\ buffer' = ReadBack(0, n)
      BY <1>3 DEF AlignBuffer, Held
    <2> HIDE DEF n
    <2>3. ASSUME NEW a \in Addr, Buffered(a)' PROVE buffer'[a - aligned_addr'] = flash[a]
      <3> DEFINE i == a - aligned_addr'
      <3>1. i \in 0 .. n - 1 /\ a = aligned_addr' + i
        <4>1. a \in from .. from + n - 1
          BY <2>2, <2>3 DEF Buffered
        <4>2. n \in Nat /\ from \in Nat /\ a \in Nat
          BY <2>1, Sizes DEF Addr
        <4> HIDE DEF from
        <4>3. a - from \in 0 .. n - 1 /\ a = from + (a - from)
          BY <4>1, <4>2
        <4> QED BY <4>3 DEF from
      <3> HIDE DEF i
      <3>2. buffer'[i] = flash[aligned_addr' + i]
        BY <2>1, <2>2, <3>1, Sizes DEF ReadBack
      <3> QED BY <3>1, <3>2 DEF i
    <2>4. ASSUME NEW a \in Addr PROVE ~Buffered(a)
      BY <2>2, Sizes DEF Buffered, IInv, TypeOK, Addr
    <2>5. ASSUME NEW a \in Addr PROVE View'[a] = View[a]
      BY <1>1, <2>3, <2>4, ViewFacts, NextFacts
    <2> QED BY <2>5, SameView
  <1> QED BY <1>2, <1>3

(* The bytes of the block in hand that one append moves into the buffer.   *)
LEMMA StoredFacts ==
    ASSUME IInv, pc = "copy", NEW n \in Nat, n <= RealPayloadSize(p) - done,
           n <= BufferSize - last_written_pos
    PROVE  \A a \in Addr :
             /\ a \in End .. End + n - 1 =>
                  a \in Ahead /\ Stored(n)[a - aligned_addr] = p.data[a - p.addr]
             /\ a \in aligned_addr .. End - 1 => Stored(n)[a - aligned_addr] = buffer[a - aligned_addr]
  <1>1. /\ aligned_addr \in Nat /\ last_written_pos \in Nat /\ done \in Nat
        /\ p \in Blocks /\ p.addr + done = aligned_addr + last_written_pos
    BY Sizes DEF IInv, TypeOK, Addr, CallInv, Open, PlaceInv, AddressHonoured, End
  <1>2. p.addr \in Nat /\ RealPayloadSize(p) \in 1 .. DataSize
    BY <1>1, BlockFacts
  <1> SUFFICES ASSUME NEW a \in Addr
               PROVE /\ a \in End .. End + n - 1 =>
                          a \in Ahead /\ Stored(n)[a - aligned_addr] = p.data[a - p.addr]
                     /\ a \in aligned_addr .. End - 1 =>
                          Stored(n)[a - aligned_addr] = buffer[a - aligned_addr]
    OBVIOUS
  <1> DEFINE i == a - aligned_addr
  <1>3. ASSUME a \in End .. End + n - 1
        PROVE  a \in Ahead /\ Stored(n)[i] = p.data[a - p.addr]
    <2>1. /\ i \in 0 .. BufferSize - 1 /\ i >= last_written_pos /\ i < last_written_pos + n
          /\ done + i - last_written_pos = a - p.addr
      BY <1>1, <1>2, <1>3, Sizes DEF Addr, End
    <2>2. a \in Ahead
      BY <1>1, <1>2, <1>3, Sizes DEF Addr, End, Ahead
    <2> HIDE DEF i
    <2>3. Stored(n)[i] = p.data[done + i - last_written_pos]
      BY <2>1 DEF Stored
    <2> QED BY <2>1, <2>2, <2>3
  <1>4. ASSUME a \in aligned_addr .. End - 1 PROVE Stored(n)[i] = buffer[i]
    <2>1. i \in 0 .. BufferSize - 1 /\ ~(i >= last_written_pos)
      BY <1>1, <1>4, Sizes DEF Addr, End, IInv, TypeOK
    <2> HIDE DEF i
    <2> QED BY <2>1 DEF Stored
  <1> QED BY <1>3, <1>4

(* Moving the data in hand to the buffer keeps the view. *)
LEMMA AppendAllImage == ASSUME IInv, AppendAll PROVE View' = View
  <1> DEFINE len == RealPayloadSize(p) - done
  <1>1. /\ aligned_addr \in Nat /\ last_written_pos \in Nat /\ done \in Nat
        /\ p \in Blocks /\ p.addr + done = aligned_addr + last_written_pos
        /\ InHand /\ done < RealPayloadSize(p)
    BY Sizes DEF AppendAll, IInv, TypeOK, Addr, CallInv, Open, PlaceInv, AddressHonoured, End, InHand
  <1>2. p.addr \in Nat /\ RealPayloadSize(p) \in 1 .. DataSize
    BY <1>1, BlockFacts
  <1>3. len \in Nat /\ len <= BufferSize - last_written_pos
    BY <1>1, <1>2, Sizes DEF AppendAll
  <1>4. /\ ~InHand' /\ Held = last_written_pos /\ Held' = last_written_pos + len
        /\ aligned_addr' = aligned_addr /\ buffer' = Stored(len) /\ flash' = flash
    BY DEF AppendAll, InHand, Held
  <1>5. ASSUME NEW a \in Addr
        PROVE  /\ Buffered(a) <=> a \in aligned_addr .. End - 1
               /\ a \in Ahead <=> a \in End .. End + len - 1
               /\ Buffered(a)' <=> a \in aligned_addr .. End + len - 1
    BY <1>1, <1>2, <1>3, <1>4, Sizes DEF Buffered, Ahead, End, Addr
  <1>6. ASSUME NEW a \in Addr
        PROVE  /\ a \in End .. End + len - 1 => buffer'[a - aligned_addr] = p.data[a - p.addr]
               /\ a \in aligned_addr .. End - 1 => buffer'[a - aligned_addr] = buffer[a - aligned_addr]
    BY <1>3, <1>4, StoredFacts DEF AppendAll
  <1>7. ASSUME NEW a \in Addr PROVE View'[a] = View[a]
    <2>1. End \in Nat /\ a \in Nat /\ aligned_addr <= End
      BY <1>1, Sizes DEF End, Addr
    <2>2. CASE a \in End .. End + len - 1
      BY <1>1, <1>3, <1>4, <1>5, <1>6, <2>1, <2>2, ViewFacts, NextFacts
    <2>3. CASE a \in aligned_addr .. End - 1
      BY <1>1, <1>3, <1>4, <1>5, <1>6, <2>1, <2>3, ViewFacts, NextFacts
    <2>4. CASE a \notin aligned_addr .. End + len - 1
      BY <1>1, <1>3, <1>4, <1>5, <2>1, <2>4, ViewFacts, NextFacts
    <2> QED BY <1>3, <2>1, <2>2, <2>3, <2>4
  <1> QED BY <1>7, SameView

(* Moving a part of it keeps the view. *)
LEMMA AppendOverflowImage == ASSUME IInv, AppendOverflow PROVE View' = View
  <1> DEFINE room == BufferSize - last_written_pos
  <1>1. /\ aligned_addr \in Nat /\ last_written_pos \in Nat /\ done \in Nat
        /\ last_written_pos <= BufferSize
        /\ p \in Blocks /\ p.addr + done = aligned_addr + last_written_pos /\ ret # "finish"
    BY Sizes DEF AppendOverflow, IInv, TypeOK, Addr, CallInv, Open, PlaceInv, AddressHonoured, End
  <1>2. room \in Nat /\ room <= RealPayloadSize(p) - done
    <2>1. RealPayloadSize(p) \in 1 .. DataSize
      BY <1>1, BlockFacts
    <2> QED BY <1>1, <2>1, Sizes DEF AppendOverflow
  <1>3. /\ InHand /\ InHand' /\ Ahead' = Ahead /\ p' = p /\ flash' = flash
        /\ Held = last_written_pos /\ Held' = BufferSize
        /\ aligned_addr' = aligned_addr /\ buffer' = Stored(room)
    BY <1>1 DEF AppendOverflow, FlashData, InHand, Ahead, Held
  <1>4. ASSUME NEW a \in Addr
        PROVE  /\ Buffered(a) <=> a \in aligned_addr .. End - 1
               /\ Buffered(a)' <=> a \in aligned_addr .. End + room - 1
    BY <1>1, <1>3, Sizes DEF Buffered, End, Addr
  <1>5. ASSUME NEW a \in Addr
        PROVE  /\ a \in End .. End + room - 1 => a \in Ahead
               /\ a \in aligned_addr .. End - 1 => buffer'[a - aligned_addr] = buffer[a - aligned_addr]
    BY <1>2, <1>3, StoredFacts DEF AppendOverflow
  <1>6. ASSUME NEW a \in Addr PROVE View'[a] = View[a]
    <2>1. End \in Nat /\ a \in Nat /\ aligned_addr <= End
      BY <1>1, Sizes DEF End, Addr
    <2>2. CASE a \in Ahead
      BY <1>3, <2>2, ViewFacts, NextFacts
    <2>3. CASE a \notin Ahead /\ a \in aligned_addr .. End - 1
      BY <1>1, <1>2, <1>3, <1>4, <1>5, <2>1, <2>3, ViewFacts, NextFacts
    <2>4. CASE a \notin Ahead /\ a \notin aligned_addr .. End - 1
      <3>1. a \notin aligned_addr .. End + room - 1
        BY <1>1, <1>2, <1>5, <2>1, <2>4
      <3> QED BY <1>3, <1>4, <2>4, <3>1, ViewFacts, NextFacts
    <2> QED BY <2>2, <2>3, <2>4
  <1> QED BY <1>6, SameView

(* An erase stays below the buffered bytes, so the view is kept. *)
LEMMA EraseImage == ASSUME IInv, Erase PROVE View' = View
  <1>1. /\ aligned_addr \in Nat /\ s_flash.addr = aligned_addr /\ s_flash.size \in Nat
        /\ s_flash.size % BlockSize = 0 /\ aligned_addr % BlockSize = 0
    BY WritingFacts DEF Erase, IInv, PlaceInv
  <1>2. /\ InHand' = InHand /\ Ahead' = Ahead /\ p' = p /\ buffer' = buffer
        /\ aligned_addr' = aligned_addr /\ Held = s_flash.size /\ Held' = s_flash.size
    BY DEF Erase, InHand, Ahead, Held, msc, IInv, TypeOK
  <1>3. ASSUME NEW a \in Addr, ~Buffered(a) PROVE flash'[a] = flash[a]
    <2>1. a \notin EraseRange(s_flash.addr, s_flash.size)
      BY <1>1, <1>2, <1>3, EraseAligned DEF Buffered
    <2> QED BY <2>1 DEF Erase
  <1>4. ASSUME NEW a \in Addr PROVE Buffered(a)' <=> Buffered(a)
    BY <1>2 DEF Buffered
  <1>5. ASSUME NEW a \in Addr PROVE View'[a] = View[a]
    BY <1>2, <1>3, <1>4, ViewFacts, NextFacts
  <1> QED BY <1>5, SameView

(* So does programming a chunk. *)
LEMMA WriteChunkImage == ASSUME IInv, WriteChunk PROVE View' = View
  <1>1. /\ InHand' = InHand /\ Ahead' = Ahead /\ p' = p /\ buffer' = buffer
        /\ aligned_addr' = aligned_addr /\ Held = s_flash.size /\ Held' = s_flash.size
        /\ flash' = Programmed(Chunk) /\ pc = "write"
    BY DEF WriteChunk, InHand, Ahead, Held, msc
  <1>2. ASSUME NEW a \in Addr, ~Buffered(a) PROVE flash'[a] = flash[a]
    <2>1. Chunk \in Nat /\ written + Chunk <= s_flash.size
      BY <1>1, ChunkFacts
    <2>2. a \notin aligned_addr .. aligned_addr + s_flash.size - 1
      BY <1>1, <1>2 DEF Buffered
    <2> QED BY <1>1, <2>1, <2>2, ProgrammedFacts
  <1>3. ASSUME NEW a \in Addr PROVE Buffered(a)' <=> Buffered(a)
    BY <1>1 DEF Buffered
  <1>4. ASSUME NEW a \in Addr PROVE View'[a] = View[a]
    BY <1>1, <1>2, <1>3, ViewFacts, NextFacts
  <1> QED BY <1>4, SameView

(* What leaves the buffer is in the flash by then. *)
LEMMA WrittenOutImage == ASSUME IInv, WrittenOut PROVE View' = View
  <1>1. /\ aligned_addr \in Nat /\ s_flash.size \in Nat /\ written = s_flash.size
        /\ last_written_pos \in Nat /\ last_written_pos <= BufferSize
        /\ p \in Blocks /\ ret \in {"overflow", "align", "finish"} /\ pc = "write"
        /\ aligned_addr' = aligned_addr /\ p' = p /\ flash' = flash /\ buffer' = buffer
    BY WritingFacts DEF WrittenOut
  <1>2. /\ InHand' = InHand
        /\ InHand <=> ret # "finish"
        /\ Held = s_flash.size /\ Held' = 0
    BY <1>1 DEF WrittenOut, InHand, Held
  <1>3. ASSUME NEW a \in Addr PROVE ~Buffered(a)'
    BY <1>1, <1>2, Sizes DEF Buffered, Addr
  <1>4. ASSUME NEW a \in Addr, Buffered(a)
        PROVE  /\ a - aligned_addr \in 0 .. s_flash.size - 1
               /\ flash[a] = buffer[a - aligned_addr]
    <2> DEFINE i == a - aligned_addr
    <2>1. i \in 0 .. s_flash.size - 1 /\ a = aligned_addr + i
      BY <1>1, <1>2, <1>4, Sizes DEF Buffered, Addr
    <2> HIDE DEF i
    <2>2. flash[aligned_addr + i] = buffer[i]
      BY <1>1, <2>1 DEF IInv, WriteInv
    <2> QED BY <2>1, <2>2 DEF i
  <1>5. CASE ret # "overflow"
    <2>1. Ahead' = Ahead
      BY <1>5 DEF WrittenOut, Ahead
    <2>2. ASSUME NEW a \in Addr PROVE View'[a] = View[a]
      BY <1>1, <1>2, <1>3, <1>4, <2>1, ViewFacts, NextFacts
    <2> QED BY <2>2, SameView
  <1>6. CASE ret = "overflow"
    <2> DEFINE room == BufferSize - last_written_pos
    <2>1. /\ s_flash.size = BufferSize /\ p.addr + done = aligned_addr + last_written_pos
          /\ room < RealPayloadSize(p) - done /\ done' = done + room
          /\ \A i \in last_written_pos .. BufferSize - 1 :
                buffer[i] = p.data[done + i - last_written_pos]
      BY <1>1, <1>6 DEF WrittenOut, IInv, WriteInv, OverflowInv, End
    <2>2. /\ done \in Nat /\ p.addr \in Nat /\ RealPayloadSize(p) \in 1 .. DataSize
      BY <1>1, BlockFacts, Sizes DEF IInv, TypeOK
    <2>3. ASSUME NEW a \in Addr, a \in Ahead, a \notin Ahead'
          PROVE  Buffered(a) /\ buffer[a - aligned_addr] = p.data[a - p.addr]
      <3>1. a \in p.addr + done .. p.addr + done + room - 1
        BY <1>1, <2>1, <2>2, <2>3, Sizes DEF Ahead, Addr
      <3> DEFINE i == a - aligned_addr
      <3>2. i \in last_written_pos .. BufferSize - 1 /\ done + i - last_written_pos = a - p.addr
        BY <1>1, <2>1, <2>2, <3>1, Sizes DEF Addr
      <3>3. Buffered(a)
        BY <1>1, <1>2, <2>1, <2>2, <3>1, Sizes DEF Buffered, Addr
      <3> HIDE DEF i
      <3>4. buffer[i] = p.data[a - p.addr]
        BY <2>1, <3>2
      <3> QED BY <3>3, <3>4 DEF i
    <2>4. ASSUME NEW a \in Addr, a \in Ahead' PROVE a \in Ahead
      BY <1>1, <2>1, <2>2, <2>4, Sizes DEF Ahead, Addr
    <2>5. ASSUME NEW a \in Addr PROVE View'[a] = View[a]
      <3>1. InHand /\ InHand'
        BY <1>2, <1>6
      <3>2. CASE a \in Ahead'
        BY <1>1, <2>4, <3>1, <3>2, ViewFacts, NextFacts
      <3>3. CASE a \notin Ahead' /\ a \in Ahead
        BY <1>1, <1>3, <1>4, <2>3, <3>1, <3>3, ViewFacts, NextFacts
      <3>4. CASE a \notin Ahead' /\ a \notin Ahead
        BY <1>1, <1>3, <1>4, <3>1, <3>4, ViewFacts, NextFacts
      <3> QED BY <3>2, <3>3, <3>4
    <2> QED BY <2>5, SameView
  <1> QED BY <1>5, <1>6

(* Connecting keeps the view. *)
LEMMA ConnectImage == ASSUME Connect PROVE View' = View
  <1>1. /\ InHand' = InHand /\ Ahead' = Ahead /\ p' = p /\ buffer' = buffer /\ flash' = flash
        /\ aligned_addr' = aligned_addr /\ Held' = Held
    BY DEF Connect, InHand, Ahead, Held, msc
  <1> QED BY <1>1, ViewFacts, NextFacts, SameView DEF Buffered

(* So does the beginning of the last flush. *)
LEMMA CompleteImage == ASSUME IInv, Complete PROVE View' = View
  <1>1. /\ ~InHand /\ ~InHand' /\ buffer' = buffer /\ flash' = flash
        /\ aligned_addr' = aligned_addr /\ Held' = Held
    BY DEF Complete, InHand, Held, msc
  <1> QED BY <1>1, ViewFacts, NextFacts, SameView DEF Buffered

(* Outside a session the view is the flash itself. *)
LEMMA NothingBuffered ==
    ASSUME IInv, pc \in {"idle", "finish"}, last_written_pos = 0
    PROVE  \A a \in Addr : View[a] = flash[a]
  <1>1. ASSUME NEW a \in Addr PROVE ~Buffered(a)
    BY Sizes DEF Buffered, Held, Addr, IInv, TypeOK
  <1> QED BY <1>1, ViewFacts DEF InHand

(* The end of a session closes the image. *)
LEMMA FinishImage == ASSUME IInv, Finish PROVE Image!Close
  <1>1. last_written_pos = 0 /\ last_written_pos' = 0 /\ flash' = flash
    BY DEF Finish, IInv, SessionInv
  <1>2. ASSUME NEW a \in Addr PROVE View[a] = flash[a]
    BY <1>1, NothingBuffered DEF Finish
  <1>3. ASSUME NEW a \in Addr PROVE View'[a] = flash'[a]
    <2>1. ~Buffered(a)' /\ ~InHand'
      BY <1>1, Sizes DEF Finish, Buffered, Held, Addr, InHand, IInv, TypeOK
    <2> QED BY <2>1, NextFacts
  <1>4. View' = View
    BY <1>1, <1>2, <1>3, SameView
  <1> QED BY <1>4 DEF Finish, Image!Close, Open

(* A crash loses no more than FlashImage!Lose allows. *)
LEMMA RebootImage == ASSUME IInv, Reboot PROVE [Image!Next]_(Image!vars)
  <1>1. ASSUME NEW a \in Addr PROVE View'[a] = flash'[a]
    <2>1. ~Buffered(a)' /\ ~InHand'
      BY Sizes DEF Reboot, Buffered, Held, Addr, InHand
    <2> QED BY <2>1, NextFacts
  <1>2. ~Open'
    BY DEF Reboot, Open
  <1>3. CASE ~Open
    <2>1. pc = "idle" /\ last_written_pos = 0 /\ flash' = flash
      BY <1>3, RebootFlash DEF Open, IInv, SessionInv, SessionMatchesCall
    <2>2. View' = View
      BY <1>1, <2>1, NothingBuffered, SameView
    <2> QED BY <1>2, <1>3, <2>2, StutterImage DEF Open
  <1>4. CASE Open
    <2>1. /\ p \in Blocks /\ aligned_addr \in Addr /\ aligned_addr % BlockSize = 0
          /\ done \in Nat /\ last_written_pos \in Nat /\ last_written_pos <= BufferSize
          /\ aligned_addr \in Nat
      BY <1>4, Sizes DEF IInv, CallInv, TypeOK, PlaceInv, Addr
    <2>2. p.addr \in Nat /\ RealPayloadSize(p) \in 1 .. DataSize
      BY <2>1, BlockFacts
    <2>3. View' \in [Addr -> Byte]
      BY <1>1, RebootFlash DEF View
    <2>4. Held \in Nat /\ Held <= BufferSize
      BY <2>1, WritingFacts DEF Held
    <2>5. ASSUME NEW a \in Addr, a \notin aligned_addr .. aligned_addr + BufferSize - 1,
                 a \notin Image!Span(Payload(p))
          PROVE  View'[a] = View[a]
      <3>1. ~Buffered(a)
        BY <2>1, <2>4, <2>5, Sizes DEF Buffered, Addr
      <3>2. a \notin Ahead
        BY <2>1, <2>2, <2>5, Sizes DEF Ahead, Image!Span, Payload, Addr
      <3>3. View[a] = flash[a]
        BY <3>1, <3>2, ViewFacts
      <3>4. flash'[a] = flash[a]
        BY <3>1, RebootFlash DEF Buffered, Held
      <3> QED BY <1>1, <3>3, <3>4
    <2>6. Image!Lose(aligned_addr, Payload(p))
      BY <1>2, <1>4, <2>3, <2>5 DEF Image!Lose, Image!Addr, Addr
    <2>7. Payload(p) \in {[addr |-> b.addr, len |-> RealPayloadSize(b), data |-> b.data] : b \in Blocks}
      BY <2>1 DEF Payload
    <2> QED BY <2>1, <2>6, <2>7 DEF Image!Next, Image!Addr, Addr
  <1> QED BY <1>3, <1>4

(* Every step is a step of FlashImage or a stutter. *)
LEMMA NextImage == ASSUME WellNumbered, IInv, [Next]_vars PROVE [Image!Next]_(Image!vars)
  <1>1. ASSUME NEW b \in Blocks, Write10(b) PROVE Image!Next
    <2>1. Payload(b) \in {[addr |-> c.addr, len |-> RealPayloadSize(c), data |-> c.data] : c \in Blocks}
      BY DEF Payload
    <2> QED BY <1>1, <2>1, Write10Image DEF Image!Next
  <1>2. CASE Complete
    BY <1>2, CompleteImage, StutterImage DEF Complete, Open
  <1>3. CASE Finish
    BY <1>3, FinishImage DEF Image!Next
  <1>4. CASE CallStep /\ ~Finish
    <2>1. View' = View
      BY <1>4, ConnectImage, FlushImage, AlignBufferImage, AppendAllImage, AppendOverflowImage,
         EraseImage, WriteChunkImage, WrittenOutImage DEF CallStep
    <2>2. Open /\ Open'
      <3>1. CASE AppendAll
        <4>1. IInv'
          BY <3>1, AppendAllInv
        <4>2. pc' = "idle" /\ is_flashing' = is_flashing /\ pc = "copy"
          BY <3>1 DEF AppendAll
        <4> QED BY <4>1, <4>2 DEF IInv, SessionInv, SessionMatchesCall, Open
      <3>2. CASE ~AppendAll
        BY <1>4, <3>2 DEF CallStep, Connect, Flush, AlignBuffer, AppendOverflow, Erase, WriteChunk,
           WrittenOut, FlashData, Open, IInv, CallInv, TypeOK
      <3> QED BY <3>1, <3>2
    <2> QED BY <2>1, <2>2, StutterImage DEF Open
  <1>5. CASE ResetDone
    <2>1. /\ InHand' = InHand /\ Ahead' = Ahead /\ p' = p /\ buffer' = buffer /\ flash' = flash
          /\ aligned_addr' = aligned_addr /\ Held' = Held /\ Open' = Open
      BY <1>5 DEF ResetDone, InHand, Ahead, Held, Open, msc, call
    <2>2. View' = View
      BY <2>1, ViewFacts, NextFacts, SameView DEF Buffered
    <2> QED BY <2>1, <2>2, StutterImage
  <1>6. CASE Reboot
    BY <1>6, RebootImage
  <1>7. CASE UNCHANGED vars
    <2>1. /\ InHand' = InHand /\ Ahead' = Ahead /\ p' = p /\ buffer' = buffer /\ flash' = flash
          /\ aligned_addr' = aligned_addr /\ Held' = Held /\ Open' = Open
      BY <1>7 DEF vars, InHand, Ahead, Held, Open, msc, call
    <2>2. View' = View
      BY <2>1, ViewFacts, NextFacts, SameView DEF Buffered
    <2> QED BY <2>1, <2>2, StutterImage
  <1> QED BY <1>1, <1>2, <1>3, <1>4, <1>5, <1>6, <1>7 DEF Next, CallStep

(* Under every interleaving of writes, completions and crashes the flash   *)
(* the host finds behaves as the abstract image: payloads land at their    *)
(* addresses, neighbours survive, completed commands are durable.          *)
THEOREM Refinement == ASSUME WellNumbered PROVE Spec => ImplementsImage
  <1>1. Init => Image!Init
    BY InitImage
  <1>2. IInv /\ [Next]_vars => [Image!Next]_(Image!vars)
    BY NextImage
  <1> QED BY <1>1, <1>2, Invariant, PTL DEF Spec, ImplementsImage, Image!Spec
=============================================================================
