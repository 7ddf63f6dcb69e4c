---------------------------- MODULE MscDiskProofs ----------------------------
(***************************************************************************)
(* For every geometry: where the host puts UF2 blocks, the code takes them *)
(* for UF2 blocks, all of a command's in one session of the flasher.       *)
(***************************************************************************)
EXTENDS MscDisk, TLAPS

(* Quotient and remainder, as the prover knows them. *)
LEMMA DivMod ==
    ASSUME NEW b \in Nat \ {0}, NEW a \in Int
    PROVE  a \div b \in Int /\ a % b \in 0 .. b - 1 /\ a = b * (a \div b) + (a % b)
  OBVIOUS

(* A quotient without a remainder *)
LEMMA Exact ==
    ASSUME NEW n \in Nat, NEW d \in Nat \ {0}, n % d = 0
    PROVE  (n \div d) * d = n
<1> DEFINE q == n \div d
           r == n % d
<1>1. q \in Int /\ n = d * q + r
  BY DivMod
<1> HIDE DEF q, r
<1>2. n = d * q
  BY <1>1 DEF r
<1> QED BY <1>1, <1>2 DEF q

LEMMA UpExact ==
    ASSUME NEW k \in Nat, NEW d \in Nat \ {0}
    PROVE  Up(k * d, d) = k
<1> DEFINE n == k * d + d - 1
           q == n \div d
<1>1. k * d \in Nat /\ n \in Nat
  OBVIOUS
<1>2. q \in Nat /\ d * q <= n /\ n < d * q + d
  <2> HIDE DEF n
  <2> QED BY <1>1
<1>3. d * q = q * d /\ q * d \in Nat
  BY <1>2
<1>4. q * d < k * d + d /\ k * d < q * d + d
  <2> HIDE DEF q
  <2> QED BY <1>1, <1>2, <1>3
<1>5. k * d + d = (k + 1) * d /\ q * d + d = (q + 1) * d
  BY <1>2
<1> HIDE DEF n, q
<1>6. ~(q >= k + 1)
  <2> SUFFICES ASSUME q >= k + 1 PROVE FALSE
    OBVIOUS
  <2>1. q * d >= (k + 1) * d
    BY <1>2
  <2> QED BY <1>1, <1>2, <1>3, <1>4, <1>5, <2>1
<1>7. ~(k >= q + 1)
  <2> SUFFICES ASSUME k >= q + 1 PROVE FALSE
    OBVIOUS
  <2>1. k * d >= (q + 1) * d
    BY <1>2
  <2> QED BY <1>1, <1>2, <1>3, <1>4, <1>5, <2>1
<1>8. q = k
  BY <1>2, <1>6, <1>7
<1> QED BY <1>8 DEF q, n, Up

(* The host counts the sectors before the first cluster as the code does. *)
LEMMA FirstCluster == FirstData = FIRST_README_SECTOR
<1> DEFINE n == FAT_ROOT_SECTORS * FAT_SECTOR_SIZE
<1>1. n \in Nat /\ FAT_ROOT_ENTRY_SIZE \in Nat \ {0} /\ n % FAT_ROOT_ENTRY_SIZE = 0
  BY GeometryAssumption
<1>2. FAT_ROOT_ENTRIES * FAT_ROOT_ENTRY_SIZE = n
  BY <1>1, Exact DEF FAT_ROOT_ENTRIES
<1>3. Up(n, FAT_SECTOR_SIZE) = FAT_ROOT_SECTORS
  BY UpExact, GeometryAssumption
<1> HIDE DEF n
<1>4. FAT_TABLE_SECTORS \in Nat
  BY GeometryAssumption DEF FAT_TABLE_SECTORS, FAT16_CLUSTER_BYTES
<1>5. 1 * FAT_TABLE_SECTORS = FAT_TABLE_SECTORS
  BY <1>4
<1>6. FirstData = FAT_BOOT_SECTORS + FAT_TABLE_SECTORS + FAT_ROOT_SECTORS
  BY <1>2, <1>3, <1>5 DEF FirstData, msc_disk_boot_sector
<1> QED BY <1>6 DEF FIRST_README_SECTOR, FIRST_ROOT_SECTOR, FIRST_FAT_SECTOR

(* What the table shows as free begins where the code expects UF2 blocks. *)
LEMMA FreeIsElse ==
    ASSUME NEW l \in FreeSectors
    PROVE  IS_LBA_ELSE(l)
<1> DEFINE s == FAT_SECTORS_PER_CLUSTER
<1>1. s \in Nat \ {0} /\ msc_disk_boot_sector.sectors_per_cluster = s
  BY GeometryAssumption DEF msc_disk_boot_sector
<1>2. FirstData \in Nat
  BY FirstCluster, GeometryAssumption
     DEF FIRST_README_SECTOR, FIRST_ROOT_SECTOR, FIRST_FAT_SECTOR, FAT_BOOT_SECTORS,
         FAT_TABLE_SECTORS, FAT16_CLUSTER_BYTES
<1>3. PICK c \in FreeClusters : l \in SectorsOf(c)
  BY DEF FreeSectors
<1>4. c \in Int /\ c >= 4
  BY <1>3 DEF FreeClusters, Clusters, msc_disk_fat_table_sector0
<1>5. (c - 2) * s \in Nat /\ (c - 2) * s >= 2 * s
  BY <1>1, <1>4
<1> DEFINE p == (c - 2) * s
<1>6. p \in Nat /\ p >= 2 * s
  BY <1>5
<1>7. l \in FirstData + p .. FirstData + p + s - 1
  BY <1>1, <1>3 DEF SectorsOf, ClusterSector
<1> HIDE DEF p, s
<1>8. l \in Int /\ l >= FirstData + s + s
  BY <1>1, <1>2, <1>6, <1>7
<1>9. FIRST_ELSE_SECTOR = FirstData + s + s
  BY FirstCluster DEF FIRST_ELSE_SECTOR, FIRST_PINOUT_SECTOR, s
<1> QED BY <1>8, <1>9 DEF IS_LBA_ELSE

-----------------------------------------------------------------------------
(* The sectors of a command lie where the code looks for its blocks.       *)
BlockInv ==
    /\ sectors \in Nat
    /\ cmd = NoCommand => sectors = 0
    /\ cmd.op = "uf2" =>
           /\ cmd.lba \in Int /\ cmd.count \in Int
           /\ \A l \in cmd.lba .. cmd.lba + cmd.count - 1 : IS_LBA_ELSE(l)
    /\ SessionOfCommand

LEMMA BlockInit == Init => BlockInv
BY DEF Init, BlockInv, SessionOfCommand, NoCommand

(* A command begins with no session open. *)
LEMMA CommandInv ==
    ASSUME BlockInv, NEW op \in {"read", "uf2", "other"}, NEW a, NEW lba, NEW n,
           Begin(op, a, lba, n),
           op = "uf2" => lba \in Int /\ n \in Int /\ lba .. lba + n - 1 \subseteq FreeSectors
    PROVE  BlockInv'
<1>1. cmd'.op = op /\ cmd'.lba = lba /\ cmd'.count = n
  BY DEF Begin
<1>2. op = "uf2" => \A l \in lba .. lba + n - 1 : IS_LBA_ELSE(l)
  BY FreeIsElse
<1>3. sectors' = 0 /\ session' = 0
  BY DEF BlockInv, SessionOfCommand, Begin, NoCommand
<1> QED BY <1>1, <1>2, <1>3 DEF BlockInv, SessionOfCommand, IS_LBA_ELSE

LEMMA ReadInv == ASSUME BlockInv, Read PROVE BlockInv'
BY DEF BlockInv, SessionOfCommand, Read, NoCommand

(* Every sector of a UF2 command is taken for a block, and none while the  *)
(* target is being reset.                                                  *)
LEMMA WriteInv == ASSUME BlockInv, Write PROVE BlockInv'
<1>1. ~reset_active' /\ sectors' = sectors + 1 /\ cmd' = cmd /\ cmd # NoCommand
  BY DEF Write, Writing, MayTake, NoCommand
<1>2. CASE cmd.op = "uf2"
  <2>1. cmd.lba + sectors \in cmd.lba .. cmd.lba + cmd.count - 1
    BY <1>2 DEF BlockInv, Write, Writing
  <2>2. IS_LBA_ELSE(cmd.lba + sectors)
    BY <1>2, <2>1 DEF BlockInv
  <2>3. session' = session + 1
    BY <1>2, <2>2 DEF Write
  <2> QED BY <1>1, <1>2, <2>3 DEF BlockInv, SessionOfCommand
<1>3. CASE cmd.op # "uf2"
  BY <1>1, <1>3 DEF BlockInv, SessionOfCommand, Write
<1> QED BY <1>2, <1>3

(* The end of a command is the end of its session. *)
LEMMA CompleteInv == ASSUME BlockInv, Complete PROVE BlockInv'
<1>1. session' = 0
  BY DEF BlockInv, SessionOfCommand, Complete
<1> QED BY <1>1 DEF BlockInv, SessionOfCommand, Complete, NoCommand

LEMMA BlockStep == BlockInv /\ [Next]_vars => BlockInv'
<1> SUFFICES ASSUME BlockInv, [Next]_vars PROVE BlockInv'
  OBVIOUS
<1>1. ASSUME NEW a \in Area, ReadArea(a) PROVE BlockInv'
  <2>1. Begin("read", a, AreaStart(a), Up(AreaSize(a), FAT_SECTOR_SIZE))
    BY <1>1 DEF ReadArea
  <2> QED BY <2>1, CommandInv
<1>2. ASSUME NEW op \in {"uf2", "other"}, NEW lba \in 0 .. FAT_SECTORS - 1,
             NEW n \in 1 .. MaxSectors, WriteSectors(op, lba, n)
      PROVE  BlockInv'
  <2>1. Begin(op, "none", lba, n) /\ (op = "uf2" => lba .. lba + n - 1 \subseteq FreeSectors)
    BY <1>2 DEF WriteSectors
  <2>2. lba \in Int /\ n \in Int
    OBVIOUS
  <2> QED BY <2>1, <2>2, CommandInv
<1>3. CASE UNCHANGED <<session, cmd, sectors>> /\ (reset_active' => reset_active)
  <2>1. session' = session /\ cmd' = cmd /\ sectors' = sectors
    BY <1>3
  <2>2. SessionOfCommand'
    BY <1>3, <2>1, Zenon DEF BlockInv, SessionOfCommand
  <2> QED BY <2>1, <2>2 DEF BlockInv
<1> QED BY <1>1, <1>2, <1>3, ReadInv, WriteInv, CompleteInv
        DEF Next, tud_task, vars, tinyusb, reset_timer_cb, tud_msc_test_unit_ready_cb,
            tud_msc_start_stop_cb

(* A session of the flasher is that of one WRITE10: every UF2 block the    *)
(* command has brought to clusters that the table of msc.c shows as free   *)
(* and nothing else, on a target that no command before has left in reset; *)
(* for every geometry of the disk.                                         *)
THEOREM SessionSafe == Spec => []SessionOfCommand
<1>1. BlockInv => SessionOfCommand
  BY DEF BlockInv
<1> QED BY <1>1, BlockInit, BlockStep, PTL DEF Spec

-----------------------------------------------------------------------------
(* The files *)

(* A sector of an area begins within it. *)
LEMMA UpBound ==
    ASSUME NEW n \in Nat, NEW d \in Nat \ {0}, NEW k \in Nat, k < Up(n, d)
    PROVE  k * d < n
<1> DEFINE m == n + d - 1
           q == m \div d
<1>1. q \in Int /\ d * q <= m /\ m \in Nat
  <2>1. m \in Nat
    OBVIOUS
  <2> HIDE DEF m
  <2> QED BY <2>1, DivMod
<1>2. k < q
  BY DEF Up
<1> HIDE DEF q
<1>3. (k + 1) * d <= q * d /\ q * d = d * q /\ (k + 1) * d = k * d + d /\ k * d \in Nat
  BY <1>1, <1>2
<1> QED BY <1>1, <1>3 DEF m

LEMMA FewerTimes ==
    ASSUME NEW k \in Nat, NEW m \in Nat, NEW d \in Nat \ {0}, k * d < m * d
    PROVE  k < m
<1> SUFFICES ASSUME k >= m PROVE FALSE
  OBVIOUS
<1>1. k * d >= m * d /\ k * d \in Nat /\ m * d \in Nat
  OBVIOUS
<1> QED BY <1>1

LEMMA AtLeastOnce ==
    ASSUME NEW k \in Nat \ {0}, NEW d \in Nat \ {0}
    PROVE  k * d >= d
OBVIOUS

LEMMA Layout ==
    /\ FAT_TABLE_SECTORS \in Nat \ {0} /\ FAT_ROOT_SECTORS \in Nat \ {0}
    /\ FAT_SECTOR_SIZE \in Nat \ {0} /\ FAT_SECTORS_PER_CLUSTER \in Nat \ {0}
    /\ FIRST_FAT_SECTOR = 1
    /\ FIRST_ROOT_SECTOR = 1 + FAT_TABLE_SECTORS
    /\ FIRST_README_SECTOR = 1 + FAT_TABLE_SECTORS + FAT_ROOT_SECTORS
    /\ FIRST_PINOUT_SECTOR = FIRST_README_SECTOR + FAT_SECTORS_PER_CLUSTER
    /\ FIRST_ELSE_SECTOR = FIRST_PINOUT_SECTOR + FAT_SECTORS_PER_CLUSTER
<1> DEFINE n == FAT_CLUSTERS * FAT16_CLUSTER_BYTES
<1>1. n \in Nat \ {0} /\ n % FAT_SECTOR_SIZE = 0 /\ FAT_SECTOR_SIZE \in Nat \ {0}
  BY GeometryAssumption DEF FAT16_CLUSTER_BYTES
<1>2. FAT_TABLE_SECTORS \in Int /\ FAT_TABLE_SECTORS * FAT_SECTOR_SIZE = n
  <2> HIDE DEF n
  <2>1. n \div FAT_SECTOR_SIZE \in Int /\ (n \div FAT_SECTOR_SIZE) * FAT_SECTOR_SIZE = n
    BY <1>1, Exact, DivMod
  <2> QED BY <2>1 DEF FAT_TABLE_SECTORS, n
<1> HIDE DEF n
<1>3. FAT_TABLE_SECTORS \in Nat \ {0}
  BY <1>1, <1>2
<1> QED BY <1>3, GeometryAssumption
        DEF FIRST_FAT_SECTOR, FIRST_ROOT_SECTOR, FIRST_README_SECTOR, FIRST_PINOUT_SECTOR,
            FIRST_ELSE_SECTOR, FAT_BOOT_SECTORS

(* Where the host finds the areas *)
LEMMA Starts ==
    /\ AreaStart("boot") = 0 /\ AreaStart("fat") = 1
    /\ AreaStart("root") = FIRST_ROOT_SECTOR
    /\ AreaStart("readme") = FIRST_README_SECTOR
    /\ AreaStart("pinout") = FIRST_PINOUT_SECTOR
<1>1. AreaStart("boot") = 0 /\ AreaStart("fat") = 1
  BY DEF AreaStart, msc_disk_boot_sector, FAT_BOOT_SECTORS
<1>2. AreaStart("root") = FIRST_ROOT_SECTOR
  BY Layout DEF AreaStart, msc_disk_boot_sector, FAT_BOOT_SECTORS
<1>3. AreaStart("readme") = ClusterSector(2) /\ AreaStart("pinout") = ClusterSector(3)
  BY DEF AreaStart, msc_disk_root_directory_sector0
<1>4. ClusterSector(2) = FIRST_README_SECTOR /\ ClusterSector(3) = FIRST_PINOUT_SECTOR
  BY FirstCluster, Layout DEF ClusterSector, msc_disk_boot_sector
<1> QED BY <1>1, <1>2, <1>3, <1>4

PinoutInv == pinout_md_len \in Nat /\ pinout_size = PinoutSize(pinout_md_len)

LEMMA Sizes ==
    ASSUME PinoutInv
    PROVE  /\ AreaSize("boot") = FAT_SECTOR_SIZE
           /\ AreaSize("fat") = FAT_TABLE_SECTORS * FAT_SECTOR_SIZE
           /\ AreaSize("root") = FAT_ROOT_SECTORS * FAT_SECTOR_SIZE
           /\ AreaSize("readme") = MSC_README_SIZE
           /\ AreaSize("pinout") = pinout_size
           /\ pinout_size \in Nat /\ pinout_size <= pinout_md_len
           /\ pinout_size <= FAT_SECTORS_PER_CLUSTER * FAT_SECTOR_SIZE
           /\ \A a \in Area : AreaSize(a) \in Nat
<1>1. AreaSize("boot") = FAT_SECTOR_SIZE /\ AreaSize("fat") = FAT_TABLE_SECTORS * FAT_SECTOR_SIZE
      /\ AreaSize("readme") = MSC_README_SIZE /\ AreaSize("pinout") = pinout_size
  BY DEF AreaSize, msc_disk_boot_sector
<1>2. AreaSize("root") = FAT_ROOT_ENTRIES * FAT_ROOT_ENTRY_SIZE
  BY DEF AreaSize, msc_disk_boot_sector
<1>3. FAT_ROOT_ENTRIES * FAT_ROOT_ENTRY_SIZE = FAT_ROOT_SECTORS * FAT_SECTOR_SIZE
  <2> DEFINE n == FAT_ROOT_SECTORS * FAT_SECTOR_SIZE
  <2>1. n \in Nat /\ FAT_ROOT_ENTRY_SIZE \in Nat \ {0} /\ n % FAT_ROOT_ENTRY_SIZE = 0
    BY GeometryAssumption
  <2> QED BY <2>1, Exact DEF FAT_ROOT_ENTRIES
<1>4. MSC_PINOUT_MAX \in Nat
  BY Layout DEF MSC_PINOUT_MAX
<1>5. pinout_size \in Nat /\ pinout_size <= pinout_md_len /\ pinout_size <= MSC_PINOUT_MAX
  BY <1>4 DEF PinoutInv, PinoutSize, Min2
<1>6. FAT_TABLE_SECTORS * FAT_SECTOR_SIZE \in Nat /\ FAT_ROOT_SECTORS * FAT_SECTOR_SIZE \in Nat
      /\ FAT_SECTOR_SIZE \in Nat /\ MSC_README_SIZE \in Nat
  BY Layout, GeometryAssumption
<1>7. \A a \in Area : AreaSize(a) \in Nat
  BY <1>1, <1>2, <1>3, <1>5, <1>6 DEF Area
<1> QED BY <1>1, <1>2, <1>3, <1>5, <1>7 DEF MSC_PINOUT_MAX

(* What tud_msc_read10_cb has in memory of sector k of an area: its bytes  *)
(* from there on, as many of the sector as are kept.                       *)
LEMMA AreaSector ==
    ASSUME PinoutInv, NEW a \in Area, NEW k \in Nat, k * FAT_SECTOR_SIZE < AreaSize(a)
    PROVE  \E m \in 0 .. FAT_SECTOR_SIZE :
              /\ InMemory(AreaStart(a) + k) = Bytes(a, k * FAT_SECTOR_SIZE, m)
              /\ \A j \in 1 .. FAT_SECTOR_SIZE :
                    k * FAT_SECTOR_SIZE + j <= AreaSize(a) =>
                        (j <= m <=> k * FAT_SECTOR_SIZE + j <= Kept(a))
<1> DEFINE s == FAT_SECTOR_SIZE
           from == k * s
<1>1. s \in Nat \ {0} /\ from \in Nat /\ (k = 0 => from = 0) /\ (k # 0 => from >= s)
  BY Layout, AtLeastOnce
<1>2. \A x : Bytes(a, x, 0) = << >>
  BY DEF Bytes
<1>3. CASE a = "boot"
  <2>1. k = 0
    BY <1>1, <1>3, Sizes
  <2>2. InMemory(0) = Bytes("boot", 0, s)
    BY Layout DEF InMemory, IS_LBA_PINOUT
  <2> QED BY <1>1, <1>3, <2>1, <2>2, Starts, Sizes DEF Kept
<1>4. CASE a = "fat"
  <2>1. k < FAT_TABLE_SECTORS
    BY <1>4, Sizes, FewerTimes, Layout
  <2>2. Kept(a) = 8 /\ 8 <= s
    BY <1>4, GeometryAssumption DEF Kept, FAT16_CLUSTER_BYTES
  <2>3. CASE k = 0
    <3>1. InMemory(1) = Bytes("fat", 0, 8)
      BY Layout DEF InMemory, IS_LBA_PINOUT, FAT16_CLUSTER_BYTES, msc_disk_fat_table_sector0
    <3> QED BY <1>1, <1>4, <2>2, <2>3, <3>1, Starts
  <2>4. CASE k # 0
    <3>1. InMemory(1 + k) = << >>
      BY <2>1, <2>4, Layout DEF InMemory, IS_LBA_PINOUT
    <3> QED BY <1>1, <1>2, <1>4, <2>2, <2>4, <3>1, Starts
  <2> QED BY <2>3, <2>4
<1>5. CASE a = "root"
  <2>1. k < FAT_ROOT_SECTORS
    BY <1>5, Sizes, FewerTimes, Layout
  <2> DEFINE n == 3 * FAT_ROOT_ENTRY_SIZE
  <2>2. Kept(a) = n /\ n \in Nat /\ n <= s
    BY <1>5, GeometryAssumption DEF Kept
  <2> HIDE DEF n
  <2>3. CASE k = 0
    <3>1. InMemory(FIRST_ROOT_SECTOR) = Bytes("root", 0, n)
      BY Layout DEF InMemory, IS_LBA_PINOUT, n
    <3>2. FIRST_ROOT_SECTOR + 0 = FIRST_ROOT_SECTOR
      BY Layout
    <3> QED BY <1>1, <1>5, <2>2, <2>3, <3>1, <3>2, Starts
  <2>4. CASE k # 0
    <3>1. InMemory(FIRST_ROOT_SECTOR + k) = << >>
      BY <2>1, <2>4, Layout DEF InMemory, IS_LBA_PINOUT
    <3> QED BY <1>1, <1>2, <1>5, <2>2, <2>4, <3>1, Starts
  <2> QED BY <2>3, <2>4
<1>6. CASE a = "readme"
  <2>1. AreaSize(a) = MSC_README_SIZE /\ MSC_README_SIZE \in Nat /\ MSC_README_SIZE < s
    BY <1>6, Sizes, GeometryAssumption
  <2>2. k = 0
    BY <1>1, <2>1
  <2>3. InMemory(FIRST_README_SECTOR) = Bytes("readme", 0, MSC_README_SIZE)
    BY Layout DEF InMemory, IS_LBA_PINOUT
  <2>4. Kept(a) = MSC_README_SIZE
    BY <1>6, <2>1 DEF Kept
  <2>5. FIRST_README_SECTOR + 0 = FIRST_README_SECTOR
    BY Layout
  <2> QED BY <1>1, <1>6, <2>1, <2>2, <2>3, <2>4, <2>5, Starts
<1>7. CASE a = "pinout"
  <2>1. /\ AreaSize(a) = pinout_size /\ pinout_size \in Nat /\ pinout_size <= pinout_md_len
        /\ pinout_md_len \in Nat /\ from < pinout_md_len
    BY <1>1, <1>7, Sizes DEF PinoutInv
  <2>2. from < FAT_SECTORS_PER_CLUSTER * s /\ FAT_SECTORS_PER_CLUSTER * s \in Nat
    BY <1>1, <1>7, <2>1, Sizes, Layout
  <2>3. k < FAT_SECTORS_PER_CLUSTER
    BY <2>2, FewerTimes, Layout
  <2> DEFINE lba == FIRST_PINOUT_SECTOR + k
             m == Min2(pinout_md_len - from, s)
  <2>4. m \in 0 .. s
    BY <1>1, <2>1 DEF Min2
  <2>5. InMemory(lba) = PinoutSector(lba)
    BY <2>3, Layout DEF InMemory, IS_LBA_PINOUT
  <2>6. lba - FIRST_PINOUT_SECTOR = k
    BY Layout
  <2> HIDE DEF lba
  <2>7. PinoutSector(lba) = Bytes("pinout", from, m)
    BY <2>1, <2>6 DEF PinoutSector
  <2>8. Kept(a) = AreaSize(a)
    BY <1>7 DEF Kept
  <2>9. \A j \in 1 .. s : from + j <= AreaSize(a) => j <= m
    BY <1>1, <2>1 DEF Min2
  <2> HIDE DEF from, m
  <2>10. \A j \in 1 .. s : from + j <= AreaSize(a) => (j <= m <=> from + j <= Kept(a))
    BY <2>8, <2>9
  <2> QED BY <1>7, <2>4, <2>5, <2>7, <2>10, Starts DEF lba, from
<1> QED BY <1>3, <1>4, <1>5, <1>6, <1>7 DEF Area

Cell == (Area \cup {"zero"}) \X Int

LEMMA BytesFacts ==
    ASSUME NEW a \in Area, NEW x \in Int, NEW m \in Nat
    PROVE  /\ Bytes(a, x, m) \in Seq(Cell) /\ Len(Bytes(a, x, m)) = m
           /\ \A j \in 1 .. m : Bytes(a, x, m)[j] = <<a, x + j - 1>>
           /\ Zeros(m) \in Seq(Cell) /\ Len(Zeros(m)) = m
           /\ \A j \in 1 .. m : Zeros(m)[j] = Zero
<1>1. \A j \in 1 .. m : <<a, x + j - 1>> \in Cell
  BY DEF Cell
<1>2. Zero \in Cell
  BY DEF Cell, Zero
<1> HIDE DEF Cell, Zero
<1>3. /\ Bytes(a, x, m) \in Seq(Cell) /\ Len(Bytes(a, x, m)) = m
      /\ \A j \in 1 .. m : Bytes(a, x, m)[j] = <<a, x + j - 1>>
  <2> DEFINE f == [i \in 1 .. m |-> <<a, x + i - 1>>]
  <2>1. f \in [1 .. m -> Cell]
    BY <1>1
  <2>2. \A j \in 1 .. m : f[j] = <<a, x + j - 1>>
    OBVIOUS
  <2>3. f \in Seq(Cell) /\ Len(f) = m
    <3>1. DOMAIN f = 1 .. m
      OBVIOUS
    <3> HIDE DEF f
    <3> QED BY <2>1, <3>1
  <2> QED BY <2>2, <2>3 DEF Bytes
<1>4. /\ Zeros(m) \in Seq(Cell) /\ Len(Zeros(m)) = m
      /\ \A j \in 1 .. m : Zeros(m)[j] = Zero
  BY <1>2 DEF Zeros
<1> QED BY <1>3, <1>4

LEMMA Concat ==
    ASSUME NEW d \in Seq(Cell), NEW p \in Seq(Cell)
    PROVE  /\ d \o p \in Seq(Cell) /\ Len(d \o p) = Len(d) + Len(p)
           /\ \A i \in 1 .. Len(d) : (d \o p)[i] = d[i]
           /\ \A j \in 1 .. Len(p) : (d \o p)[Len(d) + j] = p[j]
OBVIOUS

(* Bytes behind the data, and zeros behind both *)
LEMMA Joined ==
    ASSUME NEW d \in Seq(Cell), NEW p \in Seq(Cell), NEW z \in Seq(Cell)
    PROVE  /\ d \o p \o z \in Seq(Cell) /\ Len(d \o p \o z) = Len(d) + (Len(p) + Len(z))
           /\ \A i \in 1 .. Len(d) : (d \o p \o z)[i] = d[i]
           /\ \A j \in 1 .. Len(p) + Len(z) :
                 (d \o p \o z)[Len(d) + j] = IF j <= Len(p) THEN p[j] ELSE z[j - Len(p)]
<1> DEFINE e == d \o p
           n == Len(d)
           m == Len(p)
           r == Len(z)
<1>1. n \in Nat /\ m \in Nat /\ r \in Nat
  OBVIOUS
<1>2. e \in Seq(Cell) /\ Len(e) = n + m
      /\ (\A i \in 1 .. n : e[i] = d[i]) /\ (\A j \in 1 .. m : e[n + j] = p[j])
  BY Concat
<1> HIDE DEF e
<1>3. /\ e \o z \in Seq(Cell) /\ Len(e \o z) = Len(e) + r
      /\ \A i \in 1 .. Len(e) : (e \o z)[i] = e[i]
      /\ \A j \in 1 .. r : (e \o z)[Len(e) + j] = z[j]
  BY <1>2, Concat
<1> HIDE DEF n, m, r
<1>4. \A i \in 1 .. n : (e \o z)[i] = d[i]
  BY <1>1, <1>2, <1>3
<1>5. ASSUME NEW j \in 1 .. m + r PROVE (e \o z)[n + j] = IF j <= m THEN p[j] ELSE z[j - m]
  <2>1. CASE j <= m
    <3>1. n + j \in 1 .. Len(e) /\ j \in 1 .. m
      BY <1>1, <1>2, <2>1
    <3> QED BY <1>2, <1>3, <2>1, <3>1
  <2>2. CASE ~(j <= m)
    <3>1. j - m \in 1 .. r /\ Len(e) + (j - m) = n + j
      BY <1>1, <1>2, <2>2
    <3>2. (e \o z)[Len(e) + (j - m)] = z[j - m]
      BY <1>3, <3>1
    <3> QED BY <2>2, <3>1, <3>2
  <2> QED BY <2>1, <2>2
<1>6. Len(e \o z) = n + (m + r)
  BY <1>1, <1>2, <1>3
<1> QED BY <1>3, <1>4, <1>5, <1>6 DEF e, n, m, r

(* What byte i of an area is to be *)
Expected(a, i) == IF i <= Kept(a) THEN <<a, i - 1>> ELSE Zero

FileInv ==
    /\ PinoutInv
    /\ sectors \in Nat /\ data \in Seq(Cell)
    /\ cmd.op = "none" => sectors = 0
    /\ cmd.op # "read" => data = << >>
    /\ cmd.op = "read" =>
          /\ cmd.area \in Area
          /\ cmd.lba = AreaStart(cmd.area)
          /\ cmd.count = Up(AreaSize(cmd.area), FAT_SECTOR_SIZE)
          /\ Len(data) = sectors * FAT_SECTOR_SIZE
          /\ \A i \in 1 .. Len(data) :
                i <= AreaSize(cmd.area) => data[i] = Expected(cmd.area, i)

LEMMA FileInit == Init => FileInv
<1> SUFFICES ASSUME Init PROVE FileInv
  OBVIOUS
<1>1. PinoutInv
  BY GeometryAssumption DEF Init, PinoutInv
<1>2. << >> \in Seq(Cell)
  OBVIOUS
<1> QED BY <1>1, <1>2 DEF Init, FileInv, NoCommand

(* The sizes stay what they are. *)
LEMMA SizesKept ==
    ASSUME UNCHANGED <<pinout_md_len, pinout_size>>, NEW a
    PROVE  /\ PinoutInv => PinoutInv'
           /\ AreaSize(a)' = AreaSize(a) /\ Kept(a)' = Kept(a)
           /\ \A i : Expected(a, i)' = Expected(a, i)
<1>1. PinoutInv => PinoutInv'
  BY DEF PinoutInv
<1>2. AreaSize(a)' = AreaSize(a)
  BY DEF AreaSize
<1>3. Kept(a)' = Kept(a)
  BY <1>2 DEF Kept
<1>4. \A i : Expected(a, i)' = Expected(a, i)
  BY <1>3 DEF Expected
<1> QED BY <1>1, <1>2, <1>3, <1>4

LEMMA ReadFile == ASSUME FileInv, Read PROVE FileInv'
<1> DEFINE a == cmd.area
           s == FAT_SECTOR_SIZE
           k == sectors
           from == k * s
           lba == AreaStart(a) + k
<1>1. /\ PinoutInv /\ a \in Area /\ k \in Nat /\ data \in Seq(Cell) /\ Len(data) = from
      /\ k < Up(AreaSize(a), s) /\ cmd.lba + sectors = lba /\ cmd.op = "read"
      /\ \A i \in 1 .. Len(data) : i <= AreaSize(a) => data[i] = Expected(a, i)
  BY DEF FileInv, Read
<1>2. s \in Nat \ {0} /\ from \in Nat /\ (k + 1) * s = from + s
  BY <1>1, Layout
<1>3. AreaSize(a) \in Nat /\ from < AreaSize(a)
  BY <1>1, <1>2, Sizes, UpBound
<1>4. PICK m \in 0 .. s :
        /\ InMemory(lba) = Bytes(a, from, m)
        /\ \A j \in 1 .. s : from + j <= AreaSize(a) => (j <= m <=> from + j <= Kept(a))
  BY <1>1, <1>3, AreaSector
<1> DEFINE b == Bytes(a, from, m)
           z == Zeros(s - m)
<1>5. /\ b \in Seq(Cell) /\ Len(b) = m /\ \A j \in 1 .. m : b[j] = <<a, from + j - 1>>
      /\ z \in Seq(Cell) /\ Len(z) = s - m /\ \A j \in 1 .. s - m : z[j] = Zero
  <2>1. m \in Nat /\ s - m \in Nat /\ from \in Int
    BY <1>2, <1>4
  <2> HIDE DEF from, s, a
  <2> QED BY <1>1, <2>1, BytesFacts
<1>6. data' = data \o b \o z /\ sectors' = k + 1 /\ cmd' = cmd
      /\ UNCHANGED <<pinout_md_len, pinout_size>>
  BY <1>1, <1>4, <1>5 DEF Read, tud_msc_read10_cb, disk
<1>7. /\ data' \in Seq(Cell) /\ Len(data') = from + s
      /\ \A i \in 1 .. from : data'[i] = data[i]
      /\ \A j \in 1 .. s : data'[from + j] = IF j <= m THEN b[j] ELSE z[j - m]
  <2> HIDE DEF b, z, from, s
  <2>1. m \in Nat /\ s \in Nat /\ m <= s /\ from \in Nat
    BY <1>2, <1>4
  <2>2. data \in Seq(Cell) /\ Len(data) = from /\ b \in Seq(Cell) /\ Len(b) = m
        /\ z \in Seq(Cell) /\ Len(z) = s - m /\ data' = data \o b \o z
    BY <1>1, <1>5, <1>6
  <2>3. /\ data \o b \o z \in Seq(Cell) /\ Len(data \o b \o z) = from + s
        /\ \A i \in 1 .. from : (data \o b \o z)[i] = data[i]
        /\ \A j \in 1 .. s : (data \o b \o z)[from + j] = IF j <= m THEN b[j] ELSE z[j - m]
    <3>1. /\ data \o b \o z \in Seq(Cell) /\ Len(data \o b \o z) = Len(data) + (Len(b) + Len(z))
          /\ \A i \in 1 .. Len(data) : (data \o b \o z)[i] = data[i]
          /\ \A j \in 1 .. Len(b) + Len(z) :
                (data \o b \o z)[Len(data) + j] = IF j <= Len(b) THEN b[j] ELSE z[j - Len(b)]
      BY <2>2, Joined
    <3>2. Len(b) + Len(z) = s /\ Len(data) = from /\ Len(b) = m
      BY <2>1, <2>2
    <3> QED BY <3>1, <3>2
  <2> DEFINE e == data \o b \o z
  <2>4. data' = e
    BY <2>2
  <2> HIDE DEF e
  <2> QED BY <2>3, <2>4 DEF e
<1> HIDE DEF from, s, b, z, a
<1>8. ASSUME NEW i \in 1 .. from + s, i <= AreaSize(a)
      PROVE  data'[i] = Expected(a, i)
  <2>1. CASE i <= from
    <3>1. i \in 1 .. from /\ i \in 1 .. Len(data)
      BY <1>1, <1>2, <2>1
    <3>2. data[i] = Expected(a, i)
      BY <1>1, <1>8, <3>1
    <3> QED BY <1>7, <3>1, <3>2
  <2>2. CASE ~(i <= from)
    <3> DEFINE j == i - from
    <3>1. j \in 1 .. s /\ from + j = i
      BY <1>2, <2>2
    <3> HIDE DEF j
    <3>2. CASE j <= m
      <4>1. data'[i] = <<a, from + j - 1>> /\ i <= Kept(a)
        <5>1. j \in 1 .. m
          BY <1>2, <1>4, <3>1, <3>2
        <5> QED BY <1>4, <1>5, <1>7, <1>8, <3>1, <5>1, <3>2
      <4>2. from + j - 1 = i - 1
        BY <1>2, <3>1
      <4> QED BY <4>1, <4>2 DEF Expected
    <3>3. CASE ~(j <= m)
      <4>1. j - m \in 1 .. s - m
        BY <1>2, <1>4, <3>1, <3>3
      <4>2. data'[i] = Zero /\ ~(i <= Kept(a))
        BY <1>4, <1>5, <1>7, <1>8, <3>1, <3>3, <4>1
      <4> QED BY <4>2 DEF Expected
    <3> QED BY <3>2, <3>3
  <2> QED BY <2>1, <2>2
<1>9. /\ AreaSize(a)' = AreaSize(a) /\ (\A i : Expected(a, i)' = Expected(a, i)) /\ PinoutInv'
  BY <1>1, <1>6, SizesKept DEF a
<1>10. sectors' \in Nat /\ Len(data') = sectors' * FAT_SECTOR_SIZE /\ cmd' = cmd
  BY <1>1, <1>2, <1>6, <1>7 DEF s
<1>11. /\ (cmd.area \in Area)' /\ (cmd.lba = AreaStart(cmd.area))'
       /\ (cmd.count = Up(AreaSize(cmd.area), FAT_SECTOR_SIZE))'
  <2>1. /\ cmd.area \in Area /\ cmd.lba = AreaStart(cmd.area)
        /\ cmd.count = Up(AreaSize(cmd.area), FAT_SECTOR_SIZE)
    BY <1>1 DEF FileInv
  <2>2. AreaSize(cmd.area)' = AreaSize(cmd.area) /\ cmd' = cmd
    BY <1>9, <1>10 DEF a, AreaSize
  <2> QED BY <2>1, <2>2
<1>12. \A i \in 1 .. Len(data') : i <= AreaSize(a) => data'[i] = Expected(a, i)
  BY <1>7, <1>8
<1>13. (\A i \in 1 .. Len(data) : i <= AreaSize(cmd.area) => data[i] = Expected(cmd.area, i))'
  BY <1>9, <1>10, <1>12 DEF a
<1> QED BY <1>1, <1>7, <1>9, <1>10, <1>11, <1>13 DEF FileInv

LEMMA BeginFile ==
    ASSUME FileInv, NEW op \in {"read", "uf2", "other"}, NEW a, NEW lba, NEW n,
           Begin(op, a, lba, n),
           op = "read" => /\ a \in Area /\ lba = AreaStart(a)
                          /\ n = Up(AreaSize(a), FAT_SECTOR_SIZE)
    PROVE  FileInv'
<1>1. cmd.op = "none" /\ sectors = 0 /\ data = << >>
  BY DEF FileInv, Begin, NoCommand
<1>2. cmd'.op = op /\ cmd'.area = a /\ cmd'.lba = lba /\ cmd'.count = n
      /\ UNCHANGED <<pinout_md_len, pinout_size, sectors, data>>
  BY DEF Begin, disk
<1>3. PinoutInv'
  BY <1>2, SizesKept DEF FileInv
<1>4. AreaSize(a)' = AreaSize(a)
  BY <1>2 DEF AreaSize
<1>5. CASE op = "read"
  <2>1. /\ (cmd.area \in Area)' /\ (cmd.lba = AreaStart(cmd.area))'
        /\ (cmd.count = Up(AreaSize(cmd.area), FAT_SECTOR_SIZE))'
    <3>1. a \in Area /\ lba = AreaStart(a) /\ n = Up(AreaSize(a), FAT_SECTOR_SIZE)
      BY <1>5
    <3>2. AreaSize(cmd.area)' = AreaSize(a)
      BY <1>2, <1>4 DEF AreaSize
    <3> QED BY <1>2, <3>1, <3>2
  <2>2. Len(data') = 0 /\ sectors' * FAT_SECTOR_SIZE = 0
    BY <1>1, <1>2, Layout
  <2>3. data' \in Seq(Cell) /\ sectors' \in Nat
    BY <1>2 DEF FileInv
  <2>4. (\A i \in 1 .. Len(data) : i <= AreaSize(cmd.area) => data[i] = Expected(cmd.area, i))'
    BY <2>2
  <2> QED BY <1>2, <1>3, <1>5, <2>1, <2>2, <2>3, <2>4 DEF FileInv
<1>6. CASE op # "read"
  BY <1>1, <1>2, <1>3, <1>6 DEF FileInv
<1> QED BY <1>5, <1>6

LEMMA WriteFile == ASSUME FileInv, Write PROVE FileInv'
<1>1. cmd' = cmd /\ cmd.op \in {"uf2", "other"} /\ sectors' = sectors + 1
      /\ UNCHANGED <<pinout_md_len, pinout_size, data>>
  BY DEF Write, Writing, disk
<1>2. PinoutInv'
  BY <1>1, SizesKept DEF FileInv
<1> QED BY <1>1, <1>2 DEF FileInv

LEMMA CompleteFile == ASSUME FileInv, Complete PROVE FileInv'
<1>1. PinoutInv'
  BY SizesKept DEF FileInv, Complete, disk
<1>2. << >> \in Seq(Cell)
  OBVIOUS
<1> QED BY <1>1, <1>2 DEF FileInv, Complete, NoCommand

LEMMA OtherFile ==
    ASSUME FileInv, UNCHANGED <<pinout_md_len, pinout_size, cmd, sectors, data>>
    PROVE  FileInv'
<1>1. PinoutInv'
  BY SizesKept DEF FileInv
<1>2. CASE cmd.op = "read"
  <2> DEFINE a == cmd.area
  <2>1. AreaSize(a)' = AreaSize(a) /\ \A i : Expected(a, i)' = Expected(a, i)
    BY SizesKept
  <2>2. /\ (cmd.area \in Area)' /\ (cmd.lba = AreaStart(cmd.area))'
        /\ (cmd.count = Up(AreaSize(cmd.area), FAT_SECTOR_SIZE))'
    BY <1>2, <2>1 DEF FileInv
  <2>3. (\A i \in 1 .. Len(data) : i <= AreaSize(cmd.area) => data[i] = Expected(cmd.area, i))'
    BY <1>2, <2>1 DEF FileInv
  <2> QED BY <1>1, <1>2, <2>2, <2>3 DEF FileInv
<1>3. CASE cmd.op # "read"
  BY <1>1, <1>3 DEF FileInv
<1> QED BY <1>2, <1>3

LEMMA FileStep == FileInv /\ [Next]_vars => FileInv'
<1> SUFFICES ASSUME FileInv, [Next]_vars PROVE FileInv'
  OBVIOUS
<1>1. ASSUME NEW a \in Area, ReadArea(a) PROVE FileInv'
  <2>1. Begin("read", a, AreaStart(a), Up(AreaSize(a), FAT_SECTOR_SIZE))
    BY <1>1 DEF ReadArea
  <2> QED BY <2>1, BeginFile
<1>2. ASSUME NEW op \in {"uf2", "other"}, NEW lba \in 0 .. FAT_SECTORS - 1,
             NEW n \in 1 .. MaxSectors, WriteSectors(op, lba, n)
      PROVE  FileInv'
  <2>1. Begin(op, "none", lba, n)
    BY <1>2 DEF WriteSectors
  <2> QED BY <2>1, BeginFile
<1>3. CASE UNCHANGED <<pinout_md_len, pinout_size, cmd, sectors, data>>
  BY <1>3, OtherFile
<1> QED BY <1>1, <1>2, <1>3, ReadFile, WriteFile, CompleteFile
        DEF Next, tud_task, vars, disk, tinyusb, reset_timer_cb, tud_msc_test_unit_ready_cb,
            tud_msc_start_stop_cb

(* A host that finds README.MD or PINOUT.MD by the boot sector, directory  *)
(* and table of msc.c reads the bytes that tud_msc_read10_cb keeps of it,  *)
(* all that the directory promises: for every geometry of the disk and     *)
(* every length of the embedded file.                                      *)
THEOREM FilesSafe == Spec => []FilesReadable
<1>1. FileInv => FilesReadable
  <2> SUFFICES ASSUME FileInv, cmd.op = "read",
                      NEW i \in 1 .. Min2(Len(data), AreaSize(cmd.area))
               PROVE  data[i] = Expected(cmd.area, i)
    BY DEF FilesReadable, Expected
  <2>1. Len(data) \in Nat /\ AreaSize(cmd.area) \in Nat
    BY Sizes DEF FileInv
  <2>2. i \in 1 .. Len(data) /\ i <= AreaSize(cmd.area)
    BY <2>1 DEF Min2
  <2> QED BY <2>2 DEF FileInv
<1> QED BY <1>1, FileInit, FileStep, PTL DEF Spec

-----------------------------------------------------------------------------
(* Types: a read of an area stays on the disk, since there is room for the *)
(* files and no area is longer than what is set aside for it.              *)

LEMMA UpWithin ==
    ASSUME NEW n \in Nat, NEW d \in Nat \ {0}, NEW m \in Nat, n <= m * d
    PROVE  Up(n, d) \in Nat /\ Up(n, d) <= m
<1> DEFINE q == n + d - 1
           u == q \div d
<1>1. u \in Int /\ q = d * u + (q % d) /\ q % d \in 0 .. d - 1 /\ q \in Nat
  <2>1. q \in Nat
    OBVIOUS
  <2> HIDE DEF q
  <2> QED BY <2>1, DivMod
<1>2. d * u = u * d /\ u * d <= m * d + d - 1
  BY <1>1
<1>3. u \in Nat
  BY <1>1
<1>4. u <= m
  <2> SUFFICES ASSUME u >= m + 1 PROVE FALSE
    BY <1>3
  <2> HIDE DEF u
  <2>1. u * d >= (m + 1) * d /\ (m + 1) * d = m * d + d /\ m * d \in Nat /\ u * d \in Nat
    BY <1>3
  <2> QED BY <1>2, <2>1
<1> QED BY <1>3, <1>4 DEF Up

(* The areas end where the free clusters begin at the latest. *)
LEMMA AreaOnDisk ==
    ASSUME PinoutInv, NEW a \in Area
    PROVE  /\ AreaStart(a) \in Nat /\ Up(AreaSize(a), FAT_SECTOR_SIZE) \in Nat
           /\ AreaStart(a) + Up(AreaSize(a), FAT_SECTOR_SIZE) <= FAT_SECTORS
<1> DEFINE s == FAT_SECTOR_SIZE
           up == Up(AreaSize(a), s)
<1>1. s \in Nat \ {0} /\ FAT_SECTORS \in Nat /\ FIRST_ELSE_SECTOR <= FAT_SECTORS
  BY GeometryAssumption, RoomAssumption DEF FAT_SECTORS
<1>2. CASE a = "boot"
  <2>1. AreaSize(a) = s /\ AreaSize(a) \in Nat /\ s <= 1 * s
    BY <1>1, <1>2, Sizes
  <2>2. up \in Nat /\ up <= 1
    BY <1>1, <2>1, UpWithin
  <2> QED BY <1>1, <1>2, <2>2, Starts, Layout
<1>3. CASE a = "fat"
  <2>1. AreaSize(a) = FAT_TABLE_SECTORS * s /\ AreaSize(a) \in Nat
    BY <1>3, Sizes
  <2>2. up \in Nat /\ up <= FAT_TABLE_SECTORS
    BY <1>1, <2>1, UpWithin, Layout
  <2> QED BY <1>1, <1>3, <2>2, Starts, Layout
<1>4. CASE a = "root"
  <2>1. AreaSize(a) = FAT_ROOT_SECTORS * s /\ AreaSize(a) \in Nat
    BY <1>4, Sizes
  <2>2. up \in Nat /\ up <= FAT_ROOT_SECTORS
    BY <1>1, <2>1, UpWithin, Layout
  <2> QED BY <1>1, <1>4, <2>2, Starts, Layout
<1>5. CASE a = "readme"
  <2>1. AreaSize(a) \in Nat /\ AreaSize(a) <= 1 * s
    BY <1>1, <1>5, Sizes, GeometryAssumption
  <2>2. up \in Nat /\ up <= 1
    BY <1>1, <2>1, UpWithin
  <2> QED BY <1>1, <1>5, <2>2, Starts, Layout
<1>6. CASE a = "pinout"
  <2>1. AreaSize(a) \in Nat /\ AreaSize(a) <= FAT_SECTORS_PER_CLUSTER * s
    BY <1>6, Sizes
  <2>2. up \in Nat /\ up <= FAT_SECTORS_PER_CLUSTER
    BY <1>1, <2>1, UpWithin, Layout
  <2> QED BY <1>1, <1>6, <2>2, Starts, Layout
<1> QED BY <1>2, <1>3, <1>4, <1>5, <1>6 DEF Area

CmdType == [op : {"none", "read", "uf2", "other"}, area : Area \cup {"none"},
            lba : 0 .. FAT_SECTORS, count : 0 .. FAT_SECTORS]

(* Of the lengths of data FileInv knows already. *)
TypeInv ==
    /\ pinout_md_len \in PinoutSizes
    /\ {ejected, reset_active, ready} \subseteq BOOLEAN
    /\ session \in Nat
    /\ cmd \in CmdType /\ cmd.lba + cmd.count <= FAT_SECTORS
    /\ sectors \in 0 .. cmd.count
    /\ writes \in 0 .. MaxWrites

LEMMA TypeInit == Init => TypeInv
<1> SUFFICES ASSUME Init PROVE TypeInv
  OBVIOUS
<1>1. FAT_SECTORS \in Nat /\ MaxWrites \in Nat
  BY GeometryAssumption DEF FAT_SECTORS
<1>2. 0 \in 0 .. FAT_SECTORS
  BY <1>1
<1>3. NoCommand \in CmdType
  BY <1>2 DEF NoCommand, CmdType
<1>4. cmd \in CmdType /\ cmd.lba + cmd.count <= FAT_SECTORS /\ sectors \in 0 .. cmd.count
  BY <1>1, <1>3 DEF Init, NoCommand
<1>5. session \in Nat
  BY DEF Init
<1>6. {ejected, reset_active, ready} \subseteq BOOLEAN /\ pinout_md_len \in PinoutSizes
  BY DEF Init
<1>7. writes \in 0 .. MaxWrites
  BY <1>1 DEF Init
<1> QED BY <1>4, <1>5, <1>6, <1>7 DEF TypeInv

LEMMA BeginType ==
    ASSUME TypeInv, NEW op \in {"read", "uf2", "other"}, NEW a \in Area \cup {"none"},
           NEW lba \in Nat, NEW n \in Nat, lba + n <= FAT_SECTORS, sectors = 0,
           Begin(op, a, lba, n), writes' \in 0 .. MaxWrites
    PROVE  TypeInv'
<1>1. FAT_SECTORS \in Nat
  BY GeometryAssumption DEF FAT_SECTORS
<1>2. lba \in 0 .. FAT_SECTORS /\ n \in 0 .. FAT_SECTORS /\ 0 \in 0 .. n
  BY <1>1
<1>3. cmd' = [op |-> op, area |-> a, lba |-> lba, count |-> n] /\ sectors' = 0
  BY DEF Begin
<1>4. cmd' \in CmdType /\ cmd'.lba + cmd'.count <= FAT_SECTORS /\ sectors' \in 0 .. cmd'.count
  BY <1>2, <1>3 DEF CmdType
<1> QED BY <1>4 DEF TypeInv, Begin, disk

LEMMA TypeStep == TypeInv /\ FileInv /\ [Next]_vars => TypeInv'
<1> SUFFICES ASSUME TypeInv, FileInv, [Next]_vars PROVE TypeInv'
  OBVIOUS
<1>1. FAT_SECTORS \in Nat /\ MaxWrites \in Nat /\ MaxSectors \in Nat
  BY GeometryAssumption DEF FAT_SECTORS
<1>2. cmd.count \in Nat /\ cmd.lba \in Nat /\ sectors \in Nat /\ sectors <= cmd.count
  BY <1>1 DEF TypeInv, CmdType
<1>3. ASSUME NEW a \in Area, ReadArea(a) PROVE TypeInv'
  <2>1. sectors = 0 /\ PinoutInv
    BY <1>3 DEF ReadArea, Begin, FileInv, NoCommand
  <2>2. writes' \in 0 .. MaxWrites
    BY <1>3 DEF ReadArea, TypeInv
  <2> QED BY <1>3, <2>1, <2>2, AreaOnDisk, BeginType DEF ReadArea
<1>4. ASSUME NEW op \in {"uf2", "other"}, NEW lba \in 0 .. FAT_SECTORS - 1,
             NEW n \in 1 .. MaxSectors, WriteSectors(op, lba, n)
      PROVE  TypeInv'
  <2>1. sectors = 0
    BY <1>4 DEF WriteSectors, Begin, FileInv, NoCommand
  <2>2. writes' \in 0 .. MaxWrites
    BY <1>1, <1>4 DEF WriteSectors, TypeInv
  <2>3. lba \in Nat /\ n \in Nat
    BY <1>1
  <2> QED BY <1>4, <2>1, <2>2, <2>3, BeginType DEF WriteSectors
<1>5. CASE Read
  <2>1. sectors' \in 0 .. cmd'.count
    BY <1>2, <1>5 DEF Read
  <2> QED BY <1>5, <2>1 DEF Read, TypeInv, disk
<1>6. CASE Write
  <2>1. sectors' \in 0 .. cmd'.count
    BY <1>2, <1>6 DEF Write, Writing
  <2>2. session' \in {session, session + 1}
    BY <1>6, Zenon DEF Write
  <2> QED BY <1>6, <2>1, <2>2 DEF Write, TypeInv, disk
<1>7. CASE Complete
  <2>1. NoCommand \in CmdType /\ NoCommand.lba + NoCommand.count <= FAT_SECTORS
        /\ 0 \in 0 .. NoCommand.count
    BY <1>1 DEF NoCommand, CmdType
  <2>2. session' \in {session, 0} /\ reset_active' \in {reset_active, TRUE}
    BY <1>7, Zenon DEF Complete
  <2>3. session' \in Nat
    BY <2>2 DEF TypeInv
  <2>4. reset_active' \in BOOLEAN
    <3>1. reset_active \in BOOLEAN
      BY DEF TypeInv
    <3> QED BY <2>2, <3>1, Zenon
  <2> QED BY <1>7, <2>1, <2>3, <2>4 DEF Complete, TypeInv, disk
<1>8. CASE reset_timer_cb \/ tud_msc_test_unit_ready_cb \/ UNCHANGED vars
  BY <1>8 DEF reset_timer_cb, tud_msc_test_unit_ready_cb, vars, disk, tinyusb, TypeInv
<1>9. ASSUME NEW start \in BOOLEAN, NEW load_eject \in BOOLEAN,
             tud_msc_start_stop_cb(start, load_eject)
      PROVE  TypeInv'
  BY <1>9 DEF tud_msc_start_stop_cb, tinyusb, TypeInv
<1> QED BY <1>3, <1>4, <1>5, <1>6, <1>7, <1>8, <1>9 DEF Next, tud_task

(* The disk keeps its types: for every geometry with room for the files,   *)
(* no command passes the end of the disk or its own length, and what a     *)
(* host has read is whole sectors.                                         *)
THEOREM TypeCorrect == Spec => []TypeOK
<1>1. TypeInv /\ FileInv => TypeOK
  <2> SUFFICES ASSUME TypeInv, FileInv PROVE TypeOK
    OBVIOUS
  <2>1. pinout_size \in 0 .. MSC_PINOUT_MAX
    <3>1. pinout_size \in Nat /\ pinout_size <= FAT_SECTORS_PER_CLUSTER * FAT_SECTOR_SIZE
      BY Sizes DEF FileInv
    <3>2. MSC_PINOUT_MAX \in Nat
      BY GeometryAssumption DEF MSC_PINOUT_MAX
    <3> QED BY <3>1, <3>2 DEF MSC_PINOUT_MAX
  <2>2. Len(data) = IF cmd.op = "read" THEN sectors * FAT_SECTOR_SIZE ELSE 0
    BY DEF FileInv
  <2> QED BY <2>1, <2>2 DEF TypeInv, TypeOK, CmdType
<1> QED BY <1>1, FileInit, FileStep, TypeInit, TypeStep, PTL DEF Spec
=============================================================================
