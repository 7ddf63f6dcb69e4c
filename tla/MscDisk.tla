------------------------------- MODULE MscDisk -------------------------------
(***************************************************************************)
(* The disk that main/msc.c pretends to be: a FAT16 volume of which only   *)
(* the first sectors exist, with two read-only files.  Reads are answered  *)
(* from memory; a write changes nothing on the disk, but UF2 blocks that   *)
(* reach the free clusters go to the flasher (module UF2Flasher, of which  *)
(* this module knows only what passes between them).                       *)
(*                                                                         *)
(* TinyUSB (external) runs one SCSI command at a time, in calls of one     *)
(* sector, and repeats a call that took nothing.  The host (external)      *)
(* finds its way by the boot sector, the directory and the table, the code *)
(* by comparing sector numbers: the two must agree.                        *)
(***************************************************************************)
EXTENDS Integers, Sequences, FiniteSets

CONSTANTS
    FAT_CLUSTERS, FAT_SECTORS_PER_CLUSTER, FAT_SECTOR_SIZE, FAT_ROOT_SECTORS,
    FAT_ROOT_ENTRY_SIZE,
    MSC_README_SIZE,
    PinoutSizes,          \* what pinout_md_len may be
    MaxSectors,           \* bound of the model: sectors of a WRITE10 command
    MaxWrites             \* bound of the model: WRITE10 commands

FAT_SECTORS == FAT_CLUSTERS * FAT_SECTORS_PER_CLUSTER
FAT_BOOT_SECTORS == 1
FAT16_CLUSTER_BYTES == 2
FAT_TABLE_SECTORS == (FAT_CLUSTERS * FAT16_CLUSTER_BYTES) \div FAT_SECTOR_SIZE
FAT_ROOT_ENTRIES == (FAT_ROOT_SECTORS * FAT_SECTOR_SIZE) \div FAT_ROOT_ENTRY_SIZE
MSC_PINOUT_MAX == FAT_SECTORS_PER_CLUSTER * FAT_SECTOR_SIZE

(* The fields of msc_disk_boot_sector that say where things are. *)
msc_disk_boot_sector ==
    [bytes_per_sector |-> FAT_SECTOR_SIZE,
     sectors_per_cluster |-> FAT_SECTORS_PER_CLUSTER,
     reserved_sectors |-> FAT_BOOT_SECTORS,
     fat_table_copies |-> 1,
     root_entries |-> FAT_ROOT_ENTRIES,
     no_small_sectors |-> FAT_SECTORS,
     fat_table_sectors |-> FAT_TABLE_SECTORS]

(* The entries of clusters 0, 1, 2 and 3. *)
msc_disk_fat_table_sector0 == <<"media", "reserved", "end", "end">>

(* The directory: a label and two files of one cluster each. *)
msc_disk_root_directory_sector0 ==
    [readme |-> [cluster |-> 2], pinout |-> [cluster |-> 3]]

ASSUME GeometryAssumption ==
    /\ {FAT_CLUSTERS, FAT_SECTORS_PER_CLUSTER, FAT_SECTOR_SIZE, FAT_ROOT_SECTORS,
        FAT_ROOT_ENTRY_SIZE} \subseteq Nat \ {0}
    /\ (FAT_CLUSTERS * FAT16_CLUSTER_BYTES) % FAT_SECTOR_SIZE = 0
    /\ (FAT_ROOT_SECTORS * FAT_SECTOR_SIZE) % FAT_ROOT_ENTRY_SIZE = 0
    /\ FAT16_CLUSTER_BYTES * 4 <= FAT_SECTOR_SIZE /\ FAT_ROOT_ENTRY_SIZE * 3 <= FAT_SECTOR_SIZE
    /\ MSC_README_SIZE \in Nat /\ MSC_README_SIZE < FAT_SECTOR_SIZE
    /\ PinoutSizes \subseteq Nat /\ MaxSectors \in Nat /\ MaxWrites \in Nat

FIRST_FAT_SECTOR == FAT_BOOT_SECTORS
FIRST_ROOT_SECTOR == FIRST_FAT_SECTOR + FAT_TABLE_SECTORS
FIRST_README_SECTOR == FIRST_ROOT_SECTOR + FAT_ROOT_SECTORS
FIRST_PINOUT_SECTOR == FIRST_README_SECTOR + FAT_SECTORS_PER_CLUSTER
FIRST_ELSE_SECTOR == FIRST_PINOUT_SECTOR + FAT_SECTORS_PER_CLUSTER

(* The disk has room for its own files: they end at sector 43 of 49152.   *)
ASSUME RoomAssumption == FIRST_ELSE_SECTOR <= FAT_SECTORS

IS_LBA_PINOUT(lba) == lba >= FIRST_PINOUT_SECTOR /\ lba < FIRST_ELSE_SECTOR

IS_LBA_ELSE(lba) == lba >= FIRST_ELSE_SECTOR

Min2(m, n) == IF m < n THEN m ELSE n

-----------------------------------------------------------------------------
(* How a host understands the disk (external) *)

Up(n, d) == (n + d - 1) \div d

FirstData ==
    LET b == msc_disk_boot_sector IN
    b.reserved_sectors + b.fat_table_copies * b.fat_table_sectors
        + Up(b.root_entries * FAT_ROOT_ENTRY_SIZE, b.bytes_per_sector)

ClusterSector(c) == FirstData + (c - 2) * msc_disk_boot_sector.sectors_per_cluster

Clusters ==
    2 .. 1 + (msc_disk_boot_sector.no_small_sectors - FirstData)
                \div msc_disk_boot_sector.sectors_per_cluster

FreeClusters == {c \in Clusters : c + 1 > Len(msc_disk_fat_table_sector0)}

SectorsOf(c) ==
    ClusterSector(c) .. ClusterSector(c) + msc_disk_boot_sector.sectors_per_cluster - 1

FreeSectors == UNION {SectorsOf(c) : c \in FreeClusters}

-----------------------------------------------------------------------------
VARIABLES
    pinout_md_len,        \* the length of the embedded file
    pinout_size,          \* its size in the directory, written by msc_init
    ejected,
    reset_active,         \* serial_handler_is_reset_active(): a session has just ended
    session,              \* UF2 blocks the flasher has taken in the open session,
                          \*   0 when none is open (msc_last_block_written = -1)
    cmd,                  \* TinyUSB: the command it runs, of so many sectors from lba on
    sectors,              \* TinyUSB: sectors of it done
    data,                 \* what the host has read in this command
    writes,               \* WRITE10 commands so far
    ready                 \* what TEST UNIT READY last told the host

disk == <<pinout_md_len, pinout_size, ejected>>
tinyusb == <<cmd, sectors, data>>
vars == <<disk, reset_active, session, tinyusb, writes, ready>>

Area == {"boot", "fat", "root", "readme", "pinout"}
Zero == <<"zero", 0>>
Bytes(area, from, n) == [i \in 1 .. n |-> <<area, from + i - 1>>]
Zeros(n) == [i \in 1 .. n |-> Zero]

NoCommand == [op |-> "none", area |-> "none", lba |-> 0, count |-> 0]

TypeOK ==
    /\ pinout_md_len \in PinoutSizes /\ pinout_size \in 0 .. MSC_PINOUT_MAX
    /\ {ejected, reset_active, ready} \subseteq BOOLEAN
    /\ session \in Nat
    /\ cmd \in [op : {"none", "read", "uf2", "other"}, area : Area \cup {"none"},
                lba : 0 .. FAT_SECTORS, count : 0 .. FAT_SECTORS]
    /\ cmd.lba + cmd.count <= FAT_SECTORS
    /\ sectors \in 0 .. cmd.count
    /\ Len(data) = IF cmd.op = "read" THEN sectors * FAT_SECTOR_SIZE ELSE 0
    /\ writes \in 0 .. MaxWrites

(* Mutant of PinoutSize: not clamped to the one cluster. *)
PinoutWhole(n) == n

PinoutSize(n) == Min2(n, MSC_PINOUT_MAX)

(* msc_init *)
Init ==
    /\ pinout_md_len \in PinoutSizes
    /\ pinout_size = PinoutSize(pinout_md_len)
    /\ ejected = FALSE /\ reset_active = FALSE /\ session = 0
    /\ cmd = NoCommand /\ sectors = 0 /\ data = << >>
    /\ writes = 0 /\ ready = TRUE

-----------------------------------------------------------------------------
(* tud_msc_read10_cb *)

(* Mutant of PinoutSector: each sector of the file from its beginning. *)
PinoutSectorFirst(lba) == Bytes("pinout", 0, Min2(pinout_md_len, FAT_SECTOR_SIZE))

(* What there is of the file in one of its sectors. *)
PinoutSector(lba) ==
    LET pin_off == (lba - FIRST_PINOUT_SECTOR) * FAT_SECTOR_SIZE IN
    IF pin_off < pinout_md_len
    THEN Bytes("pinout", pin_off, Min2(pinout_md_len - pin_off, FAT_SECTOR_SIZE)) ELSE << >>

(* The part of a sector that is kept in memory. *)
InMemory(lba) ==
    CASE lba < FIRST_FAT_SECTOR -> Bytes("boot", 0, FAT_SECTOR_SIZE)
      [] lba = FIRST_FAT_SECTOR ->
            Bytes("fat", 0, FAT16_CLUSTER_BYTES * Len(msc_disk_fat_table_sector0))
      [] lba = FIRST_ROOT_SECTOR -> Bytes("root", 0, 3 * FAT_ROOT_ENTRY_SIZE)
      [] lba = FIRST_README_SECTOR -> Bytes("readme", 0, MSC_README_SIZE)
      [] IS_LBA_PINOUT(lba) -> PinoutSector(lba)
      [] OTHER -> << >>

tud_msc_read10_cb(lba) ==
    data' = data \o InMemory(lba) \o Zeros(FAT_SECTOR_SIZE - Len(InMemory(lba)))

Read ==
    /\ cmd.op = "read" /\ sectors < cmd.count
    /\ tud_msc_read10_cb(cmd.lba + sectors)
    /\ sectors' = sectors + 1
    /\ UNCHANGED <<disk, reset_active, session, cmd, writes, ready>>

-----------------------------------------------------------------------------
(* tud_msc_write10_cb and tud_msc_write10_complete_cb *)

Writing == cmd.op \in {"uf2", "other"} /\ sectors < cmd.count

(* Mutant of MayTake: the test for the reset window is left out.           *)
MayTakeInReset == TRUE

(* While the target resets nothing is taken, and TinyUSB tries again.      *)
MayTake == ~reset_active

(* A UF2 block where one is looked for opens a session or goes on with it. *)
Write ==
    /\ Writing /\ MayTake
    /\ sectors' = sectors + 1
    /\ session' = IF cmd.op = "uf2" /\ IS_LBA_ELSE(cmd.lba + sectors)
                  THEN session + 1 ELSE session
    /\ UNCHANGED <<disk, reset_active, cmd, data, writes, ready>>

(* The end of a command; that of a WRITE10 ends the session, and the       *)
(* target is reset.                                                        *)
Complete ==
    /\ cmd.op # "none" /\ sectors = cmd.count
    /\ IF cmd.op # "read" /\ session # 0
       THEN session' = 0 /\ reset_active' = TRUE
       ELSE UNCHANGED <<session, reset_active>>
    /\ cmd' = NoCommand /\ sectors' = 0 /\ data' = << >>
    /\ UNCHANGED <<disk, writes, ready>>

reset_timer_cb ==
    /\ reset_active
    /\ reset_active' = FALSE
    /\ UNCHANGED <<disk, session, tinyusb, writes, ready>>

-----------------------------------------------------------------------------
(* The other commands *)

tud_msc_test_unit_ready_cb ==
    /\ cmd = NoCommand
    /\ ready' = ~ejected
    /\ UNCHANGED <<disk, reset_active, session, tinyusb, writes>>

(* A load is answered and changes nothing.                                 *)
tud_msc_start_stop_cb(start, load_eject) ==
    /\ cmd = NoCommand
    /\ ejected' = (ejected \/ (load_eject /\ ~start))
    /\ UNCHANGED <<pinout_md_len, pinout_size, reset_active, session, tinyusb, writes, ready>>

-----------------------------------------------------------------------------
(* The host *)

AreaStart(a) ==
    LET b == msc_disk_boot_sector IN
    CASE a = "boot" -> 0
      [] a = "fat" -> b.reserved_sectors
      [] a = "root" -> b.reserved_sectors + b.fat_table_copies * b.fat_table_sectors
      [] a \in {"readme", "pinout"} -> ClusterSector(msc_disk_root_directory_sector0[a].cluster)

(* The bytes a host takes an area to have, and those that are not zero.    *)
AreaSize(a) ==
    LET b == msc_disk_boot_sector IN
    CASE a = "boot" -> b.bytes_per_sector
      [] a = "fat" -> b.fat_table_sectors * b.bytes_per_sector
      [] a = "root" -> b.root_entries * FAT_ROOT_ENTRY_SIZE
      [] a = "readme" -> MSC_README_SIZE
      [] a = "pinout" -> pinout_size

Kept(a) ==
    CASE a = "fat" -> FAT16_CLUSTER_BYTES * 4
      [] a = "root" -> 3 * FAT_ROOT_ENTRY_SIZE
      [] OTHER -> AreaSize(a)

Begin(op, area, lba, count) ==
    /\ ready /\ cmd = NoCommand
    /\ cmd' = [op |-> op, area |-> area, lba |-> lba, count |-> count]
    /\ UNCHANGED <<disk, reset_active, session, sectors, data, ready>>

ReadArea(a) ==
    /\ Begin("read", a, AreaStart(a), Up(AreaSize(a), FAT_SECTOR_SIZE))
    /\ UNCHANGED writes

(* UF2 blocks go to free clusters, changes of the file system anywhere.    *)
WriteSectors(op, lba, count) ==
    /\ writes < MaxWrites /\ writes' = writes + 1
    /\ op = "uf2" => lba .. lba + count - 1 \subseteq FreeSectors
    /\ lba + count <= FAT_SECTORS
    /\ Begin(op, "none", lba, count)

-----------------------------------------------------------------------------
tud_task == Read \/ Write \/ Complete

Next ==
    \/ \E a \in Area : ReadArea(a)
    \/ \E op \in {"uf2", "other"} : \E lba \in 0 .. FAT_SECTORS - 1 : \E n \in 1 .. MaxSectors :
           WriteSectors(op, lba, n)
    \/ tud_task
    \/ reset_timer_cb
    \/ tud_msc_test_unit_ready_cb
    \/ \E start, load_eject \in BOOLEAN : tud_msc_start_stop_cb(start, load_eject)

Spec == Init /\ [][Next]_vars

-----------------------------------------------------------------------------
(* A host that finds a file by the boot sector, the directory and the      *)
(* table reads its bytes, all that the directory promises, wherever the    *)
(* sector numbers in the code have put them; what was written meanwhile    *)
(* does not show.                                                          *)
FilesReadable ==
    cmd.op = "read" =>
        \A i \in 1 .. Min2(Len(data), AreaSize(cmd.area)) :
            data[i] = IF i <= Kept(cmd.area) THEN <<cmd.area, i - 1>> ELSE Zero

(* A session is that of one WRITE10: it holds every UF2 block the command  *)
(* has brought so far to clusters the table shows as free, nothing of      *)
(* another command, and it is never opened on a target that the command    *)
(* before has left in reset.                                               *)
SessionOfCommand ==
    /\ session = IF cmd.op = "uf2" THEN sectors ELSE 0
    /\ session # 0 => ~reset_active
=============================================================================
