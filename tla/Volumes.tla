-------------------------------- MODULE Volumes --------------------------------
(***************************************************************************)
(* How the drives of the machine become drive letters while it boots:      *)
(* initialise_pci_driver, the start of an AHCI port (kernel/drivers/       *)
(* ahci.c), the table of partitions (fs/mbr.c), the boot block of a FAT    *)
(* volume (fs/fat.c) and the tables of device.c, up to kernel_main's look  *)
(* at "A:".                                                                *)
(*                                                                         *)
(* A drive has one offset, which all of its letters share: each partition  *)
(* that is looked at moves it.  Any transfer may fail.  The boot runs      *)
(* alone; what else it starts (cards, keyboard) is not here.               *)
(***************************************************************************)
EXTENDS Integers, Sequences

CONSTANTS
  Machines,     \* the machines considered: the drives in the order of their discovery
  None

(* A drive: its bus; whether its port has a link; its partitions, each of type "gpt", "fat", *)
(* "ext", "empty" or "unknown"; those of its table of GUIDs; and the boot blocks, by sector: *)
(* the sector size, the reserved sectors, the tables and their 16-bit and 32-bit sizes, the  *)
(* name, and whether the kernel is in the volume.                                            *)
VARIABLES
  drives,
  stage,        \* what the boot is at
  back,         \* where it goes on after a boot block
  drive,        \* the drive that is looked at
  entry,        \* of the partition table
  part,         \* of the GUID table
  found,        \* foundcount
  engine,       \* the command engine of the port: "on", "stopping", "off"
  devices,      \* blockdevices: the drive and its offset
  filesystems,  \* its device and first_root_dir_sector; ghost: where its boot block lay
  failures      \* ghost: the drives at which a transfer failed

volumesVars == <<drives, stage, back, drive, entry, part, found, engine, devices, filesystems, failures>>

Drive == drives[drive]

(* A block that begins a volume has a sector size. *)
Blocks ==
  [bytes : Nat \ {0}, reserved : Nat, tables : Nat, size16 : Nat, size32 : Nat, name : STRING,
   kernel : {0, 1}]
Types == {"gpt", "fat", "ext", "empty", "unknown"}

MachinesAssumption ==
  \A m \in Machines :
    /\ Len(m) \in Nat /\ DOMAIN m = 1 .. Len(m)
    /\ \A i \in DOMAIN m :
         /\ m[i].table \in Seq([type : Types, start : Nat])
         /\ m[i].gpt \in Seq([data : {0, 1}, start : Nat])
         /\ \A s \in DOMAIN m[i].blocks : m[i].blocks[s] \in Blocks

(* What is read at a sector where no volume begins: a block without a sector size. *)
Blank == [bytes |-> 0, reserved |-> 0, tables |-> 0, size16 |-> 0, size32 |-> 0,
          name |-> "other", kernel |-> 0]
BlockAt(d, sector) == IF sector \in DOMAIN d.blocks THEN d.blocks[sector] ELSE Blank

(* The entries that initialise_fs is given: an IDE drive's are taken from its identity. *)
TableOf(d) == IF d.bus = "ide" THEN <<>> ELSE d.table
Table == TableOf(Drive)

(* The first sector of the root directory; the size of a table is the 16-bit one. *)
FirstRoot(b) == b.reserved + b.tables * b.size16

-----------------------------------------------------------------------------
NextDrive == drive' = drive + 1 /\ stage' = "scan"
Ok(ok) == failures' = IF ok = 1 THEN failures ELSE failures \cup {drive}

SetOffset(n) == devices' = [devices EXCEPT ![Len(devices)].offset = n]
Register(offset) == devices' = Append(devices, [drive |-> drive, offset |-> offset])

LookAtTable == stage' = "table" /\ entry' = 1 /\ found' = 0

SkipPort ==
  /\ stage = "scan" /\ drive <= Len(drives)
  /\ Drive.bus = "ahci" /\ Drive.linked = 0
  /\ NextDrive
  /\ UNCHANGED <<drives, back, entry, part, found, engine, devices, filesystems, failures>>

(* ahci_port_configure: the engine is told to stop, waited for and started again. *)
StopPort ==
  /\ stage = "scan" /\ drive <= Len(drives)
  /\ Drive.bus = "ahci" /\ Drive.linked = 1
  /\ stage' = "stop"
  /\ engine' = "stopping"
  /\ UNCHANGED <<drives, back, drive, entry, part, found, devices, filesystems, failures>>

EngineStops ==
  /\ engine = "stopping"
  /\ engine' = "off"
  /\ UNCHANGED <<drives, stage, back, drive, entry, part, found, devices, filesystems, failures>>

StartPort ==
  /\ stage = "stop" /\ engine = "off"
  /\ stage' = "first"
  /\ engine' = "on"
  /\ UNCHANGED <<drives, back, drive, entry, part, found, devices, filesystems, failures>>

(* The first sector of an AHCI drive is read before it is registered, with an offset of 3. *)
FirstSector(ok) ==
  /\ stage = "first"
  /\ Ok(ok)
  /\ \/ ok = 1 /\ Register(3) /\ LookAtTable /\ UNCHANGED drive
     \/ ok = 0 /\ NextDrive /\ UNCHANGED <<entry, found, devices>>
  /\ UNCHANGED <<drives, back, part, engine, filesystems>>

(* An IDE drive, and a stick, whose first sector is read when it has been registered. *)
OtherDrive(ok) ==
  /\ stage = "scan" /\ drive <= Len(drives)
  /\ Drive.bus # "ahci"
  /\ Drive.bus = "ide" => ok = 1
  /\ Ok(ok)
  /\ Register(0)
  /\ \/ ok = 1 /\ LookAtTable /\ UNCHANGED drive
     \/ ok = 0 /\ NextDrive /\ UNCHANGED <<entry, found>>
  /\ UNCHANGED <<drives, back, part, engine, filesystems>>

-----------------------------------------------------------------------------
(* initialise_fs. *)
Type(t) == stage = "table" /\ entry <= Len(Table) /\ Table[entry].type = t

LookAtFatUncounted ==   \* faulty variant of LookAtFat: foundcount stays
  /\ Type("fat")
  /\ SetOffset(Table[entry].start)
  /\ stage' = "boot"
  /\ back' = "table"
  /\ UNCHANGED <<drives, drive, entry, part, found, engine, filesystems, failures>>

LookAtFat ==
  /\ Type("fat")
  /\ SetOffset(Table[entry].start)
  /\ found' = found + 1
  /\ stage' = "boot"
  /\ back' = "table"
  /\ UNCHANGED <<drives, drive, entry, part, engine, filesystems, failures>>

(* The superblock is read and nothing is registered. *)
LookAtExt(ok) ==
  /\ Type("ext")
  /\ Ok(ok)
  /\ SetOffset(Table[entry].start)
  /\ found' = found + 1
  /\ entry' = entry + 1
  /\ UNCHANGED <<drives, stage, back, drive, part, engine, filesystems>>

LookAtEmptyReturns ==   \* faulty variant of LookAtEmpty: the walk ends at an empty entry
  /\ Type("empty")
  /\ NextDrive
  /\ UNCHANGED <<drives, back, entry, part, found, engine, devices, filesystems, failures>>

LookAtEmpty ==
  /\ Type("empty")
  /\ entry' = entry + 1
  /\ UNCHANGED <<drives, stage, back, drive, part, found, engine, devices, filesystems, failures>>

(* An endless loop. *)
LookAtUnknown ==
  /\ Type("unknown")
  /\ stage' = "stopped"
  /\ UNCHANGED <<drives, back, drive, entry, part, found, engine, devices, filesystems, failures>>

(* The GUID table is read; when it cannot be, the entries after this one are not looked at. *)
LookAtGpt(ok) ==
  /\ Type("gpt")
  /\ Ok(ok)
  /\ SetOffset(Table[entry].start)
  /\ found' = found + 1
  /\ \/ ok = 1 /\ stage' = "gpt" /\ part' = 1 /\ UNCHANGED drive
     \/ ok = 0 /\ NextDrive /\ UNCHANGED part
  /\ UNCHANGED <<drives, back, entry, engine, filesystems>>

(* A partition of the right kind is looked into, and is a FAT volume if its block says so. *)
LookAtPart(ok) ==
  /\ stage = "gpt" /\ part <= Len(Drive.gpt)
  /\ Ok(ok)
  /\ LET p == Drive.gpt[part]
     IN IF p.data = 0
          THEN ok = 1 /\ part' = part + 1 /\ UNCHANGED <<stage, back, drive, devices>>
          ELSE /\ SetOffset(p.start)
               /\ \/ ok = 0 /\ NextDrive /\ UNCHANGED <<back, part>>
                  \/ /\ ok = 1
                     /\ IF BlockAt(Drive, p.start).name # "other"
                          THEN stage' = "boot" /\ back' = "gpt" /\ UNCHANGED part
                          ELSE part' = part + 1 /\ UNCHANGED <<stage, back>>
                     /\ UNCHANGED drive
  /\ UNCHANGED <<drives, entry, found, engine, filesystems>>

PartsEnd ==
  /\ stage = "gpt" /\ part > Len(Drive.gpt)
  /\ stage' = "table"
  /\ entry' = entry + 1
  /\ UNCHANGED <<drives, back, drive, part, found, engine, devices, filesystems, failures>>

(* A drive without partitions is a volume. *)
TableEnds ==
  /\ stage = "table" /\ entry > Len(Table)
  /\ IF found = 0 THEN SetOffset(0) /\ stage' = "boot" /\ back' = "scan" /\ UNCHANGED drive
                  ELSE NextDrive /\ UNCHANGED <<devices, back>>
  /\ UNCHANGED <<drives, entry, part, found, engine, filesystems, failures>>

-----------------------------------------------------------------------------
(* fat_detect_and_initialise, which divides by the sector size of whatever it has read. *)
GoOn ==
  /\ stage' = back
  /\ drive' = IF back = "scan" THEN drive + 1 ELSE drive
  /\ entry' = IF back = "table" THEN entry + 1 ELSE entry
  /\ part' = IF back = "gpt" THEN part + 1 ELSE part

Offset == devices[Len(devices)].offset

BootBlockFails ==
  /\ stage = "boot"
  /\ Ok(0)
  /\ GoOn
  /\ UNCHANGED <<drives, back, found, engine, devices, filesystems>>

DivideError ==
  /\ stage = "boot"
  /\ BlockAt(Drive, Offset).bytes = 0
  /\ stage' = "stopped"
  /\ UNCHANGED <<drives, back, drive, entry, part, found, engine, devices, filesystems, failures>>

Mount ==
  /\ stage = "boot"
  /\ BlockAt(Drive, Offset).bytes # 0
  /\ GoOn
  /\ filesystems' =
       Append(filesystems, [device |-> Len(devices), start |-> Offset,
                            root |-> FirstRoot(BlockAt(Drive, Offset))])
  /\ UNCHANGED <<drives, back, found, engine, devices, failures>>

-----------------------------------------------------------------------------
(* The volume whose root directory a letter reads, or None: its sector is added to the *)
(* offset that the device has now.                                                     *)
TrueRoot(b) == b.reserved + b.tables * (IF b.size16 = 0 THEN b.size32 ELSE b.size16)
DriveOf(f) == drives[devices[f.device].drive]
VolumesRead(f) ==
  {s \in DOMAIN DriveOf(f).blocks :
     s + TrueRoot(DriveOf(f).blocks[s]) = devices[f.device].offset + f.root}

(* kernel_main goes on when the directory of the kernel can be listed in "A:". *)
LookForKernel(ok) ==
  /\ stage = "scan" /\ drive > Len(drives)
  /\ Ok(ok)
  /\ stage' =
       IF /\ ok = 1 /\ filesystems # <<>>
          /\ \E s \in VolumesRead(filesystems[1]) : DriveOf(filesystems[1]).blocks[s].kernel = 1
       THEN "running" ELSE "stopped"
  /\ UNCHANGED <<drives, back, drive, entry, part, found, engine, devices, filesystems>>

Init ==
  /\ drives \in Machines
  /\ stage = "scan"
  /\ back = "scan"
  /\ drive = 1
  /\ entry = 0
  /\ part = 0
  /\ found = 0
  /\ engine = "on"
  /\ devices = <<>>
  /\ filesystems = <<>>
  /\ failures = {}

Boot ==
  \/ SkipPort
  \/ StopPort
  \/ StartPort
  \/ LookAtFat
  \/ LookAtEmpty
  \/ LookAtUnknown
  \/ PartsEnd
  \/ TableEnds
  \/ BootBlockFails
  \/ DivideError
  \/ Mount
  \/ \E ok \in {0, 1} :
       \/ FirstSector(ok)
       \/ OtherDrive(ok)
       \/ LookAtExt(ok)
       \/ LookAtGpt(ok)
       \/ LookAtPart(ok)
       \/ LookForKernel(ok)

Next == Boot \/ EngineStops

(* The boot task runs, and an engine that is told to stop stops. *)
Fairness == WF_volumesVars(Boot) /\ WF_volumesVars(EngineStops)

Spec == Init /\ [][Next]_volumesVars /\ Fairness

-----------------------------------------------------------------------------
(* The partitions of a drive that the walk looks at: an entry of the table and, behind it, *)
(* one of the GUIDs that it leads to.                                                      *)
Entries(d) == {e \in DOMAIN TableOf(d) : TableOf(d)[e].type \in {"gpt", "fat", "ext"}}
Partitions(d) ==
  (Entries(d) \X {0})
  \cup {w \in Entries(d) \X DOMAIN d.gpt : TableOf(d)[w[1]].type = "gpt" /\ d.gpt[w[2]].data = 1}
Start(d, w) == IF w[2] = 0 THEN TableOf(d)[w[1]].start ELSE d.gpt[w[2]].start
NotAfter(v, w) == v[1] < w[1] \/ (v[1] = w[1] /\ v[2] <= w[2])

FollowsTheWalk(d, start, offset) ==
  IF Partitions(d) = {} THEN start = 0 /\ offset = 0
  ELSE \E v, w \in Partitions(d) : NotAfter(v, w) /\ Start(d, v) = start /\ Start(d, w) = offset

(* Every letter was found at the start of a partition, or of the drive if it has none, *)
(* and goes on reading its own volume unless a later partition of the same drive was   *)
(* looked at.                                                                          *)
LettersFollowTheWalk ==
  \A i \in DOMAIN filesystems :
    LET f == filesystems[i]
    IN FollowsTheWalk(DriveOf(f), f.start, devices[f.device].offset)

(* A drive that can be reached has a volume if it is one, or if a partition of its is one: *)
(* an entry is taken at its word, a partition of the GUID table by the name in its block.  *)
Whole(d) == \A e \in DOMAIN TableOf(d) : TableOf(d)[e].type = "empty"
IsVolume(d, w) ==
  IF w[2] = 0 THEN TableOf(d)[w[1]].type = "fat" ELSE BlockAt(d, Start(d, w)).name # "other"
HasVolume(d) ==
  /\ d.bus = "ahci" => d.linked = 1
  /\ Whole(d) \/ \E w \in Partitions(d) : IsVolume(d, w)

(* What the walk does not come past. *)
TakenAtItsWord(d) ==
  IF Whole(d) THEN {0}
  ELSE {TableOf(d)[e].start : e \in {j \in DOMAIN TableOf(d) : TableOf(d)[j].type = "fat"}}
Impassable(d) ==
  \/ \E e \in DOMAIN TableOf(d) : TableOf(d)[e].type = "unknown"
  \/ \E s \in TakenAtItsWord(d) : BlockAt(d, s).bytes = 0

FirstDrive == IF filesystems = <<>> THEN Len(drives) + 1 ELSE devices[filesystems[1].device].drive

Kept(f) == devices[f.device].offset = f.start
Kernel(f) == DriveOf(f).blocks[f.start].kernel
Fat32(f) == DriveOf(f).blocks[f.start].size16 = 0

(* The boot stops at a drive only if that drive cannot be walked through; and behind the  *)
(* last one only if the look at "A:" failed, or a drive before A:'s has a volume that it  *)
(* lost to a failed transfer, or A: is the first volume there is (or there is none) and   *)
(* was lost to a later partition, has no kernel, or is a FAT32 volume, of which the       *)
(* documentation says otherwise (see FAT32Boots).                                         *)
StopsForAReason ==
  stage = "stopped" =>
    IF drive <= Len(drives) THEN Impassable(Drive)
    ELSE \/ drive \in failures
         \/ \E i \in 1 .. (FirstDrive - 1) : HasVolume(drives[i]) /\ i \in failures
         \/ /\ \A i \in 1 .. (FirstDrive - 1) : ~HasVolume(drives[i])
            /\ \/ filesystems = <<>>
               \/ ~Kept(filesystems[1]) \/ Kernel(filesystems[1]) = 0 \/ Fat32(filesystems[1])

(* A machine whose A: is a FAT32 volume with the kernel boots from it when no transfer *)
(* fails: src/README.md lists fat32 as working.                                        *)
FAT32Boots ==
  stage = "stopped" /\ drive > Len(drives) /\ failures = {} /\ filesystems # <<>>
    /\ Kept(filesystems[1]) /\ Kernel(filesystems[1]) = 1
    => ~Fat32(filesystems[1])

(* The boot comes to an end. *)
BootEnds == stage = "scan" ~> stage \in {"running", "stopped"}
=============================================================================
