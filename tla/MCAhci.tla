-------------------------------- MODULE MCAhci --------------------------------
(***************************************************************************)
(* Small instances of the drives: two tasks on one AHCI port, the four     *)
(* places of the IDE driver, or the start of several drives.               *)
(***************************************************************************)
EXTENDS Drives, TLC

VARIABLE machine       \* which of the three it is

Block(name, kernel) ==
  [bytes |-> 512, reserved |-> 1, tables |-> 2, size16 |-> 3, size32 |-> 0, name |-> name,
   kernel |-> kernel]
Fat32(name, kernel) == [Block(name, kernel) EXCEPT !.size16 = 0, !.size32 = 3]

Partition(type, start) == [type |-> type, start |-> start]
Guid(data, start) == [data |-> data, start |-> start]

Disk(bus, partitions, gpt, blocks) ==
  [bus |-> bus, linked |-> 1, table |-> partitions, gpt |-> gpt, blocks |-> blocks]

Boot10 == 10 :> Block("mkfs.", 1)
Boot40 == 40 :> Block("FAT16", 0)

(* Partitions of each kind; two volumes, in a table of partitions and in one of GUIDs. *)
Single == Disk("ahci", <<Partition("empty", 0), Partition("fat", 10)>>, <<>>, Boot10)
Double == Disk("ahci", <<Partition("fat", 10), Partition("fat", 40)>>, <<>>, Boot10 @@ Boot40)
Mixed == Disk("ahci", <<Partition("ext", 60), Partition("fat", 10)>>, <<>>, Boot10)
Guids == Disk("ahci", <<Partition("gpt", 1)>>, <<Guid(1, 10), Guid(0, 30), Guid(1, 40)>>, Boot10 @@ Boot40)
OtherGuid == Disk("ahci", <<Partition("gpt", 1)>>, <<Guid(1, 10), Guid(1, 50)>>,
                  Boot10 @@ (50 :> Block("other", 0)))
Foreign == Disk("usb", <<Partition("fat", 10), Partition("unknown", 40)>>, <<>>, Boot10)
Stick == Disk("usb", <<>>, <<>>, 0 :> Block("mkfs.", 1))
Stick32 == Disk("usb", <<>>, <<>>, 0 :> Fat32("mkfs.", 1))
Platter == Disk("ide", <<Partition("fat", 10)>>, <<>>, Boot10)
Floppy == Disk("ide", <<>>, <<>>, 0 :> Block("FAT16", 1))
NoDrive == [Single EXCEPT !.linked = 0]

Disks == {Single, Double, Mixed, Guids, OtherGuid, Foreign, Stick, Stick32, Platter, Floppy, NoDrive}
MCMachines == {<<>>} \cup {<<d>> : d \in Disks} \cup {<<d, e>> : d \in Disks, e \in Disks}

ASSUME IdeConstants == I!NoneAssumption
ASSUME VolumesConstants == V!MachinesAssumption

AhciRests ==
  /\ interruptStatus = 0 /\ commandIssue = 0 /\ halted = 0 /\ write = "read" /\ table = Cleared
  /\ disk = [s \in Sectors |-> None] /\ buffer = [t \in Tasks |-> None]
  /\ pc = [t \in Tasks |-> "idle"] /\ request = [t \in Tasks |-> NoRequest] /\ mixed = {}
IdeRests ==
  /\ kinds = <<>> /\ place = "idle" /\ unit = 0 /\ ideXirq = 0 /\ work = <<>> /\ fifo = <<>>
  /\ signature = <<>> /\ bad = <<>> /\ readCommand = <<>> /\ read = [calm |-> 0] /\ todo = <<>>
  /\ answer = 0 /\ content = None /\ laterReads = 0
VolumesRest ==
  /\ drives = <<>> /\ stage = "off" /\ back = "off" /\ drive = 0 /\ entry = 0 /\ part = 0
  /\ found = 0 /\ engine = "on" /\ devices = <<>> /\ filesystems = <<>> /\ failures = {}

MCInit ==
  \/ machine = "ahci" /\ Init /\ IdeRests /\ VolumesRest
  \/ machine = "ide" /\ I!Init /\ kinds[3] = "none" /\ AhciRests /\ VolumesRest
  \/ machine = "boot" /\ V!Init /\ AhciRests /\ IdeRests

MCNext ==
  \/ machine = "ahci" /\ Next /\ UNCHANGED <<machine, idevars, volvars>>
  \/ machine = "ide" /\ I!Next /\ UNCHANGED <<machine, vars, volvars>>
  \/ machine = "boot" /\ V!Next /\ UNCHANGED <<machine, vars, idevars>>

MCvars == <<machine, vars, idevars, volvars>>

MCFairness ==
  /\ \A t \in Tasks : WF_MCvars(machine = "ahci" /\ Step(t) /\ UNCHANGED <<machine, idevars, volvars>>)
  /\ WF_MCvars(machine = "ahci" /\ (Execute \/ Break) /\ UNCHANGED <<machine, idevars, volvars>>)
  /\ WF_MCvars(machine = "ide" /\ I!Driver /\ UNCHANGED <<machine, vars, volvars>>)
  /\ \A c \in 1 .. 2 : WF_MCvars(machine = "ide" /\ I!DriveAnswers(c) /\ UNCHANGED <<machine, vars, volvars>>)
  /\ WF_MCvars(machine = "boot" /\ V!Boot /\ UNCHANGED <<machine, vars, idevars>>)
  /\ WF_MCvars(machine = "boot" /\ V!EngineStops /\ UNCHANGED <<machine, vars, idevars>>)

MCSpec == MCInit /\ [][MCNext]_MCvars /\ MCFairness

(* Transfers of the port, the start of the IDE drives with its reads, and the boot all *)
(* come to an end (see Ahci, Ide and Volumes).                                          *)
DrivesEnd ==
  /\ TransferEnds
  /\ machine = "ide" => I!DriverEnds
  /\ machine = "boot" => V!BootEnds
=============================================================================
