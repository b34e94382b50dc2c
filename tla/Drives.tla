-------------------------------- MODULE Drives --------------------------------
(***************************************************************************)
(* The drives of the machine side by side: the AHCI port (Ahci), the IDE   *)
(* channels (Ide), and the start that makes letters of them (Volumes).     *)
(***************************************************************************)
EXTENDS Ahci, Integers, Sequences

CONSTANTS
  Kinds, MaxReads,      \* see Ide
  Machines              \* see Volumes

VARIABLES
  kinds, place, unit, ideXirq, work, fifo, signature, bad, readCommand, read, todo, answer,
  content, laterReads,
  drives, stage, back, drive, entry, part, found, engine, devices, filesystems, failures

I == INSTANCE Ide
V == INSTANCE Volumes

idevars ==
  <<kinds, place, unit, ideXirq, work, fifo, signature, bad, readCommand, read, todo, answer,
    content, laterReads>>
volvars ==
  <<drives, stage, back, drive, entry, part, found, engine, devices, filesystems, failures>>

(* A read that begins while no drive is at work stores what was asked for (see Ide). *)
CalmReadsAreExact == I!CalmReadsAreExact

(* A letter is for a partition and goes on reading it, or a later one (see Volumes). *)
LettersFollowTheWalk == V!LettersFollowTheWalk

(* The boot stops for one of the reasons that are named (see Volumes). *)
StopsForAReason == V!StopsForAReason

(* A FAT32 volume boots, as src/README.md says (see Volumes). *)
FAT32Boots == V!FAT32Boots
=============================================================================
