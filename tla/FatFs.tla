-------------------------------- MODULE FatFs --------------------------------
(***************************************************************************)
(* Reading and writing files of the FAT driver (kernel/drivers/fs/fat.c)   *)
(* on one directory of a volume, as built for 64 bits.                     *)
(*                                                                         *)
(* A call is a sequence of sector transfers, and every transfer is one     *)
(* action: between two of them the timer may hand the processor to another *)
(* task that is in the same driver, or the machine may be switched off.    *)
(* What two tasks do to each other inside one transfer is not shown here:  *)
(* that is a matter of the driver of the disk.                             *)
(* fat_write reads the directory, changes its copy, reads and writes back  *)
(* the first sector of the FAT when the file has no cluster yet, writes    *)
(* the directory, then the data.                                           *)
(*                                                                         *)
(* The search for a free cluster looks at the entries 100 to 255 of an     *)
(* array of 8-byte words, of which the sector fills the first 64: it reads *)
(* whatever the page held before, and what it marks is never written to    *)
(* the disk.  So the free clusters it sees are any subset of Scanned, and  *)
(* the FAT on the disk, which stays as it is, is not a variable here.      *)
(*                                                                         *)
(* A directory is one sector of entries, files and directories alike; a    *)
(* name nobody can ask for stands for an entry that is neither free nor    *)
(* found: a deleted one, whose first character is 0xE5.  An entry answers  *)
(* to every name that begins with its own letters, the dot and blanks left *)
(* out: the comparison stops at the end of the entry's name and does not   *)
(* look whether the name asked for ends there too.  Payloads are versions: *)
(* what the n-th write of a run stores is told from all others.            *)
(***************************************************************************)
EXTENDS Integers, FiniteSetsExt

CONSTANTS
  Tasks,
  Files,           \* the names that are asked for
  Deleted,         \* the name of an entry that was deleted
  Aliases,         \* pairs <<g, f>>: the letters of f begin with those of g
  NSlots,          \* entries of a directory sector (16)
  Scanned,         \* the clusters the search considers (100 .. 255)
  LastCluster,
  BytesPerSector,  \* (512)
  SectorsPerCluster,
  Entries,         \* the entries a directory may hold to begin with
  ParentIndex,     \* where the directory is listed in its parent (0 for the root)
  MaxSize,         \* bound: the largest write
  MaxWrites        \* bound: so many writes begin

ASSUME GeometryAssumption ==
  /\ NSlots \in Nat \ {0}
  /\ ParentIndex \in 0 .. NSlots - 1
  /\ BytesPerSector \in Nat \ {0}
  /\ SectorsPerCluster \in Nat \ {0}
  /\ LastCluster \in Nat
  /\ Scanned \subseteq 2 .. LastCluster
  /\ Deleted \notin Files
  /\ Aliases \in SUBSET (Files \X Files)

Slots == 0 .. NSlots - 1
Names == Files \cup {Deleted}
Clusters == 0 .. LastCluster
Sizes == 0 .. MaxSize

(* The sectors of cluster c begin at c * SectorsPerCluster; those of 0 and 1 are *)
(* the last ones before the data area, in the root directory or the FAT.         *)
Sectors == 0 .. (LastCluster + 1) * SectorsPerCluster - 1

(* attributes: 0 in an entry that was never used, 0x20 for a file. *)
Blank == [name |-> Deleted, attributes |-> 0, cluster |-> 0, size |-> 0]
Entry == [name : Names, attributes : {0, 32}, cluster : Clusters, size : Sizes]

(* What the volume holds to begin with: entries that are in use. *)
ASSUME EntriesAssumption ==
  Entries \subseteq [name : Names, attributes : {32}, cluster : Clusters, size : Sizes]

ASSUME BoundsAssumption == MaxSize \in Nat /\ MaxWrites \in Nat

Versions == -1 .. MaxWrites
Unknown == [size |-> -1, version |-> -1]   \* no promise is made about a file
Absent == [size |-> -2, version |-> -1]    \* the file does not exist

VARIABLES
  dir,        \* the directory on the disk
  data,       \* the version in each sector
  pc,         \* per task: outside the driver, or the transfer it makes next
  file,       \* per task: the file of the call
  len,        \* per task: fat_write's filesize; fat_read's number of sectors
  es,         \* per task: the page with its copy of the directory
  index,      \* per task: index_of_new_or_changed_file
  version,    \* per task: the payload it writes
  written,    \* how many writes began
  committed,  \* ghost: per file what the last completed write stored
  clash,      \* ghost: files of which two writes overlap
  stale,      \* ghost: tasks whose copy of the directory is older than the disk's
  damage      \* ghost: what has gone wrong that the code does not notice

disk == <<dir, data>>
local == <<pc, file, len, es, index, version>>
vars == <<disk, local, written, committed, clash, stale, damage>>

Places == {"idle", "lookup", "fatread", "fatwrite", "dirwrite", "datawrite",
           "readlookup", "readdata", "hang"}
Writing == {"lookup", "fatread", "fatwrite", "dirwrite", "datawrite"}
Damage == {"alias", "full", "collision", "nocluster", "overflow", "overlap"}

-----------------------------------------------------------------------------
(* The entries of d that the driver takes for f; the last one wins. *)
Matches(d, f) ==
  {q \in Slots : d[q].attributes # 0 /\ (d[q].name = f \/ <<d[q].name, f>> \in Aliases)}

(* The entries of d that have the name f. *)
Named(d, f) == {q \in Slots : d[q].attributes # 0 /\ d[q].name = f}

(* What a sector count and an address are. *)
FirstSector(c) == c * SectorsPerCluster
SectorsWritten(n) == n \div BytesPerSector + 1
SectorsRead(n) == IF n = 0 THEN 1 ELSE (n + BytesPerSector - 1) \div BytesPerSector
ClusterSize == SectorsPerCluster * BytesPerSector

(* No chain of the FAT is followed: fat_write stops at one cluster, and the files the *)
(* volume has to begin with are such files, too.                                      *)
ASSUME FitAssumption == \A e \in Entries : SectorsRead(e.size) <= SectorsPerCluster

(* The clusters the files of a directory d have. *)
Taken(d) == {d[q].cluster : q \in {p \in Slots : d[p].attributes # 0 /\ d[p].name \in Files}}

(* The clusters of the files on the disk and in the copies of a directory. *)
Referred ==
  Taken(dir) \cup UNION {Taken(es[t]) : t \in {u \in Tasks : pc[u] \in Writing \ {"lookup"}}}

-----------------------------------------------------------------------------
(* A volume that some other system made: every file has a name and a cluster of  *)
(* its own, if it has one.  Version 0 is what was there before.                  *)
Init ==
  /\ dir \in {d \in [Slots -> Entries \cup {Blank}] :
                \A p, q \in Slots : p # q /\ d[p].name \in Files =>
                  /\ d[p].name # d[q].name
                  /\ d[p].cluster # 0 => d[p].cluster # d[q].cluster}
  /\ data = [s \in Sectors |-> 0]
  /\ pc = [t \in Tasks |-> "idle"]
  /\ file = [t \in Tasks |-> Deleted]
  /\ len = [t \in Tasks |-> 0]
  /\ es = [t \in Tasks |-> [q \in Slots |-> Blank]]
  /\ index = [t \in Tasks |-> 0]
  /\ version = [t \in Tasks |-> 0]
  /\ written = 0
  /\ committed = [f \in Files |->
                    IF Named(dir, f) = {} THEN Absent
                    ELSE [size |-> dir[Max(Named(dir, f))].size, version |-> 0]]
  /\ clash = {}
  /\ stale = {}
  /\ damage = {}

(* The call of t is over. *)
Return(t) ==
  /\ pc' = [pc EXCEPT ![t] = "idle"]
  /\ file' = [file EXCEPT ![t] = Deleted]
  /\ len' = [len EXCEPT ![t] = 0]
  /\ es' = [es EXCEPT ![t] = [q \in Slots |-> Blank]]
  /\ index' = [index EXCEPT ![t] = 0]
  /\ version' = [version EXCEPT ![t] = 0]
  /\ stale' = stale \ {t}
  /\ clash' = IF \E u \in Tasks \ {t} : pc[u] \in Writing /\ file[u] = file[t]
              THEN clash ELSE clash \ {file[t]}

(* A transfer failed: 0 is returned, and what was done stays done. *)
Fail(t) ==
  /\ Return(t)
  /\ UNCHANGED <<disk, written, committed, damage>>

-----------------------------------------------------------------------------
(* fat_write *)

Write(t, f, n) ==
  /\ pc[t] = "idle"
  /\ written < MaxWrites
  /\ pc' = [pc EXCEPT ![t] = "lookup"]
  /\ file' = [file EXCEPT ![t] = f]
  /\ len' = [len EXCEPT ![t] = n]
  /\ version' = [version EXCEPT ![t] = written + 1]
  /\ written' = written + 1
  /\ committed' = [committed EXCEPT ![f] = Unknown]
  /\ clash' = IF \E u \in Tasks : pc[u] \in Writing /\ file[u] = f
              THEN clash \cup {f} ELSE clash
  /\ UNCHANGED <<disk, es, index, stale, damage>>

(* Faulty variant of Located. *)
LocatedFirstSlot(d, t) ==   \* the attributes are not compared with 0
  LET found == Matches(d, file[t])
      at == IF found # {} THEN Max(found) ELSE 0
      new == IF found = {} THEN [d EXCEPT ![at].name = file[t], ![at].attributes = 32] ELSE d
  IN  [at |-> at, full |-> FALSE, copy |-> [new EXCEPT ![at].size = len[t]]]

(* The entry of the call's file in the copy d, and that copy with a new entry when *)
(* there is none: in the first slot with attributes 0, if any.  Only the name, the *)
(* attributes and the high half of the cluster are set.                            *)
Located(d, t) ==
  LET free == {q \in Slots : d[q].attributes = 0}
      found == Matches(d, file[t])
      at == IF found # {} THEN Max(found) ELSE IF free # {} THEN Min(free) ELSE ParentIndex
      new == IF found = {} /\ free # {}
             THEN [d EXCEPT ![at].name = file[t], ![at].attributes = 32]
             ELSE d
  IN  [at |-> at, full |-> found = {} /\ free = {}, copy |-> [new EXCEPT ![at].size = len[t]]]

(* Faulty variant of Lookup: every write looks for a cluster. *)
LookupMoves(t) ==
  /\ pc[t] = "lookup"
  /\ LET l == Located(dir, t) IN
       /\ es' = [es EXCEPT ![t] = l.copy]
       /\ index' = [index EXCEPT ![t] = l.at]
       /\ damage' = damage \cup
            (IF l.full THEN {"full"} ELSE IF l.copy[l.at].name # file[t] THEN {"alias"} ELSE {})
       /\ pc' = [pc EXCEPT ![t] = IF len[t] > ClusterSize THEN "hang" ELSE "fatread"]
  /\ UNCHANGED <<disk, file, len, version, written, committed, clash, stale>>

(* The directory is read, and everything up to the next transfer is computed. *)
Lookup(t) ==
  /\ pc[t] = "lookup"
  /\ LET l == Located(dir, t) IN
       /\ es' = [es EXCEPT ![t] = l.copy]
       /\ index' = [index EXCEPT ![t] = l.at]
       /\ damage' = damage \cup
            (IF l.full THEN {"full"} ELSE IF l.copy[l.at].name # file[t] THEN {"alias"} ELSE {})
       /\ pc' = [pc EXCEPT ![t] = IF len[t] > ClusterSize THEN "hang"
                                  ELSE IF l.copy[l.at].cluster = 0 THEN "fatread"
                                  ELSE "dirwrite"]
  /\ UNCHANGED <<disk, file, len, version, written, committed, clash, stale>>

(* The first entry of the page that holds 0; its cluster stays 0 if there is none. *)
FatRead(t) ==
  /\ pc[t] = "fatread"
  /\ \E free \in SUBSET Scanned :
       LET c == IF free = {} THEN 0 ELSE Min(free) IN
         /\ es' = [es EXCEPT ![t][index[t]].cluster = c]
         /\ damage' = damage \cup
              (IF c = 0 THEN {"nocluster"} ELSE IF c \in Referred THEN {"collision"} ELSE {})
  /\ pc' = [pc EXCEPT ![t] = "fatwrite"]
  /\ UNCHANGED <<disk, file, len, index, version, written, committed, clash, stale>>

(* The 512 bytes that were read are written back: no mark is among them. *)
FatWrite(t) ==
  /\ pc[t] = "fatwrite"
  /\ pc' = [pc EXCEPT ![t] = "dirwrite"]
  /\ UNCHANGED <<disk, file, len, es, index, version, written, committed, clash, stale, damage>>

DirWrite(t) ==
  /\ pc[t] = "dirwrite"
  /\ dir' = es[t]
  /\ pc' = [pc EXCEPT ![t] = "datawrite"]
  /\ stale' = (stale \ {t}) \cup {u \in Tasks \ {t} : pc[u] \in {"fatread", "fatwrite", "dirwrite"}}
  /\ damage' = IF t \in stale THEN damage \cup {"overlap"} ELSE damage
  /\ UNCHANGED <<data, file, len, es, index, version, written, committed, clash>>

(* Faulty variant of DataWrite: the last sector, which is not full, is not written. *)
DataWriteRoundedDown(t) ==
  /\ pc[t] = "datawrite"
  /\ LET first == FirstSector(es[t][index[t]].cluster)
         range == first .. first + SectorsWritten(len[t]) - 2
     IN  data' = [s \in Sectors |-> IF s \in range THEN version[t] ELSE data[s]]
  /\ damage' = damage
  /\ committed' = [committed EXCEPT ![file[t]] =
                     IF file[t] \in clash THEN Unknown
                     ELSE [size |-> len[t], version |-> version[t]]]
  /\ Return(t)
  /\ UNCHANGED <<dir, written>>

DataWrite(t) ==
  /\ pc[t] = "datawrite"
  /\ LET first == FirstSector(es[t][index[t]].cluster)
         range == first .. first + SectorsWritten(len[t]) - 1
     IN  data' = [s \in Sectors |-> IF s \in range THEN version[t] ELSE data[s]]
  /\ damage' = IF SectorsWritten(len[t]) > SectorsPerCluster THEN damage \cup {"overflow"} ELSE damage
  /\ committed' = [committed EXCEPT ![file[t]] =
                     IF file[t] \in clash THEN Unknown
                     ELSE [size |-> len[t], version |-> version[t]]]
  /\ Return(t)
  /\ UNCHANGED <<dir, written>>

-----------------------------------------------------------------------------
(* fat_read, and fat_filesize, which is its first half *)

Read(t, f) ==
  /\ pc[t] = "idle"
  /\ pc' = [pc EXCEPT ![t] = "readlookup"]
  /\ file' = [file EXCEPT ![t] = f]
  /\ UNCHANGED <<disk, len, es, index, version, written, committed, clash, stale, damage>>

ReadLookup(t) ==
  /\ pc[t] = "readlookup"
  /\ \/ /\ Matches(dir, file[t]) = {}
        /\ Fail(t)
     \/ /\ Matches(dir, file[t]) # {}
        /\ LET q == Max(Matches(dir, file[t])) IN
             /\ index' = [index EXCEPT ![t] = q]
             /\ len' = [len EXCEPT ![t] = SectorsRead(dir[q].size)]
        /\ es' = [es EXCEPT ![t] = dir]
        /\ pc' = [pc EXCEPT ![t] = "readdata"]
        /\ UNCHANGED <<disk, file, version, written, committed, clash, stale, damage>>

ReadData(t) ==
  /\ pc[t] = "readdata"
  /\ Return(t)
  /\ UNCHANGED <<disk, written, committed, damage>>

-----------------------------------------------------------------------------
(* Any transfer may fail; the driver of the disk returns 0. *)
TransferFails(t) == pc[t] \notin {"idle", "hang"} /\ Fail(t)

(* The machine is switched off and on: only the disk is left. *)
Reboot ==
  /\ \E t \in Tasks : pc[t] # "idle"
  /\ pc' = [t \in Tasks |-> "idle"]
  /\ file' = [t \in Tasks |-> Deleted]
  /\ len' = [t \in Tasks |-> 0]
  /\ es' = [t \in Tasks |-> [q \in Slots |-> Blank]]
  /\ index' = [t \in Tasks |-> 0]
  /\ version' = [t \in Tasks |-> 0]
  /\ clash' = {}
  /\ stale' = {}
  /\ UNCHANGED <<disk, written, committed, damage>>

Next ==
  \/ \E t \in Tasks :
       \/ \E f \in Files : Read(t, f) \/ \E n \in Sizes : Write(t, f, n)
       \/ Lookup(t)
       \/ FatRead(t)
       \/ FatWrite(t)
       \/ DirWrite(t)
       \/ DataWrite(t)
       \/ ReadLookup(t)
       \/ ReadData(t)
       \/ TransferFails(t)
  \/ Reboot

Spec == Init /\ [][Next]_vars

-----------------------------------------------------------------------------
TypeOK ==
  /\ dir \in [Slots -> Entry]
  /\ data \in [Sectors -> 0 .. MaxWrites]
  /\ pc \in [Tasks -> Places]
  /\ file \in [Tasks -> Names]
  /\ len \in [Tasks -> Nat]
  /\ es \in [Tasks -> [Slots -> Entry]]
  /\ index \in [Tasks -> Slots]
  /\ version \in [Tasks -> 0 .. MaxWrites]
  /\ written \in 0 .. MaxWrites
  /\ committed \in [Files -> [size : {-2, -1} \cup Sizes, version : Versions]]
  /\ clash \subseteq Files
  /\ stale \subseteq Tasks
  /\ damage \subseteq Damage

(* No directory lists a file twice, although tasks that work on copies of    *)
(* different age create the same file: the sector is written as a whole, so  *)
(* the last copy wins.                                                       *)
UniqueNames == \A f \in Files : \A p, q \in Named(dir, f) : p = q

(* The file f of the disk is what was committed. *)
Intact(f) ==
  IF committed[f] = Absent THEN Named(dir, f) = {}
  ELSE \E q \in Named(dir, f) :
         /\ dir[q].size = committed[f].size
         /\ dir[q].size > 0 =>
              \A s \in 0 .. SectorsRead(dir[q].size) - 1 :
                data[FirstSector(dir[q].cluster) + s] = committed[f].version

(* What a completed write stored stays, and what nobody writes stays away,      *)
(* whatever other calls do before and after, where transfers fail and when the  *)
(* machine is switched off, unless one of six things happened: another entry    *)
(* answered to the name, the directory was full, the search for a cluster       *)
(* found a file's or none, a write ended at the end of its cluster, or a write  *)
(* of the directory undid another one.                                          *)
WrittenIsReadBack ==
  damage = {} => \A f \in Files : committed[f] # Unknown => Intact(f)

(* A read that has looked its file up, and found a cluster, reads the sectors   *)
(* of that file: writes in between change what they hold, but never move it.    *)
ReaderSeesTheFile ==
  damage = {} =>
    \A t \in Tasks :
      pc[t] = "readdata" /\ es[t][index[t]].name = file[t] /\ es[t][index[t]].cluster # 0
        /\ committed[file[t]] \notin {Unknown, Absent} =>
      \A s \in 0 .. Min({len[t], SectorsRead(committed[file[t]].size)}) - 1 :
        data[FirstSector(es[t][index[t]].cluster) + s] = committed[file[t]].version

(* An entry loses its name or its cluster only to a task whose copy of the      *)
(* directory is older than another task's write of it: neither a full directory, *)
(* a wrong name or cluster, a failure nor a reboot makes one disappear.          *)
EntriesStay ==
  [][\A q \in Slots :
       dir[q].attributes # 0 =>
         \/ /\ dir'[q].name = dir[q].name
            /\ dir'[q].attributes = dir[q].attributes
            /\ dir[q].cluster \in {0, dir'[q].cluster}
         \/ \E t \in stale : pc[t] = "dirwrite" /\ pc'[t] = "datawrite"]_vars

(* README: the file system is read.  A call finds the entry of its file. *)
ReadsTheNamedFile == \A t \in Tasks : pc[t] = "readdata" => es[t][index[t]].name = file[t]

(* README: the file system is written.  A completed write can be read back. *)
WritesCanBeReadBack == \A f \in Files : committed[f] \notin {Unknown, Absent} => Intact(f)
=============================================================================
