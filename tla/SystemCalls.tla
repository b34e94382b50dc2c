----------------------------- MODULE SystemCalls -----------------------------
(***************************************************************************)
(* The calls of int 0x81 (kernel/drivers/idt.c, isr2handler) that tasks    *)
(* make on files (write, open, close) and to read a line                   *)
(* (scanline), in the 64-bit build, whose gate leaves interrupts on: a     *)
(* task may be left between any two of the calls that a handler makes of   *)
(* the file system, and between any two uses of scanline's globals.        *)
(*                                                                         *)
(* A call of the file system is one step: what it is made of is FatFs's    *)
(* matter.  A file is the sequence of its bytes, an empty one is not       *)
(* there, and each call of write writes one byte, which names the call.    *)
(* The buffers are pages that a task has for itself (PageAllocator), in    *)
(* which a file fits.  The pointer of a descriptor, which only its task    *)
(* moves (read, seek) and nothing compares with the size, is left out.     *)
(***************************************************************************)
EXTENDS Integers, Sequences

CONSTANTS
  Tasks, Names,
  Nobody, Nowhere,   \* the owner of an unused global, the name of an unused descriptor
  NSlots,            \* how many files a task can open: files[6] to files[9]
  MaxWrites          \* bound: how many bytes are written

ASSUME NobodyAssumption == Nobody \notin Tasks /\ Nowhere \notin Names
ASSUME BoundAssumption == NSlots \in Nat \ {0} /\ MaxWrites \in Nat

Slots == 1 .. NSlots
Junk == 0                     \* what lies in a page that was not filled
Bytes == 0 .. MaxWrites
Modes == {"read", "write"}    \* the flags of a descriptor: 0, or not

(* scanlinebackup_*, in the order of the stores and of the loads; "line" is the *)
(* address of the caller's buffer, which scanline loads for each key.           *)
Saved == <<"rip", "line", "rsp", "rbp">>
Restored == <<"rsp", "rbp", "rip">>
Globals == {"rip", "line", "rsp", "rbp"}

FilePlaces == {"opensize", "openread", "openslot", "size", "old", "store"}
LinePlaces == {"save", "clear", "keys", "restore"}

VARIABLES
  disk,        \* the files
  files,       \* per task: its table of open files
  pc,
  call,        \* per task: the file call it makes
  backup,      \* whose register, or line, each global of scanline is
  line,        \* per task: the tasks whose keys are in its line
  count,       \* per task: how many globals it has stored or loaded
  writes,      \* how many bytes have been written
  history,     \* ghost: per file, the bytes of the writes that succeeded
  stale,       \* ghost: tasks whose size and copy of a file are not of the file as it is
  spoiled,     \* ghost: files that a stale copy or a failure may have damaged
  crossed,     \* ghost: tasks that have read a line while another one did
  astray       \* tasks that were given a register of another one

fileVars == <<disk, files, call, writes, history, stale, spoiled>>
lineVars == <<backup, line, count, crossed, astray>>
vars == <<fileVars, pc, lineVars>>

NoCall == [name |-> Nowhere, mode |-> "read", byte |-> Junk, size |-> 0, buffer |-> <<>>]
Unused == [available |-> 0, name |-> Nowhere, mode |-> "read", size |-> 0,
           buffer |-> <<>>, whole |-> 1]

Goto(t, place) == pc' = [pc EXCEPT ![t] = place]
Reading(t) == pc[t] \in LinePlaces

(* The tasks that have looked at file f and will look at it again or store it. *)
Using(f) == {t \in Tasks : pc[t] \in {"openread", "old", "store"}
                             /\ call[t].name = f /\ call[t].mode = "read"}

NewContentsOverLast(t) ==   \* faulty variant of NewContents: the byte is stored over the last one
  [i \in 1 .. call[t].size + 1 |->
     CASE i >= call[t].size -> call[t].byte
       [] i < call[t].size /\ i <= Len(call[t].buffer) -> call[t].buffer[i]
       [] OTHER -> Junk]

(* What t stores: its copy as far as the size it was told, and its byte. *)
NewContents(t) ==
  [i \in 1 .. call[t].size + 1 |->
     CASE i > call[t].size -> call[t].byte
       [] i <= call[t].size /\ i <= Len(call[t].buffer) -> call[t].buffer[i]
       [] OTHER -> Junk]

-----------------------------------------------------------------------------
Init ==
  /\ disk \in [Names -> {<<>>, <<Junk>>}]
  /\ files = [t \in Tasks |-> [s \in Slots |-> Unused]]
  /\ pc = [t \in Tasks |-> "program"]
  /\ call = [t \in Tasks |-> NoCall]
  /\ backup = [g \in Globals |-> Nobody]
  /\ line = [t \in Tasks |-> {}]
  /\ count = [t \in Tasks |-> 0]
  /\ writes = 0
  /\ history = disk
  /\ stale = {}
  /\ spoiled = {}
  /\ crossed = {}
  /\ astray = {}

-----------------------------------------------------------------------------
(* open: a file that is opened to be read is copied; one that is opened to be *)
(* written is not even looked for.                                            *)
Open(t, f, mode) ==
  /\ pc[t] = "program"
  /\ call' = [call EXCEPT ![t] = [NoCall EXCEPT !.name = f, !.mode = mode]]
  /\ Goto(t, IF mode = "read" THEN "opensize" ELSE "openslot")
  /\ UNCHANGED <<disk, files, writes, history, stale, spoiled, lineVars>>

(* getFileSize gives 0 also when it fails; open then gives -1. *)
OpenSize(t) ==
  /\ pc[t] = "opensize"
  /\ \E size \in {0, Len(disk[call[t].name])} :
       IF size = 0
       THEN /\ call' = [call EXCEPT ![t] = NoCall]
            /\ Goto(t, "program")
       ELSE /\ call' = [call EXCEPT ![t].size = size]
            /\ Goto(t, "openread")
  /\ UNCHANGED <<disk, files, writes, history, stale, spoiled, lineVars>>

(* readFile into a new page; nobody looks whether it failed. *)
ReadCopy(t, place, next) ==
  /\ pc[t] = place
  /\ Goto(t, next)
  /\ \/ /\ call' = [call EXCEPT ![t].buffer = disk[call[t].name]]
        /\ UNCHANGED stale
     \/ /\ call' = [call EXCEPT ![t].buffer = <<>>]
        /\ stale' = stale \cup {t}
  /\ UNCHANGED <<disk, files, writes, history, spoiled, lineVars>>

OpenRead(t) == ReadCopy(t, "openread", "openslot")

FreeSlots(t) == {s \in Slots : files[t][s].available = 0}

Opened(t) ==
  [available |-> 1, name |-> call[t].name, mode |-> call[t].mode, size |-> call[t].size,
   buffer |-> call[t].buffer, whole |-> IF t \in stale THEN 0 ELSE 1]

TakeSlotKeepsSize(t) ==   \* faulty variant of TakeSlot: filesize is left as it was
  /\ pc[t] = "openslot"
  /\ IF FreeSlots(t) = {}
     THEN UNCHANGED files
     ELSE LET s == CHOOSE s \in FreeSlots(t) : \A r \in FreeSlots(t) : s <= r
          IN files' = [files EXCEPT ![t][s] = [Opened(t) EXCEPT !.size = files[t][s].size]]
  /\ call' = [call EXCEPT ![t] = NoCall]
  /\ stale' = stale \ {t}
  /\ Goto(t, "program")
  /\ UNCHANGED <<disk, writes, history, spoiled, lineVars>>

(* The first slot that is available; if none is, open gives 0, as if it had *)
(* opened files[0].                                                         *)
TakeSlot(t) ==
  /\ pc[t] = "openslot"
  /\ IF FreeSlots(t) = {}
     THEN UNCHANGED files
     ELSE LET s == CHOOSE s \in FreeSlots(t) : \A r \in FreeSlots(t) : s <= r
          IN files' = [files EXCEPT ![t][s] = Opened(t)]
  /\ call' = [call EXCEPT ![t] = NoCall]
  /\ stale' = stale \ {t}
  /\ Goto(t, "program")
  /\ UNCHANGED <<disk, writes, history, spoiled, lineVars>>

(* Close leaves all but the flag, so a closed descriptor can still be used. *)
Close(t, s) ==
  /\ pc[t] = "program"
  /\ files[t][s].available = 1
  /\ files' = [files EXCEPT ![t][s].available = 0]
  /\ UNCHANGED <<disk, call, writes, history, stale, spoiled, pc, lineVars>>

-----------------------------------------------------------------------------
(* write: the byte is added to a copy of a file that was opened to be read, and *)
(* takes the place of one that was opened to be written.                        *)
Write(t, s) ==
  /\ pc[t] = "program"
  /\ files[t][s].name # Nowhere
  /\ writes < MaxWrites
  /\ writes' = writes + 1
  /\ call' = [call EXCEPT ![t] = [NoCall EXCEPT !.name = files[t][s].name,
                                                !.mode = files[t][s].mode,
                                                !.byte = writes + 1]]
  /\ Goto(t, IF files[t][s].mode = "read" THEN "size" ELSE "store")
  /\ UNCHANGED <<disk, files, history, stale, spoiled, lineVars>>

(* getFileSize, and 0 when it fails: then the file will be replaced. *)
SizeOfOld(t) ==
  /\ pc[t] = "size"
  /\ Goto(t, "old")
  /\ \/ /\ call' = [call EXCEPT ![t].size = Len(disk[call[t].name])]
        /\ UNCHANGED stale
     \/ /\ stale' = stale \cup {t}
        /\ UNCHANGED call
  /\ UNCHANGED <<disk, files, writes, history, spoiled, lineVars>>

ReadOld(t) == ReadCopy(t, "old", "store")

StoreEnds(t) ==
  /\ call' = [call EXCEPT ![t] = NoCall]
  /\ stale' = (stale \cup Using(call[t].name)) \ {t}
  /\ Goto(t, "program")
  /\ UNCHANGED <<files, writes, lineVars>>

(* writeFile.  The other tasks that use the file have an old state of it now. *)
Store(t) ==
  LET f == call[t].name
  IN /\ pc[t] = "store"
     /\ disk' = [disk EXCEPT ![f] = NewContents(t)]
     /\ history' = [history EXCEPT ![f] = IF call[t].mode = "read"
                                          THEN Append(@, call[t].byte)
                                          ELSE <<call[t].byte>>]
     /\ spoiled' = IF call[t].mode = "write" THEN spoiled \ {f}
                   ELSE IF t \in stale THEN spoiled \cup {f} ELSE spoiled
     /\ StoreEnds(t)

(* It fails, and write gives -1: nothing was stored, or some of it. *)
StoreFails(t) ==
  LET f == call[t].name
  IN /\ pc[t] = "store"
     /\ \/ UNCHANGED <<disk, spoiled>>
        \/ /\ disk' = [disk EXCEPT ![f] = [i \in DOMAIN NewContents(t) |-> Junk]]
           /\ spoiled' = spoiled \cup {f}
     /\ UNCHANGED history
     /\ StoreEnds(t)

-----------------------------------------------------------------------------
(* scanline, first half of the call: the registers are stored. *)
ScanLine(t) ==
  /\ pc[t] = "program"
  /\ Goto(t, "save")
  /\ count' = [count EXCEPT ![t] = 0]
  /\ crossed' = IF \E u \in Tasks : Reading(u)
                THEN crossed \cup {t} \cup {u \in Tasks : Reading(u)}
                ELSE crossed
  /\ UNCHANGED <<fileVars, backup, line, astray>>

SaveOnce(t) ==   \* faulty variant of Save: a global that is in use is not stored
  /\ pc[t] = "save"
  /\ LET g == Saved[count[t] + 1]
     IN backup' = IF backup[g] = Nobody THEN [backup EXCEPT ![g] = t] ELSE backup
  /\ count' = [count EXCEPT ![t] = IF @ = 3 THEN 0 ELSE @ + 1]
  /\ Goto(t, IF count[t] = 3 THEN "clear" ELSE "save")
  /\ UNCHANGED <<fileVars, line, crossed, astray>>

Save(t) ==
  /\ pc[t] = "save"
  /\ backup' = [backup EXCEPT ![Saved[count[t] + 1]] = t]
  /\ count' = [count EXCEPT ![t] = IF @ = 3 THEN 0 ELSE @ + 1]
  /\ Goto(t, IF count[t] = 3 THEN "clear" ELSE "save")
  /\ UNCHANGED <<fileVars, line, crossed, astray>>

(* The line is cleared byte by byte; whoever may come between is in crossed. *)
ClearLine(t) ==
  /\ pc[t] = "clear"
  /\ line' = [line EXCEPT ![backup["line"]] = {}]
  /\ Goto(t, "keys")
  /\ UNCHANGED <<fileVars, backup, count, crossed, astray>>

(* A key of t's line; the one that ends it is not stored. *)
Key(t) ==
  /\ pc[t] = "keys"
  /\ \/ /\ line' = [line EXCEPT ![backup["line"]] = @ \cup {t}]
        /\ UNCHANGED pc
     \/ /\ Goto(t, "restore")
        /\ UNCHANGED line
  /\ UNCHANGED <<fileVars, backup, count, crossed, astray>>

(* Second half: the registers are loaded.  A task that is given one of another *)
(* task's goes on in that one's program, or on its stack, and is not followed. *)
Restore(t) ==
  /\ pc[t] = "restore"
  /\ astray' = IF backup[Restored[count[t] + 1]] = t THEN astray ELSE astray \cup {t}
  /\ count' = [count EXCEPT ![t] = IF @ = 2 THEN 0 ELSE @ + 1]
  /\ Goto(t, CASE count[t] < 2 -> "restore"
               [] count[t] = 2 /\ t \in astray' -> "astray"
               [] OTHER -> "program")
  /\ crossed' = IF pc'[t] = "program" THEN crossed \ {t} ELSE crossed
  /\ line' = IF pc'[t] = "program" THEN [line EXCEPT ![t] = {}] ELSE line
  /\ UNCHANGED <<fileVars, backup>>

-----------------------------------------------------------------------------
FileCall(t) ==
  \/ \E f \in Names, mode \in Modes : Open(t, f, mode)
  \/ OpenSize(t)
  \/ OpenRead(t)
  \/ TakeSlot(t)
  \/ \E s \in Slots : Close(t, s) \/ Write(t, s)
  \/ SizeOfOld(t)
  \/ ReadOld(t)
  \/ Store(t)
  \/ StoreFails(t)

LineCall(t) == ScanLine(t) \/ Save(t) \/ ClearLine(t) \/ Key(t) \/ Restore(t)

Next == \E t \in Tasks : FileCall(t) \/ LineCall(t)

Spec == Init /\ [][Next]_vars

-----------------------------------------------------------------------------
Contents == Seq(Bytes)

Calls == [name : Names \cup {Nowhere}, mode : Modes, byte : Bytes, size : Nat, buffer : Contents]

Descriptors ==
  [available : {0, 1}, name : Names \cup {Nowhere}, mode : Modes, size : Nat,
   buffer : Contents, whole : {0, 1}]

TypeOK ==
  /\ disk \in [Names -> Contents]
  /\ files \in [Tasks -> [Slots -> Descriptors]]
  /\ pc \in [Tasks -> {"program", "astray"} \cup FilePlaces \cup LinePlaces]
  /\ call \in [Tasks -> Calls]
  /\ backup \in [Globals -> Tasks \cup {Nobody}]
  /\ line \in [Tasks -> SUBSET Tasks]
  /\ count \in [Tasks -> 0 .. 3]
  /\ writes \in 0 .. MaxWrites
  /\ history \in [Names -> Contents]
  /\ stale \subseteq Tasks
  /\ spoiled \subseteq Names
  /\ crossed \subseteq Tasks
  /\ astray \subseteq Tasks

(* A file is what the calls of write that succeeded have made of it, in the order *)
(* in which they ended, unless one of them overlapped another or could not read   *)
(* the file it added to, or one failed after it had begun to store.               *)
AppendsAreKept == \A f \in Names \ spoiled : disk[f] = history[f]

(* A descriptor that was opened to be read has a copy as long as the size that a *)
(* seek to the end goes to, unless the file was written during the call.         *)
DescriptorsAreWhole ==
  \A t \in Tasks, s \in Slots :
    files[t][s].mode = "read" /\ files[t][s].whole = 1 =>
      files[t][s].size = Len(files[t][s].buffer)

(* A task that reads a line while no other task does goes on where it was, on its *)
(* own stack, and finds its own keys in the line and nobody else's.               *)
LinesComeHome ==
  \A t \in Tasks \ crossed :
    /\ t \notin astray
    /\ pc[t] \in {"keys", "restore"} => line[t] \subseteq {t}
=============================================================================
