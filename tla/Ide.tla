---------------------------------- MODULE Ide ----------------------------------
(***************************************************************************)
(* The IDE driver (kernel/drivers/ide.c): ide_driver_start looks for a     *)
(* drive in each of the four places of two channels, and its reads wait    *)
(* for an interrupt that only sets a flag, for both channels the same one. *)
(*                                                                         *)
(* A drive that is registered is read at once (a boot block, a volume      *)
(* descriptor and a table of directories).  Later reads find the record of *)
(* their drive in a part of the stack that has been used again: they may   *)
(* address any drive.  A read is of one caller; it moves one sector,       *)
(* however many it asks for.                                               *)
(*                                                                         *)
(* The drives are external.  They interrupt when they have done what they  *)
(* were asked for; the handler runs at once, as interrupts are on.         *)
(***************************************************************************)
EXTENDS Integers, Sequences

CONSTANTS
  Kinds,        \* the drives considered at a place: of "none", "ata", "atapi", "sata"
  MaxReads,     \* bound: reads after the start
  None

Units == 1 .. 4
ChannelOf(u) == (u + 1) \div 2

VARIABLES
  kinds,        \* per place
  place,        \* where the driver is
  unit,         \* the place that is looked at
  ideXirq,
  work,         \* per channel: the command its drive is at, or NoCommand
  fifo,         \* per channel: the data at its port, or None
  signature,    \* per channel: what the address registers hold
  bad,          \* per channel: 1 if the error bit is set
  readCommand,  \* read_cmd: sector and count
  read,         \* the read under way or the last one
  todo,         \* sectors that the file system still asks for while it starts
  answer,       \* 1 if the last read returned 1
  content,      \* ghost: what it stored into the buffer
  laterReads

(* The model value for nothing is no sector. *)
NoneAssumption == None \notin [unit : Nat, sector : Nat]

ideVars ==
  <<kinds, place, unit, ideXirq, work, fifo, signature, bad, readCommand, read, todo, answer,
    content, laterReads>>
channels == <<work, fifo, signature, bad>>
request == <<readCommand, read, todo, answer, content, laterReads>>

NoCommand == [unit |-> 0, kind |-> None, sector |-> 0, left |-> 0]
NoRead == [by |-> "ata", unit |-> 0, sector |-> 0, count |-> 0, calm |-> 0]
Identity(u) == [unit |-> u, sector |-> -1]
NoData == [unit |-> 0, sector |-> -1]     \* what the port gives after an error
DescriptorSector == 16
TableSector == 19

Ch == ChannelOf(unit)
Busy(c) == work[c] # NoCommand /\ fifo[c] = None
Calm == IF \A c \in 1 .. 2 : work[c] = NoCommand THEN 1 ELSE 0

(* A command takes the place of what the channel was at. *)
Command(c, u, kind, sector, count) ==
  /\ work' = [work EXCEPT ![c] = IF kinds[u] = "none" THEN NoCommand
                                 ELSE [unit |-> u, kind |-> kind, sector |-> sector, left |-> count]]
  /\ fifo' = [fifo EXCEPT ![c] = None]
  /\ bad' = [bad EXCEPT ![c] = 0]
  /\ signature' = [signature EXCEPT ![c] = "zero"]

(* The data is read from the port; the drive goes on if the command asked for more. *)
Drained(c) ==
  /\ fifo' = [fifo EXCEPT ![c] = None]
  /\ work' = [work EXCEPT ![c] = IF @.left = 0 /\ @.kind # "packet read" THEN NoCommand ELSE @]

-----------------------------------------------------------------------------
(* init_ide_device.  A drive is given two ticks, whether it has answered or not. *)
NextUnit == IF unit = 4 THEN place' = "idle" /\ UNCHANGED unit ELSE place' = "identify" /\ unit' = unit + 1

Identify ==
  /\ place = "identify"
  /\ ideXirq' = 0
  /\ Command(Ch, unit, "identify", 0, 1)
  /\ place' = "look"
  /\ UNCHANGED <<kinds, unit, request>>

Absent ==
  /\ place = "look"
  /\ kinds[unit] = "none"
  /\ NextUnit
  /\ UNCHANGED <<kinds, ideXirq, channels, request>>

(* The loop is left while the drive is busy, so that a slow one is taken for an ATA drive. *)
Poll ==
  /\ place = "look"
  /\ kinds[unit] # "none"
  /\ Busy(Ch) \/ signature[Ch] # "zero" \/ ideXirq = 1
  /\ place' = "kind"
  /\ UNCHANGED <<kinds, unit, ideXirq, channels, request>>

SataFound ==
  /\ place = "kind"
  /\ signature[Ch] = "sata"
  /\ NextUnit
  /\ UNCHANGED <<kinds, ideXirq, channels, request>>

(* The identity is read, from a drive that is still busy too, registered and taken for   *)
(* the drive's first sector: it has no partitions, or is none and the machine may stop.  *)
AtaFound ==
  /\ place = "kind"
  /\ signature[Ch] = "zero"
  /\ IF fifo[Ch] # None
       THEN Drained(Ch) /\ place' = "next"
       ELSE place' \in {"next", "stopped"} /\ UNCHANGED <<work, fifo>>
  /\ todo' = <<0>>
  /\ read' = [NoRead EXCEPT !.by = "ata"]
  /\ answer' = 0
  /\ UNCHANGED <<kinds, unit, ideXirq, signature, bad, readCommand, content, laterReads>>

AtapiFound ==
  /\ place = "kind"
  /\ signature[Ch] = "atapi"
  /\ ideXirq' = 0
  /\ Command(Ch, unit, "identify packet", 0, 1)
  /\ place' = "inquired"
  /\ UNCHANGED <<kinds, unit, request>>

(* ide_wait_for_ready; a drive that answers with an error is left. *)
Inquired ==
  /\ place = "inquired"
  /\ ~Busy(Ch)
  /\ IF bad[Ch] = 1
       THEN NextUnit /\ UNCHANGED <<work, fifo, todo, read>>
       ELSE /\ Drained(Ch)
            /\ place' = "next"
            /\ todo' = <<DescriptorSector, TableSector>>
            /\ read' = [NoRead EXCEPT !.by = "atapi"]
            /\ UNCHANGED unit
  /\ answer' = 0
  /\ UNCHANGED <<kinds, ideXirq, signature, bad, readCommand, content, laterReads>>

-----------------------------------------------------------------------------
(* A read of a file system that starts, as long as the ones before it succeed; and, at *)
(* best of the same kind of drive, one of a task later.                                  *)
Begin(by, u, s, n) ==
  /\ read' = [by |-> by, unit |-> u, sector |-> s, count |-> n, calm |-> Calm]
  /\ place' = "reset"
  /\ answer' = 0
  /\ content' = None

StartRead ==
  /\ place = "next"
  /\ todo # <<>>
  /\ Begin(read.by, unit, Head(todo), 1)
  /\ todo' = Tail(todo)
  /\ UNCHANGED <<kinds, unit, ideXirq, channels, readCommand, laterReads>>

(* The end, or a disc whose descriptor is not one of ISO 9660. *)
Started ==
  /\ place = "next"
  /\ todo = <<>> \/ (read.by = "atapi" /\ read.sector = DescriptorSector)
  /\ NextUnit
  /\ todo' = <<>>
  /\ UNCHANGED <<kinds, ideXirq, channels, readCommand, read, answer, content, laterReads>>

LaterRead(u, s, n) ==
  /\ place = "idle"
  /\ laterReads < MaxReads
  /\ kinds[u] \in {"ata", "atapi"}
  /\ Begin(kinds[u], u, s, n)
  /\ unit' = u
  /\ laterReads' = laterReads + 1
  /\ UNCHANGED <<kinds, ideXirq, channels, readCommand, todo>>

Return(value) ==
  /\ answer' = value
  /\ place' = IF laterReads > 0 THEN "idle" ELSE "next"
  /\ todo' = IF value = 1 THEN todo ELSE <<>>

ResetKeepsFlag ==   \* faulty variant of Reset: an old interrupt counts for this read
  /\ place = "reset"
  /\ place' = read.by
  /\ UNCHANGED <<kinds, unit, ideXirq, channels, request>>

Reset ==
  /\ place = "reset"
  /\ ideXirq' = 0
  /\ place' = read.by
  /\ UNCHANGED <<kinds, unit, channels, request>>

(* ide_ata_read: the task file and the command, a wait for the flag, one sector. *)
AtaCommand ==
  /\ place = "ata"
  /\ Command(Ch, unit, "read", read.sector, read.count)
  /\ place' = "ata wait"
  /\ UNCHANGED <<kinds, unit, ideXirq, request>>

AtaData ==
  /\ place = "ata wait"
  /\ ideXirq = 1
  /\ content' = IF bad[Ch] = 1 THEN NoData ELSE fifo[Ch]
  /\ Drained(Ch)
  /\ Return(1)
  /\ UNCHANGED <<kinds, unit, ideXirq, signature, bad, readCommand, read, laterReads>>

(* ide_atapi_read: the packet command, then the packet, which is built in a global. *)
AskPacket ==
  /\ place = "atapi"
  /\ ~Busy(Ch)
  /\ Command(Ch, unit, "packet", 0, 1)
  /\ place' = "build"
  /\ UNCHANGED <<kinds, unit, ideXirq, request>>

BuildPacket ==
  /\ place = "build"
  /\ ~Busy(Ch)
  /\ readCommand' = [sector |-> read.sector, count |-> read.count]
  /\ ideXirq' = 0
  /\ place' = "send"
  /\ UNCHANGED <<kinds, unit, channels, read, todo, answer, content, laterReads>>

SendPacket ==
  /\ place = "send"
  /\ Command(Ch, unit, "packet read", readCommand.sector, readCommand.count)
  /\ place' = "atapi wait"
  /\ UNCHANGED <<kinds, unit, ideXirq, request>>

AtapiFails ==
  /\ place = "atapi wait"
  /\ ideXirq = 1 /\ ~Busy(Ch)
  /\ bad[Ch] = 1
  /\ Return(0)
  /\ UNCHANGED <<kinds, unit, ideXirq, channels, readCommand, read, content, laterReads>>

AtapiData ==
  /\ place = "atapi wait"
  /\ ideXirq = 1 /\ ~Busy(Ch)
  /\ bad[Ch] = 0
  /\ content' = fifo[Ch]
  /\ Drained(Ch)
  /\ place' = "last"
  /\ UNCHANGED <<kinds, unit, ideXirq, signature, bad, readCommand, read, todo, answer, laterReads>>

(* The drive is waited for, and the flag, which the first interrupt has left set. *)
LastWait ==
  /\ place = "last"
  /\ ~Busy(Ch)
  /\ ideXirq = 1
  /\ Return(1)
  /\ UNCHANGED <<kinds, unit, ideXirq, channels, readCommand, read, content, laterReads>>

-----------------------------------------------------------------------------
(* External: a drive has done what it was asked for, or reports an error; irq_ide. *)
Refuse(c, sig) ==
  /\ work' = [work EXCEPT ![c] = NoCommand]
  /\ bad' = [bad EXCEPT ![c] = 1]
  /\ signature' = [signature EXCEPT ![c] = sig]
  /\ UNCHANGED fifo

Offer(c, data) ==
  /\ fifo' = [fifo EXCEPT ![c] = data]
  /\ work' = [work EXCEPT ![c].left = @ - 1, ![c].sector = @ + 1]
  /\ UNCHANGED <<bad, signature>>

Answers(c) ==
  LET w == work[c]
  IN CASE w.kind = "identify" /\ kinds[w.unit] = "ata" -> Offer(c, Identity(w.unit))
       [] w.kind = "identify" /\ kinds[w.unit] # "ata" -> Refuse(c, kinds[w.unit])
       [] w.kind = "identify packet" -> Offer(c, Identity(w.unit)) \/ Refuse(c, "atapi")
       [] w.kind = "read" /\ kinds[w.unit] # "ata" -> Refuse(c, signature[c])
       [] w.kind \in {"read", "packet read"} /\ w.left > 0 ->
            Offer(c, [unit |-> w.unit, sector |-> w.sector]) \/ Refuse(c, signature[c])
       [] OTHER -> work' = [work EXCEPT ![c] = NoCommand] /\ UNCHANGED <<fifo, bad, signature>>

Interrupts(w) == IF w.kind = "packet" THEN 0 ELSE 1

DriveAnswers(c) ==
  /\ Busy(c)
  /\ Answers(c)
  /\ ideXirq' = IF Interrupts(work[c]) = 1 THEN 1 ELSE ideXirq
  /\ UNCHANGED <<kinds, place, unit, request>>

-----------------------------------------------------------------------------
Init ==
  /\ kinds \in [Units -> Kinds]
  /\ place = "identify"
  /\ unit = 1
  /\ ideXirq = 0
  /\ work = [c \in 1 .. 2 |-> NoCommand]
  /\ fifo = [c \in 1 .. 2 |-> None]
  /\ signature = [c \in 1 .. 2 |-> "zero"]
  /\ bad = [c \in 1 .. 2 |-> 0]
  /\ readCommand = [sector |-> 0, count |-> 0]
  /\ read = NoRead
  /\ todo = <<>>
  /\ answer = 0
  /\ content = None
  /\ laterReads = 0

Driver ==
  \/ Identify
  \/ Absent
  \/ Poll
  \/ SataFound
  \/ AtaFound
  \/ AtapiFound
  \/ Inquired
  \/ StartRead
  \/ Started
  \/ Reset
  \/ AtaCommand
  \/ AtaData
  \/ AskPacket
  \/ BuildPacket
  \/ SendPacket
  \/ AtapiFails
  \/ AtapiData
  \/ LastWait

Next ==
  \/ Driver
  \/ \E c \in 1 .. 2 : DriveAnswers(c)
  \/ \E u \in Units, n \in {1, 2} : LaterRead(u, 1, n)

(* The caller runs, and a drive answers. *)
Fairness == WF_ideVars(Driver) /\ \A c \in 1 .. 2 : WF_ideVars(DriveAnswers(c))

Spec == Init /\ [][Next]_ideVars /\ Fairness

-----------------------------------------------------------------------------
(* A read that begins while no drive is at work, and returns 1, has stored the first    *)
(* sector that was asked for, of the drive that it addressed; an ATA drive's error is   *)
(* not looked for, so then there is nothing.                                            *)
CalmReadsAreExact ==
  answer = 1 /\ read.calm = 1 =>
    \/ content = [unit |-> read.unit, sector |-> read.sector]
    \/ read.by = "ata" /\ content = NoData

(* The start comes to an end whatever drives there are, and so does a read. *)
DriverEnds == place # "idle" ~> place \in {"idle", "stopped"}
=============================================================================
