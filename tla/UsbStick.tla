------------------------------- MODULE UsbStick -------------------------------
(***************************************************************************)
(* A mass storage device (kernel/drivers/usb_stick.c, usb.c) on the EHCI   *)
(* host: its installation and usb_stick_read, which reads each sector in   *)
(* three requests: the command out, the data in, the status in.            *)
(*                                                                         *)
(* Requests that are given up leave the device in the middle of a sector.  *)
(* Pages are counted: what a request takes, what it gives back.  One       *)
(* caller reads at a time; writes are refused without a request.           *)
(***************************************************************************)
EXTENDS Ehci

CONSTANTS
  Sectors,      \* the numbers of the sectors that are asked for
  MaxCount,     \* sectors of one read
  MaxReads      \* bound: reads after the installation's

ASSUME ReadAssumption == 0 \in Sectors /\ Sectors \subseteq Nat /\ MaxCount \in Nat \ {0} /\ MaxReads \in Nat

(* A command as it is sent and as the device carries it out, and what comes back. *)
CommandBlocks == [sector : Nat, tag : Nat, good : {0, 1}]
Packets == [phase : {"data", "csw"}, command : CommandBlocks]

ASSUME NoneAssumption == None \notin Packets \cup CommandBlocks \cup Control \cup Bulk

VARIABLES
  tag,          \* usbtagpointer
  job,          \* the read under way: its sector, count, and whether it is the installation's
  data,         \* the packet that the second request returned
  buffer,       \* the packets copied to the caller's buffer
  result,       \* of the last read
  reads,
  taken,        \* pages that were requested and not given back
  before        \* ghost: taken, when the sector was begun

stick == <<tag, job, data, buffer, result, reads>>
vars == <<ehciVars, stick, taken, before>>

NoJob == [sector |-> 0, count |-> 0, install |-> 0]

-----------------------------------------------------------------------------
(* Pages: a request takes one for each descriptor, two for the heads, one for its set-up  *)
(* packet and one for the buffer; a bulk read one more, and a request for the units, too. *)
TakenFor(kind) ==
  CASE kind \in {"address", "setconfig"} -> 5
    [] kind \in {"device", "configuration"} -> 7
    [] kind = "lun" -> 8
    [] kind = "out" -> 4 + 1            \* the command block
    [] kind \in {"in", "csw"} -> 5

FreedAfterWithoutHead(kind) ==   \* faulty variant of FreedAfter: the second head is forgotten
  CASE kind \in {"address", "setconfig"} -> 5
    [] kind \in {"device", "configuration", "lun"} -> 6
    [] kind \in {"out", "in", "csw"} -> 2

(* The buffer goes to the caller; the empty packet's descriptor is never given back. *)
FreedAfter(kind) ==
  CASE kind \in {"address", "setconfig"} -> 5
    [] kind \in {"device", "configuration", "lun"} -> 6
    [] kind \in {"out", "in", "csw"} -> 3

Freed(kind, more) == taken' = taken - FreedAfter(kind) - more

OfferRequest ==
  /\ Offer([sector |-> job.sector + Len(buffer), tag |-> tag, good |-> 1])
  /\ tag' = IF pc = "out" THEN tag + 1 ELSE tag
  /\ before' = IF pc = "out" THEN taken ELSE before
  /\ taken' = taken + TakenFor(pc)
  /\ UNCHANGED <<job, data, buffer, result, reads>>

-----------------------------------------------------------------------------
(* Control requests; only the first descriptor of the device is given back. *)
ControlEnds ==
  /\ \/ Answered /\ Freed(pc, IF pc = "device" THEN 1 ELSE 0)
     \/ Configured /\ Freed(pc, 0)
     \/ Refused /\ Freed(pc, 0)
  /\ UNCHANGED <<stick, before>>

(* The stick is registered as a block device, a page is taken and its first sector read. *)
Install ==
  /\ pc = "lun"
  /\ Done
  /\ pc' = "out"
  /\ job' = [sector |-> 0, count |-> 1, install |-> 1]
  /\ buffer' = <<>>
  /\ taken' = taken - FreedAfter("lun") + 1
  /\ GiveBack
  /\ UNCHANGED <<port, tag, data, result, reads, before>>

Read(s, n) ==
  /\ pc = "ready"
  /\ device.address # 0 /\ reads < MaxReads
  /\ pc' = "out"
  /\ reads' = reads + 1
  /\ job' = [sector |-> s, count |-> n, install |-> 0]
  /\ buffer' = <<>>
  /\ result' = 0
  /\ UNCHANGED <<start, port, connected, count, host, device, tag, data, taken, before>>

Return == IF job.install = 1 THEN NextPort ELSE pc' = "ready" /\ UNCHANGED port

-----------------------------------------------------------------------------
CommandSent ==
  /\ pc = "out"
  /\ Done
  /\ pc' = "in"
  /\ Freed("out", 0)
  /\ GiveBack
  /\ UNCHANGED <<port, stick, before>>

DataReceived ==
  /\ pc = "in"
  /\ Done
  /\ pc' = "csw"
  /\ data' = arrived
  /\ Freed("in", 0)
  /\ GiveBack
  /\ UNCHANGED <<port, tag, job, buffer, result, reads, before>>

(* A request fails: the command block is given back, and nothing that was received. *)
RequestFails ==
  /\ pc \in Bulk
  /\ Failed
  /\ Return
  /\ result' = 0
  /\ Freed(pc, 1)
  /\ GiveBack
  /\ UNCHANGED <<tag, job, data, buffer, reads, before>>

ValidWithoutTag(csw) ==   \* faulty variant of Valid: whose status it is is not looked at
  csw.phase = "csw" /\ csw.command.good = 1

(* Signature, tag, residue and status. *)
Valid(csw) == csw.phase = "csw" /\ csw.command.tag = tag - 1 /\ csw.command.good = 1

StatusInvalid ==
  /\ pc = "csw"
  /\ Done
  /\ ~Valid(arrived)
  /\ Return
  /\ result' = 0
  /\ Freed("csw", 1)
  /\ GiveBack
  /\ UNCHANGED <<tag, job, data, buffer, reads, before>>

(* The sector is copied, and its page and the command block are given back. *)
SectorRead ==
  /\ pc = "csw"
  /\ Done
  /\ Valid(arrived)
  /\ buffer' = Append(buffer, data)
  /\ IF Len(buffer') < job.count THEN pc' = "out" /\ UNCHANGED <<port, result>>
                                 ELSE Return /\ result' = 1
  /\ Freed("csw", 2)
  /\ GiveBack
  /\ UNCHANGED <<tag, job, data, reads, before>>

-----------------------------------------------------------------------------
Init ==
  /\ EhciInit
  /\ tag = 1
  /\ job = NoJob
  /\ data = None
  /\ buffer = <<>>
  /\ result = 0
  /\ reads = 0
  /\ taken = 0
  /\ before = 0

Others == UNCHANGED <<stick, taken, before>>

Driver ==
  \/ HostStep /\ Others
  \/ OfferRequest
  \/ ControlEnds
  \/ Install
  \/ CommandSent
  \/ DataReceived
  \/ RequestFails
  \/ StatusInvalid
  \/ SectorRead

Next ==
  \/ Driver
  \/ External /\ Others
  \/ \E s \in Sectors, n \in 1 .. MaxCount : Read(s, n)

(* The driver runs in the boot task or in the reader's; the firmware and the reset come *)
(* to an end.  Nothing is assumed of the device, or of when the schedule stops.         *)
Fairness == WF_vars(Driver) /\ WF_vars(External /\ pc \in Starting /\ Others)

Spec == Init /\ [][Next]_vars /\ Fairness

-----------------------------------------------------------------------------
(* A read that returns 1 has copied the sectors that were asked for, in their order,  *)
(* whatever requests before it were given up in the middle and left in the device.    *)
SuccessIsTheSectors ==
  result = 1 => /\ Len(buffer) = job.count
                /\ \A i \in DOMAIN buffer :
                     /\ buffer[i].phase = "data" /\ buffer[i].command.good = 1
                     /\ buffer[i].command.sector = job.sector + i - 1

(* The controller stores into a descriptor that was given back only when the request   *)
(* had been given up, also when the next one is under way: what success returns is     *)
(* complete.  (The one other descriptor that it may still store to, the empty packet's, *)
(* is never given back.)                                                               *)
GivenBackIsLeftAlone ==
  [][/\ polls = 0 /\ polls' = 0 /\ chain'.td # chain.td =>
          expired = 1 \/ (chain.kind = "out" /\ chain'.td[1] = chain.td[1])
     /\ behind'.kind = behind.kind /\ behind'.td # behind.td =>
          behind.expired = 1 \/ (behind.kind = "out" /\ behind'.td[1] = behind.td[1])]_vars

Cost(place, success) ==
  IF success THEN 4 ELSE [out |-> 1, in |-> 3, csw |-> 5][place]

(* Every sector that is read keeps four pages for good, a failure one, three or five:   *)
(* never what somebody else holds, and never the page of the data after success.        *)
SectorKeepsPages ==
  [][polls > 0 /\ polls' = 0 /\ pc \in Bulk /\ pc' \notin {"in", "csw"} =>
       taken' - before = Cost(pc, buffer' # buffer)]_vars

=============================================================================
