-------------------------------- MODULE Ahci --------------------------------
(***************************************************************************)
(* One port of the AHCI driver (kernel/drivers/ahci.c): ahci_read_sector   *)
(* and ahci_write_sector of tasks that share its only command slot.        *)
(*                                                                         *)
(* There is no lock, and the driver runs with interrupts on, so the timer  *)
(* may hand the processor to another task between any two of its stores.   *)
(* A transfer fills the slot in four actions (the header; the clearing of  *)
(* the command table; the buffer's address; the command), then waits for   *)
(* the drive, issues the command and polls.  The drive, which is external, *)
(* carries out whatever the slot holds some time after the issue, or sets  *)
(* the error bit and stops: nobody restarts the port.                      *)
(*                                                                         *)
(* A transfer is of one sector, as the number of sectors is stored with    *)
(* the command, and the payload of a sector is a value.                    *)
(***************************************************************************)
CONSTANTS
  Tasks,
  Sectors,
  Payloads,
  None        \* what a cleared field of the command table holds

ASSUME NoneAssumption == None \notin Tasks \cup Sectors \cup {"read", "write"}

Ops == {"read", "write"}
Requests == [op : Ops, sector : Sectors]
NoRequest == [op |-> "read", sector |-> None]

(* Where a task is: outside, or at the next store or loop of the transfer. *)
Filling == {"header", "clear", "buffer", "command"}
Places == {"idle", "wait", "issue", "poll"} \cup Filling

VARIABLES
  interruptStatus,  \* 1: the task file error bit is set
  commandIssue,
  halted,           \* 1: the drive has met an error and takes no more commands
  write,            \* the direction in the command header
  table,            \* the command table
  disk,             \* the payload in each sector
  buffer,           \* per task: the payload in its buffer
  pc,
  request,          \* per task: its arguments
  mixed             \* ghost: tasks whose transfer overlaps another one

port == <<interruptStatus, commandIssue, halted>>
slot == <<write, table>>
vars == <<port, slot, disk, buffer, pc, request, mixed>>

Cleared == [buffer |-> None, command |-> None, sector |-> None]

Busy(t) == pc[t] # "idle"
Goto(t, place) == pc' = [pc EXCEPT ![t] = place]

-----------------------------------------------------------------------------
(* ahci_port_configure has cleared the slot. *)
Init ==
  /\ interruptStatus = 0
  /\ commandIssue = 0
  /\ halted = 0
  /\ write = "read"
  /\ table = Cleared
  /\ disk \in [Sectors -> Payloads]
  /\ buffer \in [Tasks -> Payloads]
  /\ pc = [t \in Tasks |-> "idle"]
  /\ request = [t \in Tasks |-> NoRequest]
  /\ mixed = {}

(* A call; the buffer of a write holds what the caller put there. *)
Begin(t, op, s, v) ==
  /\ ~Busy(t)
  /\ Goto(t, "header")
  /\ request' = [request EXCEPT ![t] = [op |-> op, sector |-> s]]
  /\ buffer' = [buffer EXCEPT ![t] = v]
  /\ mixed' = IF \E u \in Tasks : Busy(u) THEN {t} \cup {u \in Tasks : Busy(u)} ELSE mixed
  /\ UNCHANGED <<port, slot, disk>>

-----------------------------------------------------------------------------
FillHeaderKeepsDirection(t) ==   \* faulty variant of FillHeader: only a write stores the direction
  /\ pc[t] = "header"
  /\ interruptStatus' = 0
  /\ write' = IF request[t].op = "write" THEN "write" ELSE write
  /\ Goto(t, "clear")
  /\ UNCHANGED <<commandIssue, halted, table, disk, buffer, request, mixed>>

(* The error bit is cleared and the direction stored. *)
FillHeader(t) ==
  /\ pc[t] = "header"
  /\ interruptStatus' = 0
  /\ write' = request[t].op
  /\ Goto(t, "clear")
  /\ UNCHANGED <<commandIssue, halted, table, disk, buffer, request, mixed>>

ClearTable(t) ==
  /\ pc[t] = "clear"
  /\ table' = Cleared
  /\ Goto(t, "buffer")
  /\ UNCHANGED <<port, write, disk, buffer, request, mixed>>

FillBuffer(t) ==
  /\ pc[t] = "buffer"
  /\ table' = [table EXCEPT !.buffer = t]
  /\ Goto(t, "command")
  /\ UNCHANGED <<port, write, disk, buffer, request, mixed>>

FillCommand(t) ==
  /\ pc[t] = "command"
  /\ table' = [table EXCEPT !.command = request[t].op, !.sector = request[t].sector]
  /\ Goto(t, "wait")
  /\ UNCHANGED <<port, write, disk, buffer, request, mixed>>

-----------------------------------------------------------------------------
Return(t) ==
  /\ Goto(t, "idle")
  /\ request' = [request EXCEPT ![t] = NoRequest]
  /\ mixed' = mixed \ {t}
  /\ UNCHANGED <<port, slot, disk, buffer>>

(* The drive stays busy for a million turns: 0 is returned, nothing was issued. *)
WaitTimesOut(t) == pc[t] = "wait" /\ Return(t)

WaitEnds(t) ==
  /\ pc[t] = "wait"
  /\ Goto(t, "issue")
  /\ UNCHANGED <<port, slot, disk, buffer, request, mixed>>

Issue(t) ==
  /\ pc[t] = "issue"
  /\ commandIssue' = 1
  /\ Goto(t, "poll")
  /\ UNCHANGED <<interruptStatus, halted, slot, disk, buffer, request, mixed>>

(* The bit of the slot is cleared again: 1 is returned. *)
Succeed(t) == pc[t] = "poll" /\ commandIssue = 0 /\ Return(t)

FailLater(t) ==   \* faulty variant of Fail: only a cleared slot is looked at
  pc[t] = "poll" /\ commandIssue = 0 /\ interruptStatus = 1 /\ Return(t)

(* The error bit is set: 0 is returned. *)
Fail(t) == pc[t] = "poll" /\ commandIssue # 0 /\ interruptStatus = 1 /\ Return(t)

-----------------------------------------------------------------------------
(* The drive.  A command whose direction is not that of the header, or that is   *)
(* not complete, does anything to the sector and the buffer it names.            *)
Moved(f, x) == {[y \in DOMAIN f |-> IF y = x THEN v ELSE f[y]] : v \in Payloads}

Execute ==
  /\ commandIssue = 1
  /\ halted = 0
  /\ commandIssue' = 0
  /\ \/ /\ table.command = "read" /\ write = "read"
        /\ table.buffer # None /\ table.sector # None
        /\ buffer' = [buffer EXCEPT ![table.buffer] = disk[table.sector]]
        /\ UNCHANGED disk
     \/ /\ table.command = "write" /\ write = "write"
        /\ table.buffer # None /\ table.sector # None
        /\ disk' = [disk EXCEPT ![table.sector] = buffer[table.buffer]]
        /\ UNCHANGED buffer
     \/ /\ table.command # write \/ table.buffer = None \/ table.sector = None
        /\ disk' \in Moved(disk, table.sector)
        /\ buffer' \in Moved(buffer, table.buffer)
  /\ UNCHANGED <<interruptStatus, halted, slot, pc, request, mixed>>

Break ==
  /\ commandIssue = 1
  /\ halted = 0
  /\ interruptStatus' = 1
  /\ halted' = 1
  /\ UNCHANGED <<commandIssue, slot, disk, buffer, pc, request, mixed>>

Step(t) ==
  \/ FillHeader(t)
  \/ ClearTable(t)
  \/ FillBuffer(t)
  \/ FillCommand(t)
  \/ WaitTimesOut(t)
  \/ WaitEnds(t)
  \/ Issue(t)
  \/ Succeed(t)
  \/ Fail(t)

Next ==
  \/ \E t \in Tasks :
       \/ \E op \in Ops, s \in Sectors, v \in Payloads : Begin(t, op, s, v)
       \/ Step(t)
  \/ Execute
  \/ Break

(* Every task gets the processor again and again (see Multitasking); a drive  *)
(* that was issued a command answers.                                         *)
Fairness == (\A t \in Tasks : WF_vars(Step(t))) /\ WF_vars(Execute \/ Break)

Spec == Init /\ [][Next]_vars /\ Fairness

-----------------------------------------------------------------------------
TypeOK ==
  /\ interruptStatus \in {0, 1}
  /\ commandIssue \in {0, 1}
  /\ halted \in {0, 1}
  /\ write \in Ops
  /\ table \in [buffer : Tasks \cup {None}, command : Ops \cup {None}, sector : Sectors \cup {None}]
  /\ disk \in [Sectors -> Payloads]
  /\ buffer \in [Tasks -> Payloads]
  /\ pc \in [Tasks -> Places]
  /\ request \in [Tasks -> Requests \cup {NoRequest}]
  /\ mixed \subseteq Tasks

(* A transfer that no other one overlaps and that returns 1 was made, from or to *)
(* its own sector and buffer, whatever transfers before it left in the slot.     *)
SuccessIsTrue ==
  [][\A t \in Tasks \ mixed :
       pc[t] = "poll" /\ pc'[t] = "idle" /\ interruptStatus = 0 =>
         buffer[t] = disk[request[t].sector]]_vars

(* While transfers do not overlap the disk changes only where the transfer that *)
(* is under way writes, and to what it writes; nobody's buffer but a reader's   *)
(* changes.                                                                     *)
NothingElseMoves ==
  [][mixed = {} =>
       /\ \A s \in Sectors : disk'[s] # disk[s] =>
            \E t \in Tasks : pc[t] = "poll" /\ request[t] = [op |-> "write", sector |-> s]
                               /\ disk'[s] = buffer[t]
       /\ \A t \in Tasks : buffer'[t] # buffer[t] =>
            pc[t] = "idle" \/ (pc[t] = "poll" /\ request[t].op = "read")]_vars

(* A transfer ends, with the drive's error too, unless the drive has stopped before *)
(* or another transfer overlaps it: that one may clear the error bit before it is   *)
(* seen, or issue the slot again whenever it has been cleared.                      *)
TransferEnds ==
  \A t \in Tasks : pc[t] = "header" /\ halted = 0 ~> ~Busy(t) \/ t \in mixed
=============================================================================
