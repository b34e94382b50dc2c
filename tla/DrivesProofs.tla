----------------------------- MODULE DrivesProofs -----------------------------
(***************************************************************************)
(* Proofs about the drives: Ahci, for any number of tasks, sectors and     *)
(* payloads; Ide, for any drives and reads; Volumes, for machines with any *)
(* number of drives and partitions.                                        *)
(***************************************************************************)
EXTENDS Drives, TLAPS

(* A request is that of a caller exactly while its transfer is under way. *)
RequestOK == \A t \in Tasks : Busy(t) => request[t] \in Requests

TypeInv == TypeOK /\ RequestOK

LEMMA InitTypes == Init => TypeInv
BY DEF Init, TypeInv, TypeOK, RequestOK, Busy, Places, Ops, Cleared

LEMMA NextTypes == TypeInv /\ [Next]_vars => TypeInv'
<1>. SUFFICES ASSUME TypeInv, [Next]_vars PROVE TypeInv'
  OBVIOUS
<1>. USE DEF TypeInv, TypeOK, RequestOK, Busy, Goto, port, slot
<1>1. ASSUME NEW t \in Tasks, NEW op \in Ops, NEW s \in Sectors, NEW v \in Payloads,
             Begin(t, op, s, v)
      PROVE  TypeInv'
  BY <1>1 DEF Begin, Places, Filling, Requests
<1>2. ASSUME NEW t \in Tasks, FillHeader(t) PROVE TypeInv'
  BY <1>2 DEF FillHeader, Places, Filling, Requests
<1>3. ASSUME NEW t \in Tasks, ClearTable(t) PROVE TypeInv'
  BY <1>3 DEF ClearTable, Places, Filling, Cleared
<1>4. ASSUME NEW t \in Tasks, FillBuffer(t) PROVE TypeInv'
  BY <1>4 DEF FillBuffer, Places, Filling
<1>5. ASSUME NEW t \in Tasks, FillCommand(t) PROVE TypeInv'
  BY <1>5 DEF FillCommand, Places, Filling, Requests
<1>6. ASSUME NEW t \in Tasks, WaitEnds(t) \/ Issue(t) PROVE TypeInv'
  BY <1>6 DEF WaitEnds, Issue, Places
<1>7. ASSUME NEW t \in Tasks, Return(t) PROVE TypeInv'
  BY <1>7 DEF Return, Places
<1>8. ASSUME NEW t \in Tasks, WaitTimesOut(t) \/ Succeed(t) \/ Fail(t) PROVE TypeInv'
  BY <1>7, <1>8 DEF WaitTimesOut, Succeed, Fail
<1>9. CASE Execute
  <2>1. disk' \in [Sectors -> Payloads] /\ buffer' \in [Tasks -> Payloads]
    <3>1. CASE table.command = "read" /\ write = "read" /\ table.buffer # None /\ table.sector # None
               /\ buffer' = [buffer EXCEPT ![table.buffer] = disk[table.sector]] /\ UNCHANGED disk
      BY <3>1
    <3>2. CASE table.command = "write" /\ write = "write" /\ table.buffer # None /\ table.sector # None
               /\ disk' = [disk EXCEPT ![table.sector] = buffer[table.buffer]] /\ UNCHANGED buffer
      BY <3>2
    <3>3. CASE disk' \in Moved(disk, table.sector) /\ buffer' \in Moved(buffer, table.buffer)
      BY <3>3 DEF Moved
    <3>. QED BY <1>9, <3>1, <3>2, <3>3 DEF Execute
  <2>. QED BY <1>9, <2>1 DEF Execute
<1>10. CASE Break
  BY <1>10 DEF Break
<1>11. CASE UNCHANGED vars
  BY <1>11 DEF vars
<1>. QED BY <1>1, <1>2, <1>3, <1>4, <1>5, <1>6, <1>8, <1>9, <1>10, <1>11 DEF Next, Step

LEMMA Types == Spec => []TypeInv
BY InitTypes, NextTypes, PTL DEF Spec

(* The port and the slot hold what they can hold, however transfers overlap. *)
THEOREM TypeCorrect == Spec => []TypeOK
BY Types, PTL DEF TypeInv

-----------------------------------------------------------------------------
(* Transfers that are under way at the same time are all marked, *)
Overlaps ==
  /\ \A t, u \in Tasks : t # u /\ Busy(t) /\ Busy(u) => t \in mixed
  /\ \A t \in mixed : Busy(t)

(* the drive is at work only while somebody polls, and what an error stopped *)
(* stays issued,                                                             *)
PortOK ==
  /\ commandIssue = 1 /\ halted = 0 => \E t \in Tasks : pc[t] = "poll"
  /\ interruptStatus = 1 => halted = 1
  /\ halted = 1 => commandIssue = 1

(* and the slot holds what a transfer that is alone has stored so far, and, when *)
(* it has been cleared again, the transfer has been made.                        *)
SlotOK ==
  \A t \in Tasks \ mixed :
    /\ pc[t] \in {"clear", "buffer", "command", "wait", "issue", "poll"} => write = request[t].op
    /\ pc[t] \in {"command", "wait", "issue", "poll"} => table.buffer = t
    /\ pc[t] \in {"wait", "issue", "poll"} =>
         table.command = request[t].op /\ table.sector = request[t].sector
    /\ pc[t] = "poll" /\ commandIssue = 0 => buffer[t] = disk[request[t].sector]

Inv == Overlaps /\ PortOK /\ SlotOK

LEMMA NextOverlaps == TypeInv /\ Overlaps /\ [Next]_vars => Overlaps'
<1>. SUFFICES ASSUME TypeInv, Overlaps, [Next]_vars PROVE Overlaps'
  OBVIOUS
<1>. USE DEF TypeInv, TypeOK, Overlaps, Busy, Goto
<1>1. ASSUME NEW t \in Tasks, NEW op \in Ops, NEW s \in Sectors, NEW v \in Payloads,
             Begin(t, op, s, v)
      PROVE  Overlaps'
  BY <1>1 DEF Begin
<1>2. ASSUME NEW t \in Tasks, FillHeader(t) \/ ClearTable(t) \/ FillBuffer(t) \/ FillCommand(t)
                              \/ WaitEnds(t) \/ Issue(t)
      PROVE  Overlaps'
  BY <1>2 DEF FillHeader, ClearTable, FillBuffer, FillCommand, WaitEnds, Issue
<1>3. ASSUME NEW t \in Tasks, Return(t) PROVE Overlaps'
  BY <1>3 DEF Return
<1>4. CASE Execute \/ Break
  BY <1>4 DEF Execute, Break
<1>5. CASE UNCHANGED vars
  BY <1>5 DEF vars
<1>. QED BY <1>1, <1>2, <1>3, <1>4, <1>5 DEF Next, Step, WaitTimesOut, Succeed, Fail

LEMMA NextPort == TypeInv /\ PortOK /\ [Next]_vars => PortOK'
<1>. SUFFICES ASSUME TypeInv, PortOK, [Next]_vars PROVE PortOK'
  OBVIOUS
<1>. USE DEF TypeInv, TypeOK, PortOK, Busy, Goto, port
<1>1. ASSUME NEW t \in Tasks, NEW op \in Ops, NEW s \in Sectors, NEW v \in Payloads,
             Begin(t, op, s, v)
      PROVE  PortOK'
  BY <1>1 DEF Begin
<1>2. ASSUME NEW t \in Tasks,
             FillHeader(t) \/ ClearTable(t) \/ FillBuffer(t) \/ FillCommand(t) \/ WaitEnds(t)
      PROVE  PortOK'
  BY <1>2 DEF FillHeader, ClearTable, FillBuffer, FillCommand, WaitEnds
<1>3. ASSUME NEW t \in Tasks, Issue(t) PROVE PortOK'
  BY <1>3 DEF Issue
<1>4. ASSUME NEW t \in Tasks, WaitTimesOut(t) \/ Succeed(t) \/ Fail(t) PROVE PortOK'
  BY <1>4 DEF WaitTimesOut, Succeed, Fail, Return
<1>5. CASE Execute
  BY <1>5 DEF Execute
<1>6. CASE Break
  BY <1>6 DEF Break
<1>7. CASE UNCHANGED vars
  BY <1>7 DEF vars
<1>. QED BY <1>1, <1>2, <1>3, <1>4, <1>5, <1>6, <1>7 DEF Next, Step

(* What the drive does to a transfer that is alone. *)
LEMMA ExecuteServes ==
  ASSUME TypeInv, Inv, Execute, NEW t \in Tasks, pc[t] = "poll", t \notin mixed
  PROVE  /\ buffer'[t] = disk'[request[t].sector]
         /\ request[t].op = "read" => disk' = disk /\ \A u \in Tasks \ {t} : buffer'[u] = buffer[u]
         /\ request[t].op = "write" => /\ buffer' = buffer
                                       /\ disk' = [disk EXCEPT ![request[t].sector] = buffer[t]]
<1>1. /\ request[t] \in Requests
      /\ write = request[t].op /\ table.command = request[t].op
      /\ table.buffer = t /\ table.sector = request[t].sector
  BY DEF TypeInv, RequestOK, Inv, SlotOK, Busy
<1>2. t # None /\ request[t].sector # None /\ request[t].sector \in Sectors /\ request[t].op \in Ops
  BY <1>1, NoneAssumption DEF Requests
<1>3. CASE request[t].op = "read"
  BY <1>1, <1>2, <1>3 DEF Execute, TypeInv, TypeOK
<1>4. CASE request[t].op = "write"
  BY <1>1, <1>2, <1>4 DEF Execute, TypeInv, TypeOK
<1>. QED BY <1>2, <1>3, <1>4 DEF Ops

LEMMA NextSlot == TypeInv /\ Inv /\ [Next]_vars => SlotOK'
<1>. SUFFICES ASSUME TypeInv, Inv, [Next]_vars, NEW t \in Tasks, t \notin mixed'
     PROVE  /\ pc'[t] \in {"clear", "buffer", "command", "wait", "issue", "poll"} => write' = request'[t].op
            /\ pc'[t] \in {"command", "wait", "issue", "poll"} => table'.buffer = t
            /\ pc'[t] \in {"wait", "issue", "poll"} =>
                 table'.command = request'[t].op /\ table'.sector = request'[t].sector
            /\ pc'[t] = "poll" /\ commandIssue' = 0 => buffer'[t] = disk'[request'[t].sector]
  BY DEF SlotOK
<1>. DEFINE Goal ==
       /\ pc'[t] \in {"clear", "buffer", "command", "wait", "issue", "poll"} => write' = request'[t].op
       /\ pc'[t] \in {"command", "wait", "issue", "poll"} => table'.buffer = t
       /\ pc'[t] \in {"wait", "issue", "poll"} =>
            table'.command = request'[t].op /\ table'.sector = request'[t].sector
       /\ pc'[t] = "poll" /\ commandIssue' = 0 => buffer'[t] = disk'[request'[t].sector]
<1>1. pc'[t] = "idle" => Goal
  OBVIOUS
<1>2. ASSUME NEW u \in Tasks \ {t}, Busy(u), Busy(t), mixed \ {u} \subseteq mixed' PROVE Goal
  BY <1>2 DEF Inv, Overlaps
<1>3. ASSUME NEW u \in Tasks, NEW op \in Ops, NEW s \in Sectors, NEW v \in Payloads,
             Begin(u, op, s, v)
      PROVE  Goal
  <2>1. CASE u = t
    BY <1>3, <2>1 DEF Begin, Goto, TypeInv, TypeOK
  <2>2. CASE u # t
    <3>1. pc'[t] = pc[t] /\ (Busy(t) => t \in mixed')
      BY <1>3, <2>2 DEF Begin, Goto
    <3>. QED BY <1>1, <3>1 DEF Busy
  <2>. QED BY <2>1, <2>2
<1>4. ASSUME NEW u \in Tasks, Step(u) PROVE Goal
  <2>1. Busy(u) /\ mixed \ {u} \subseteq mixed'
    BY <1>4
       DEF Step, FillHeader, ClearTable, FillBuffer, FillCommand, WaitTimesOut, WaitEnds, Issue,
                Succeed, Fail, Return, Busy
  <2>2. CASE u # t
    <3>1. PICK p \in Places : Goto(u, p)
      BY <1>4 DEF Step, FillHeader, ClearTable, FillBuffer, FillCommand, WaitTimesOut, WaitEnds,
                  Issue, Succeed, Fail, Return, Places, Filling
    <3>2. pc'[t] = pc[t]
      BY <2>2, <3>1 DEF Goto, TypeInv, TypeOK
    <3>. QED BY <1>1, <1>2, <2>1, <2>2, <3>2 DEF Busy
  <2>3. CASE u = t
    <3>1. CASE WaitTimesOut(t) \/ Succeed(t) \/ Fail(t)
      BY <1>1, <3>1 DEF WaitTimesOut, Succeed, Fail, Return, Goto, TypeInv, TypeOK
    <3>. USE DEF TypeInv, TypeOK, Goto, port
    <3>2. CASE FillHeader(t) /\ t \notin mixed
      BY <3>2 DEF FillHeader, Inv, SlotOK
    <3>3. CASE ClearTable(t) /\ t \notin mixed
      BY <3>3 DEF ClearTable, Inv, SlotOK
    <3>4. CASE FillBuffer(t) /\ t \notin mixed
      BY <3>4 DEF FillBuffer, Inv, SlotOK
    <3>5. CASE FillCommand(t) /\ t \notin mixed
      BY <3>5 DEF FillCommand, Inv, SlotOK
    <3>6. CASE WaitEnds(t) /\ t \notin mixed
      BY <3>6 DEF WaitEnds, slot, Inv, SlotOK
    <3>7. CASE Issue(t) /\ t \notin mixed
      BY <3>7 DEF Issue, slot, Inv, SlotOK
    <3>8. FillHeader(t) \/ ClearTable(t) \/ FillBuffer(t) \/ FillCommand(t) \/ WaitEnds(t) \/ Issue(t)
            => t \notin mixed
      BY DEF FillHeader, ClearTable, FillBuffer, FillCommand, WaitEnds, Issue
    <3>. QED BY <1>4, <2>3, <3>1, <3>2, <3>3, <3>4, <3>5, <3>6, <3>7, <3>8 DEF Step
  <2>. QED BY <2>2, <2>3
<1>5. CASE Execute
  <2>1. t \notin mixed /\ pc' = pc /\ request' = request /\ write' = write /\ table' = table
    BY <1>5 DEF Execute, slot
  <2>2. pc[t] = "poll" => buffer'[t] = disk'[request[t].sector]
    BY <1>5, <2>1, ExecuteServes
  <2>. QED BY <2>1, <2>2 DEF Inv, SlotOK
<1>6. CASE Break \/ UNCHANGED vars
  BY <1>6 DEF Break, vars, port, slot, Inv, SlotOK
<1>. QED BY <1>3, <1>4, <1>5, <1>6 DEF Next

LEMMA Invariance == Spec => []Inv
<1>1. Init => Inv
  BY DEF Init, Inv, Overlaps, PortOK, SlotOK, Busy
<1>. QED BY <1>1, Types, NextOverlaps, NextPort, NextSlot, PTL DEF Spec, Inv

(* A transfer that is alone and returns 1 was made, for any number of tasks and *)
(* sectors and whatever other transfers left in the slot.                       *)
THEOREM SuccessIsHonest == Spec => SuccessIsTrue
<1>1. TypeInv /\ Inv /\ [Next]_vars =>
        [\A t \in Tasks \ mixed :
           pc[t] = "poll" /\ pc'[t] = "idle" /\ interruptStatus = 0 =>
             buffer[t] = disk[request[t].sector]]_vars
  <2>1. SUFFICES ASSUME TypeInv, Inv, Next, NEW t \in Tasks \ mixed,
                        pc[t] = "poll", pc'[t] = "idle", interruptStatus = 0
        PROVE  buffer[t] = disk[request[t].sector]
    OBVIOUS
  <2>2. commandIssue = 0
    <3>1. Succeed(t)
      BY <2>1
         DEF Next, Step, Begin, FillHeader, ClearTable, FillBuffer, FillCommand, WaitTimesOut,
                  WaitEnds, Issue, Succeed, Fail, Return, Goto, Execute, Break, TypeInv, TypeOK, Busy
    <3>. QED BY <3>1 DEF Succeed
  <2>. QED BY <2>1, <2>2 DEF Inv, SlotOK
<1>. QED BY <1>1, Types, Invariance, PTL DEF Spec, SuccessIsTrue

(* While transfers do not overlap only the transfer under way moves anything. *)
THEOREM NothingElseIsMoved == Spec => NothingElseMoves
<1>1. TypeInv /\ Inv /\ [Next]_vars =>
        [mixed = {} =>
           /\ \A s \in Sectors : disk'[s] # disk[s] =>
                \E t \in Tasks : pc[t] = "poll" /\ request[t] = [op |-> "write", sector |-> s]
                                   /\ disk'[s] = buffer[t]
           /\ \A t \in Tasks : buffer'[t] # buffer[t] =>
                pc[t] = "idle" \/ (pc[t] = "poll" /\ request[t].op = "read")]_vars
  <2>1. SUFFICES ASSUME TypeInv, Inv, Next, mixed = {}
        PROVE  /\ \A s \in Sectors : disk'[s] # disk[s] =>
                    \E t \in Tasks : pc[t] = "poll" /\ request[t] = [op |-> "write", sector |-> s]
                                       /\ disk'[s] = buffer[t]
               /\ \A t \in Tasks : buffer'[t] # buffer[t] =>
                    pc[t] = "idle" \/ (pc[t] = "poll" /\ request[t].op = "read")
    OBVIOUS
  <2>2. CASE UNCHANGED <<disk, buffer>>
    BY <2>2
  <2>3. ASSUME NEW t \in Tasks, NEW op \in Ops, NEW s \in Sectors, NEW v \in Payloads,
               Begin(t, op, s, v)
        PROVE  /\ UNCHANGED disk
               /\ \A u \in Tasks : buffer'[u] # buffer[u] => pc[u] = "idle"
    BY <2>3 DEF Begin, Busy, TypeInv, TypeOK
  <2>4. CASE Execute
    <3>1. PICK t \in Tasks : pc[t] = "poll"
      BY <2>1, <2>4 DEF Execute, Inv, PortOK
    <3>2. /\ request[t].op = "read" => disk' = disk /\ \A u \in Tasks \ {t} : buffer'[u] = buffer[u]
          /\ request[t].op = "write" => /\ buffer' = buffer
                                        /\ disk' = [disk EXCEPT ![request[t].sector] = buffer[t]]
      BY <2>1, <2>4, <3>1, ExecuteServes
    <3>3. request[t] \in Requests
      BY <2>1, <3>1 DEF TypeInv, RequestOK, Busy
    <3>4. CASE request[t].op = "read"
      BY <3>1, <3>2, <3>4
    <3>5. CASE request[t].op = "write"
      <4>1. ASSUME NEW s \in Sectors, disk'[s] # disk[s]
            PROVE  request[t] = [op |-> "write", sector |-> s] /\ disk'[s] = buffer[t]
        BY <2>1, <3>2, <3>3, <3>5, <4>1 DEF Requests, TypeInv, TypeOK
      <4>. QED BY <3>1, <3>2, <3>5, <4>1
    <3>. QED BY <3>3, <3>4, <3>5 DEF Requests, Ops
  <2>5. \/ UNCHANGED <<disk, buffer>> \/ Execute
        \/ \E t \in Tasks, op \in Ops, s \in Sectors, v \in Payloads : Begin(t, op, s, v)
    BY <2>1
       DEF Next, Step, FillHeader, ClearTable, FillBuffer, FillCommand, WaitTimesOut, WaitEnds,
                Issue, Succeed, Fail, Return, Break
  <2>. QED BY <2>2, <2>3, <2>4, <2>5
<1>. QED BY <1>1, Types, Invariance, PTL DEF Spec, NothingElseMoves

-----------------------------------------------------------------------------
(* What is fixed while the driver works. *)
DriverTypes ==
  /\ unit \in I!Units /\ ideXirq \in {0, 1}
  /\ DOMAIN work = 1 .. 2 /\ DOMAIN fifo = 1 .. 2 /\ DOMAIN bad = 1 .. 2
  /\ todo \in Seq(Nat)
  /\ read \in [by : {"ata", "atapi"}, unit : 0 .. 4, sector : Nat, count : 0 .. 2, calm : {0, 1}]

Reading == {"reset", "ata", "ata wait", "atapi", "build", "send", "atapi wait", "last"}
Waiting == {"ata wait", "atapi wait"}

ReadInv ==
  place \in Reading =>
    /\ read.unit = unit /\ read.count \in 1 .. 2 /\ answer = 0
    /\ place \in {"ata", "ata wait"} => read.by = "ata"

(* A read that began while no drive was at work is the only one that is worked at: its    *)
(* command is not answered, or its sector lies at the port, or the error bit is set.      *)
ReadCommand ==
  [unit |-> unit, kind |-> IF place = "ata wait" THEN "read" ELSE "packet read",
   sector |-> read.sector, left |-> read.count]

AnswerInv ==
  \/ ideXirq = 0 /\ fifo[I!Ch] = None /\ bad[I!Ch] = 0 /\ work[I!Ch] \in {I!NoCommand, ReadCommand}
  \/ fifo[I!Ch] = [unit |-> unit, sector |-> read.sector] /\ bad[I!Ch] = 0
  \/ work[I!Ch] = I!NoCommand /\ bad[I!Ch] = 1

LoneInv ==
  place \in Reading /\ read.calm = 1 =>
    /\ \A c \in (1 .. 2) \ {I!Ch} : work[c] = I!NoCommand
    /\ place \in {"reset", "ata", "atapi", "send"} => work[I!Ch] = I!NoCommand
    /\ place \in {"ata", "atapi", "send"} => ideXirq = 0
    /\ place = "build" => work[I!Ch] = I!NoCommand \/ (fifo[I!Ch] = None /\ work[I!Ch].kind = "packet")
    /\ place = "send" => readCommand = [sector |-> read.sector, count |-> read.count]
    /\ place \in Waiting => AnswerInv
    /\ place = "last" => content = [unit |-> read.unit, sector |-> read.sector]

DriverInv == DriverTypes /\ ReadInv /\ LoneInv /\ I!CalmReadsAreExact

-----------------------------------------------------------------------------
LEMMA Channels == \A u \in I!Units : I!ChannelOf(u) \in 1 .. 2
<1>. TAKE u \in I!Units
<1>1. u \in {1, 2, 3, 4}
  BY DEF I!Units
<1>. QED BY <1>1 DEF I!ChannelOf

LEMMA InitDriver == I!Init => DriverInv
BY
   DEF I!Init, DriverInv, DriverTypes, ReadInv, LoneInv, I!CalmReadsAreExact, Reading, I!NoRead,
       I!Units

LEMMA NextDriverTypes == DriverTypes /\ [I!Next]_I!ideVars => DriverTypes'
<1>. SUFFICES ASSUME DriverTypes, [I!Next]_I!ideVars PROVE DriverTypes'
  OBVIOUS
<1>0. I!Ch \in 1 .. 2 /\ I!Calm \in {0, 1}
  BY Channels DEF DriverTypes, I!Ch, I!Calm
<1>. USE DEF DriverTypes, I!channels, I!request, I!Units
<1>1. CASE I!Identify
  BY <1>0, <1>1 DEF I!Identify, I!Command
<1>2. CASE I!Absent
  BY <1>2 DEF I!Absent, I!NextUnit
<1>3. CASE I!Poll \/ I!Reset
  BY <1>3 DEF I!Poll, I!Reset
<1>4. CASE I!SataFound
  BY <1>4 DEF I!SataFound, I!NextUnit
<1>5. CASE I!AtaFound
  <2>1. /\ unit' = unit /\ ideXirq' = ideXirq
        /\ DOMAIN work' = 1 .. 2 /\ DOMAIN fifo' = 1 .. 2 /\ DOMAIN bad' = 1 .. 2
    BY <1>0, <1>5 DEF I!AtaFound, I!Drained
  <2>2. todo' = <<0>> /\ read' = [by |-> "ata", unit |-> 0, sector |-> 0, count |-> 0, calm |-> 0]
    BY <1>5 DEF I!AtaFound, I!NoRead
  <2>3. <<0>> \in Seq(Nat)
    OBVIOUS
  <2>. QED BY <2>1, <2>2, <2>3
<1>6. CASE I!AtapiFound
  BY <1>0, <1>6 DEF I!AtapiFound, I!Command
<1>7. CASE I!Inquired
  <2>0. unit' \in 1 .. 4 /\ ideXirq' = ideXirq
    BY <1>7 DEF I!Inquired, I!NextUnit
  <2>1. DOMAIN work' = 1 .. 2 /\ DOMAIN fifo' = 1 .. 2 /\ DOMAIN bad' = 1 .. 2
    BY <1>0, <1>7 DEF I!Inquired, I!Drained
  <2>2. todo' \in Seq(Nat)
    <3>1. todo' \in {todo, <<I!DescriptorSector, I!TableSector>>}
      BY <1>7 DEF I!Inquired
    <3>2. <<16, 19>> \in Seq(Nat)
      OBVIOUS
    <3>. QED BY <3>1, <3>2 DEF I!DescriptorSector, I!TableSector
  <2>3. read' \in [by : {"ata", "atapi"}, unit : 0 .. 4, sector : Nat, count : 0 .. 2, calm : {0, 1}]
    BY <1>7 DEF I!Inquired, I!NoRead
  <2>. QED BY <2>0, <2>1, <2>2, <2>3
<1>8. CASE I!StartRead
  BY <1>0, <1>8 DEF I!StartRead, I!Begin
<1>9. CASE I!Started
  BY <1>9 DEF I!Started, I!NextUnit
<1>10. CASE I!AtaCommand
  BY <1>0, <1>10 DEF I!AtaCommand, I!Command
<1>11. CASE I!AtaData
  BY <1>0, <1>11 DEF I!AtaData, I!Drained, I!Return
<1>12. CASE I!AskPacket \/ I!SendPacket
  BY <1>0, <1>12 DEF I!AskPacket, I!SendPacket, I!Command
<1>13. CASE I!BuildPacket
  BY <1>13 DEF I!BuildPacket
<1>14. CASE I!AtapiFails \/ I!LastWait
  <2>1. UNCHANGED <<unit, ideXirq, work, fifo, bad, read>>
    BY <1>14 DEF I!AtapiFails, I!LastWait
  <2>2. todo' \in {todo, <<>>}
    BY <1>14 DEF I!AtapiFails, I!LastWait, I!Return
  <2>3. <<>> \in Seq(Nat)
    OBVIOUS
  <2>. QED BY <2>1, <2>2, <2>3
<1>15. CASE I!AtapiData
  BY <1>0, <1>15 DEF I!AtapiData, I!Drained
<1>16. ASSUME NEW c \in 1 .. 2, I!DriveAnswers(c) PROVE DriverTypes'
  <2>1. DOMAIN work' = 1 .. 2 /\ DOMAIN fifo' = 1 .. 2 /\ DOMAIN bad' = 1 .. 2
    BY <1>16 DEF I!DriveAnswers, I!Answers, I!Offer, I!Refuse
  <2>. QED BY <1>16, <2>1 DEF I!DriveAnswers
<1>17. ASSUME NEW u \in I!Units, NEW n \in {1, 2}, I!LaterRead(u, 1, n) PROVE DriverTypes'
  BY <1>0, <1>17 DEF I!LaterRead, I!Begin
<1>18. CASE UNCHANGED I!ideVars
  BY <1>18 DEF I!ideVars
<1>. QED BY <1>1, <1>2, <1>3, <1>4, <1>5, <1>6, <1>7, <1>8, <1>9, <1>10, <1>11, <1>12, <1>13, <1>14,
            <1>15, <1>16, <1>17, <1>18 DEF I!Next, I!Driver

(* What a drive's answer makes of the read under way. *)
LEMMA AnswerKeeps ==
  ASSUME I!NoneAssumption, DriverInv, NEW c \in 1 .. 2, I!DriveAnswers(c), place \in Reading,
         read.calm = 1
  PROVE  LoneInv'
<1>. USE DEF DriverInv
<1>0. I!Ch \in 1 .. 2 /\ I!Ch' = I!Ch /\ UNCHANGED <<place, unit, I!request>>
  BY Channels DEF DriverTypes, I!Ch, I!ChannelOf, I!DriveAnswers
<1>b. read.count \in 1 .. 2
  BY DEF ReadInv
<1>1. c = I!Ch /\ work[I!Ch] # I!NoCommand /\ fifo[I!Ch] = None
  BY DEF I!DriveAnswers, I!Busy, LoneInv
<1>2. \A d \in (1 .. 2) \ {I!Ch} : work'[d] = work[d]
  BY <1>1 DEF I!DriveAnswers, I!Answers, I!Offer, I!Refuse, DriverTypes
<1>3. place \in {"build", "last"} \cup Waiting
  BY <1>1 DEF LoneInv, Reading, Waiting
<1>4. CASE place = "build"
  <2>1. work'[I!Ch] = I!NoCommand
    BY <1>0, <1>1, <1>4 DEF LoneInv, I!DriveAnswers, I!Answers, DriverTypes
  <2>. QED BY <1>0, <1>2, <1>4, <2>1 DEF LoneInv, Waiting
<1>5. CASE place = "last"
  BY <1>0, <1>2, <1>5 DEF LoneInv, Waiting, I!request
<1>6. CASE place \in Waiting
  <2>1. fifo[I!Ch] # [unit |-> unit, sector |-> read.sector]
    BY <1>1 DEF I!NoneAssumption, DriverTypes, I!Units
  <2>2. work[I!Ch] = ReadCommand /\ bad[I!Ch] = 0
    BY <1>1, <1>6, <2>1 DEF LoneInv, AnswerInv
  <2>3. work[I!Ch].kind \in {"read", "packet read"} /\ work[I!Ch].left > 0
        /\ work[I!Ch].unit = unit /\ work[I!Ch].sector = read.sector
    <3>1. read.count > 0
      BY <1>b
    <3>2. ReadCommand.kind \in {"read", "packet read"} /\ ReadCommand.left = read.count
          /\ ReadCommand.unit = unit /\ ReadCommand.sector = read.sector
      BY Zenon DEF ReadCommand
    <3>. QED BY <2>2, <3>1, <3>2
  <2>4. \/ I!Offer(I!Ch, [unit |-> unit, sector |-> read.sector])
        \/ I!Refuse(I!Ch, signature[I!Ch])
    BY <1>1, <2>3 DEF I!DriveAnswers, I!Answers
  <2>5. AnswerInv'
    <3>1. CASE I!Offer(I!Ch, [unit |-> unit, sector |-> read.sector])
      BY <1>0, <2>2, <3>1 DEF I!Offer, AnswerInv, DriverTypes, I!request
    <3>2. CASE I!Refuse(I!Ch, signature[I!Ch])
      BY <1>0, <3>2 DEF I!Refuse, AnswerInv, DriverTypes
    <3>. QED BY <2>4, <3>1, <3>2
  <2>. QED BY <1>0, <1>2, <1>6, <2>5 DEF LoneInv, Waiting
<1>. QED BY <1>3, <1>4, <1>5, <1>6

LEMMA NextDriver == I!NoneAssumption /\ DriverInv /\ [I!Next]_I!ideVars => DriverInv'
<1>. SUFFICES ASSUME I!NoneAssumption, DriverInv, [I!Next]_I!ideVars
     PROVE  (ReadInv /\ LoneInv /\ I!CalmReadsAreExact)'
  BY NextDriverTypes DEF DriverInv
<1>. DEFINE Goal == ReadInv /\ LoneInv /\ I!CalmReadsAreExact
<1>0. I!Ch \in 1 .. 2 /\ (unit' = unit => I!Ch' = I!Ch) /\ unit \in I!Units
  BY Channels DEF DriverInv, DriverTypes, I!Ch
<1>z. 0 # 1
  OBVIOUS
<1>1. CASE I!Identify \/ I!Absent \/ I!Poll \/ I!SataFound \/ I!AtapiFound \/ I!Started
  <2>1. place' \notin Reading /\ UNCHANGED <<read, answer, content>>
    BY <1>1
       DEF I!Identify, I!Absent, I!Poll, I!SataFound, I!AtapiFound, I!Started, I!NextUnit, Reading,
           I!request
  <2>. QED BY <2>1 DEF DriverInv, ReadInv, LoneInv, I!CalmReadsAreExact
<1>2. CASE I!AtaFound \/ I!Inquired
  <2>1. place' \notin Reading /\ answer' = 0
    BY <1>2 DEF I!AtaFound, I!Inquired, I!NextUnit, Reading
  <2>2. answer' # 1
    BY <1>z, <2>1, Zenon
  <2>3. (ReadInv /\ LoneInv)'
    BY <2>1, Zenon DEF ReadInv, LoneInv
  <2>. QED BY <2>2, <2>3, Zenon DEF I!CalmReadsAreExact
<1>3. ASSUME NEW by \in {"ata", "atapi"}, NEW s \in Nat, NEW n \in 1 .. 2, NEW u \in I!Units,
             unit' = u,
             I!Begin(by, u, s, n), UNCHANGED I!channels
      PROVE  Goal'
  <2>1. /\ read' = [by |-> by, unit |-> u, sector |-> s, count |-> n, calm |-> I!Calm]
        /\ place' = "reset" /\ answer' = 0 /\ work' = work
    BY <1>3 DEF I!Begin, I!channels
  <2>2. I!Ch' \in 1 .. 2
    BY <1>3, Channels DEF I!Ch
  <2>3. I!Calm = 1 => \A c \in 1 .. 2 : work'[c] = I!NoCommand
    BY <2>1 DEF I!Calm
  <2>. QED BY <1>3, <2>1, <2>2, <2>3 DEF ReadInv, LoneInv, I!CalmReadsAreExact, Waiting
<1>4. CASE I!StartRead
  <2>1. Head(todo) \in Nat /\ read.by \in {"ata", "atapi"}
    BY <1>4 DEF I!StartRead, DriverInv, DriverTypes
  <2>. QED BY <1>0, <1>3, <1>4, <2>1 DEF I!StartRead
<1>5. ASSUME NEW u \in I!Units, NEW n \in {1, 2}, I!LaterRead(u, 1, n) PROVE Goal'
  <2>1. kinds[u] \in {"ata", "atapi"}
    BY <1>5 DEF I!LaterRead
  <2>. QED BY <1>3, <1>5, <2>1 DEF I!LaterRead
<1>a. DOMAIN work = 1 .. 2 /\ DOMAIN fifo = 1 .. 2 /\ DOMAIN bad = 1 .. 2
  BY DEF DriverInv, DriverTypes
<1>b. ReadInv /\ LoneInv /\ I!CalmReadsAreExact
  BY DEF DriverInv
<1>c. read.by \in {"ata", "atapi"}
  BY DEF DriverInv, DriverTypes
<1>6. CASE I!Reset
  BY <1>0, <1>a, <1>b, <1>c, <1>6
     DEF I!Reset, ReadInv, LoneInv, I!CalmReadsAreExact, Reading, Waiting, I!request, I!channels
<1>7. CASE I!AtaCommand
  BY <1>0, <1>a, <1>b, <1>7
     DEF I!AtaCommand, I!Command, ReadInv, LoneInv, I!CalmReadsAreExact, Reading, Waiting,
         I!request,
                    AnswerInv, ReadCommand
<1>8. CASE I!AtaData
  <2>1. place' \notin Reading
    BY <1>0, <1>a, <1>b, <1>8 DEF I!AtaData, I!Return, Reading
  <2>2. read.calm = 1 => AnswerInv
    BY <1>0, <1>a, <1>b, <1>8 DEF I!AtaData, LoneInv, Reading, Waiting
  <2>3. read' = read /\ content' = (IF bad[I!Ch] = 1 THEN I!NoData ELSE fifo[I!Ch]) /\ ideXirq = 1
    BY <1>0, <1>a, <1>b, <1>8 DEF I!AtaData
  <2>4. read.by = "ata" /\ read.unit = unit
    BY <1>0, <1>a, <1>b, <1>8 DEF I!AtaData, ReadInv, Reading
  <2>5. read.calm = 1 => content' \in {I!NoData, [unit |-> read.unit, sector |-> read.sector]}
    BY <1>0, <1>a, <1>b, <2>2, <2>3, <2>4 DEF AnswerInv
  <2>. QED BY <1>0, <1>a, <1>b, <2>1, <2>3, <2>4, <2>5 DEF ReadInv, LoneInv, I!CalmReadsAreExact
<1>9. CASE I!AskPacket
  BY <1>0, <1>a, <1>b, <1>9
     DEF I!AskPacket, I!Command, ReadInv, LoneInv, I!CalmReadsAreExact, Reading, Waiting,
         I!request
<1>10. CASE I!BuildPacket
  BY <1>0, <1>a, <1>b, <1>10
     DEF I!BuildPacket, I!Busy, ReadInv, LoneInv, I!CalmReadsAreExact, Reading, Waiting,
         I!channels
<1>11. CASE I!SendPacket
  <2>1. /\ place = "send" /\ place' = "atapi wait" /\ ideXirq' = ideXirq
        /\ UNCHANGED <<unit, read, answer, content>>
        /\ I!Command(I!Ch, unit, "packet read", readCommand.sector, readCommand.count)
    BY <1>0, <1>a, <1>b, <1>11 DEF I!SendPacket, I!request
  <2>2. ReadInv' /\ I!CalmReadsAreExact'
    BY <1>0, <1>a, <1>b, <2>1 DEF ReadInv, I!CalmReadsAreExact, Reading
  <2>3. ASSUME read.calm = 1 PROVE AnswerInv' /\ \A c \in (1 .. 2) \ {I!Ch} : work'[c] = I!NoCommand
    <3>0. ideXirq = 0 /\ readCommand = [sector |-> read.sector, count |-> read.count]
      BY <1>b, <2>1, <2>3 DEF LoneInv, Reading
    <3>1. readCommand.sector = read.sector /\ readCommand.count = read.count
      BY <3>0
    <3>2. /\ fifo'[I!Ch] = None /\ bad'[I!Ch] = 0
          /\ work'[I!Ch] \in {I!NoCommand, [unit |-> unit, kind |-> "packet read", sector |-> read.sector,
                                         left |-> read.count]}
      BY <1>0, <1>a, <1>b, <2>1, <3>1 DEF I!Command
    <3>3. \A c \in (1 .. 2) \ {I!Ch} : work'[c] = work[c]
      BY <1>0, <1>a, <1>b, <2>1 DEF I!Command
    <3>. QED BY <1>0, <1>a, <1>b, <2>1, <2>3, <3>0, <3>2, <3>3
       DEF AnswerInv, ReadCommand, LoneInv, Reading
  <2>. QED BY <1>0, <1>a, <1>b, <2>1, <2>2, <2>3 DEF LoneInv, Waiting
<1>12. CASE I!AtapiFails
  BY <1>0, <1>a, <1>b, <1>12
     DEF I!AtapiFails, I!Return, ReadInv, LoneInv, I!CalmReadsAreExact, Reading
<1>13. CASE I!AtapiData
  <2>1. read.calm = 1 => AnswerInv
    BY <1>0, <1>a, <1>b, <1>13 DEF I!AtapiData, LoneInv, Reading, Waiting
  <2>2. place = "atapi wait" /\ ideXirq = 1 /\ bad[I!Ch] = 0 /\ content' = fifo[I!Ch]
        /\ place' = "last" /\ UNCHANGED <<unit, read, answer>>
    BY <1>0, <1>a, <1>b, <1>13 DEF I!AtapiData
  <2>3. ASSUME read.calm = 1 PROVE fifo[I!Ch] = [unit |-> unit, sector |-> read.sector]
    <3>1. bad[I!Ch] # 1
      BY <1>z, <2>2, Zenon
    <3>2. ideXirq # 0
      BY <1>z, <2>2, Zenon
    <3>. QED BY <2>1, <2>3, <3>1, <3>2, Zenon DEF AnswerInv
  <2>4. \A c \in (1 .. 2) \ {I!Ch} : work'[c] = work[c]
    BY <1>0, <1>a, <1>b, <1>13 DEF I!AtapiData, I!Drained
  <2>5. read.unit = unit /\ read.count \in 1 .. 2 /\ answer = 0
    BY <1>0, <1>a, <1>b, <2>2 DEF ReadInv, Reading
  <2>. QED BY <1>0, <1>a, <1>b, <2>2, <2>3, <2>4, <2>5
     DEF ReadInv, LoneInv, I!CalmReadsAreExact, Reading, Waiting
<1>14. CASE I!LastWait
  BY <1>0, <1>a, <1>b, <1>14
     DEF I!LastWait, I!Return, ReadInv, LoneInv, I!CalmReadsAreExact, Reading
<1>15. ASSUME NEW c \in 1 .. 2, I!DriveAnswers(c) PROVE Goal'
  <2>1. UNCHANGED <<place, unit, read, answer, content>>
    BY <1>15 DEF I!DriveAnswers, I!request
  <2>2. LoneInv'
    BY <1>15, <2>1, AnswerKeeps DEF LoneInv
  <2>. QED BY <1>b, <2>1, <2>2 DEF ReadInv, I!CalmReadsAreExact
<1>16. CASE UNCHANGED I!ideVars
  BY <1>b, <1>16
     DEF I!ideVars, I!channels, I!request, ReadInv, LoneInv, I!CalmReadsAreExact, AnswerInv,
         ReadCommand, I!Ch
<1>. QED BY <1>1, <1>2, <1>4, <1>5, <1>6, <1>7, <1>8, <1>9, <1>10, <1>11, <1>12, <1>13, <1>14, <1>15,
            <1>16 DEF I!Next, I!Driver

(* A read that begins while no drive is at work and succeeds stores the sector that was asked *)
(* for, or what an ATA drive gives after an error: for any drives and any number of reads.    *)
THEOREM CalmReadsCorrect == I!NoneAssumption => (I!Spec => []CalmReadsAreExact)
<1>. SUFFICES ASSUME I!NoneAssumption PROVE I!Spec => []CalmReadsAreExact
  OBVIOUS
<1>1. DriverInv /\ [I!Next]_I!ideVars => DriverInv'
  BY NextDriver
<1>2. DriverInv => CalmReadsAreExact
  BY DEF DriverInv, CalmReadsAreExact
<1>. QED BY <1>1, <1>2, InitDriver, PTL DEF I!Spec

-----------------------------------------------------------------------------
BootTypes ==
  /\ drives \in Machines
  /\ drive \in Nat \ {0} /\ entry \in Nat /\ part \in Nat /\ found \in Nat
  /\ devices \in Seq([drive : Nat, offset : Nat])
  /\ filesystems \in Seq([device : Nat, start : Nat, root : Nat])

(* A drive is registered before it is looked at, and looked at until the next one is.  *)
Walking == {"table", "gpt", "boot"}
WalkInv ==
  /\ \A n \in DOMAIN devices : devices[n].drive \in DOMAIN drives
  /\ stage \in {"stop", "first"} \cup Walking => drive \in DOMAIN drives
  /\ stage \in Walking => devices # <<>> /\ devices[Len(devices)].drive = drive

(* Where the walk is: entries that were not counted are empty; a boot block lies at the   *)
(* start of what is looked at.                                                            *)
PlaceInv ==
  /\ stage = "table" => entry > 0
  /\ stage \in {"table", "gpt"} /\ found = 0 =>
       \A e \in DOMAIN V!Table : e < entry => V!Table[e].type = "empty"
  /\ stage = "gpt" => entry \in DOMAIN V!Table /\ V!Table[entry].type = "gpt" /\ found > 0 /\ part > 0
  /\ stage = "boot" => back \in {"table", "gpt", "scan"}
  /\ stage = "boot" /\ back = "table" =>
       /\ entry \in DOMAIN V!Table /\ V!Table[entry].type = "fat" /\ found > 0
       /\ V!Offset = V!Table[entry].start
  /\ stage = "boot" /\ back = "gpt" =>
       /\ entry \in DOMAIN V!Table /\ V!Table[entry].type = "gpt" /\ found > 0
       /\ part \in DOMAIN V!Drive.gpt /\ V!Drive.gpt[part].data = 1
       /\ V!Offset = V!Drive.gpt[part].start /\ V!BlockAt(V!Drive, V!Offset).name # "other"
  /\ stage = "boot" /\ back = "scan" =>
       V!Offset = 0 /\ \A e \in DOMAIN V!Table : V!Table[e].type = "empty"

(* A volume that was found has its boot block where the walk was. *)
VolumeInv ==
  \A i \in DOMAIN filesystems :
    LET f == filesystems[i]
    IN /\ f.device \in DOMAIN devices
       /\ f.start \in DOMAIN V!DriveOf(f).blocks
       /\ f.root = V!FirstRoot(V!DriveOf(f).blocks[f.start])

(* What the walk has passed on the drive that is looked at. *)
Passed(w) ==
  \/ w[1] < entry
  \/ /\ w[1] = entry
     /\ \/ stage = "gpt" /\ w[2] < part
        \/ stage = "boot" /\ back = "table" /\ w[2] = 0
        \/ stage = "boot" /\ back = "gpt" /\ w[2] <= part
PassedInv ==
  stage \in Walking =>
    \A i \in DOMAIN filesystems :
      filesystems[i].device = Len(devices) =>
        \E v, w \in V!Partitions(V!Drive) :
          /\ Passed(w) /\ V!NotAfter(v, w)
          /\ V!Start(V!Drive, v) = filesystems[i].start
          /\ V!Start(V!Drive, w) = devices[Len(devices)].offset

(* The drive of a letter; A:'s is the least, and none is ahead of the walk.                *)
LetterDrive(k) == devices[filesystems[k].device].drive
Lettered(i) == \E k \in DOMAIN filesystems : LetterDrive(k) = i
LeastInv == \A k \in DOMAIN filesystems : LetterDrive(1) <= LetterDrive(k) /\ LetterDrive(k) <= drive

(* A drive that was passed and has a volume has a letter, unless a transfer failed at it;  *)
CoveredInv ==
  \A i \in DOMAIN drives : i < drive /\ V!HasVolume(drives[i]) => i \in failures \/ Lettered(i)

(* so it is with the partitions that were passed on the drive that is looked at, which has *)
(* none only while no entry was counted.                                                   *)
Done(w) ==
  \/ w[1] < entry
  \/ w[1] = entry /\ (stage = "gpt" \/ (stage = "boot" /\ back = "gpt")) /\ w[2] # 0 /\ w[2] < part
WalkedInv ==
  stage \in Walking =>
    /\ found # 0 => ~V!Whole(V!Drive)
    /\ \A w \in V!Partitions(V!Drive) :
         Done(w) /\ V!IsVolume(V!Drive, w) => drive \in failures \/ Lettered(drive)

CoverInv == LeastInv /\ CoveredInv /\ WalkedInv

BootInv ==
  /\ BootTypes /\ WalkInv /\ PlaceInv /\ VolumeInv /\ PassedInv /\ CoverInv
  /\ V!LettersFollowTheWalk /\ V!StopsForAReason

-----------------------------------------------------------------------------
(* What is known of a drive. *)
LEMMA DriveTypes ==
  ASSUME V!MachinesAssumption, BootTypes, NEW i \in DOMAIN drives
  PROVE  /\ DOMAIN drives = 1 .. Len(drives) /\ Len(drives) \in Nat
         /\ V!TableOf(drives[i]) \in Seq([type : V!Types, start : Nat])
         /\ drives[i].gpt \in Seq([data : {0, 1}, start : Nat])
         /\ \A s \in DOMAIN drives[i].blocks : drives[i].blocks[s] \in V!Blocks
         /\ \A s \in Nat : V!FirstRoot(V!BlockAt(drives[i], s)) \in Nat
<1>1. /\ DOMAIN drives = 1 .. Len(drives) /\ Len(drives) \in Nat
      /\ drives[i].table \in Seq([type : V!Types, start : Nat])
      /\ drives[i].gpt \in Seq([data : {0, 1}, start : Nat])
      /\ \A s \in DOMAIN drives[i].blocks : drives[i].blocks[s] \in V!Blocks
  BY DEF V!MachinesAssumption, BootTypes
<1>2. <<>> \in Seq([type : V!Types, start : Nat])
  OBVIOUS
<1>3. ASSUME NEW s \in Nat PROVE V!FirstRoot(V!BlockAt(drives[i], s)) \in Nat
  <2>1. V!BlockAt(drives[i], s).reserved \in Nat /\ V!BlockAt(drives[i], s).tables \in Nat
        /\ V!BlockAt(drives[i], s).size16 \in Nat
    BY <1>1 DEF V!BlockAt, V!Blank, V!Blocks
  <2>2. \A a, b, c \in Nat : a + b * c \in Nat
    OBVIOUS
  <2>. QED BY <2>1, <2>2 DEF V!FirstRoot
<1>. QED BY <1>1, <1>2, <1>3 DEF V!TableOf

(* A sequence is a function, and its elements. *)
LEMMA SequenceIs ==
  ASSUME NEW S, NEW s \in Seq(S)
  PROVE  Len(s) \in Nat /\ s \in [1 .. Len(s) -> S] /\ DOMAIN s = 1 .. Len(s)
OBVIOUS

LEMMA Elements ==
  ASSUME NEW S, NEW s \in Seq(S), NEW i \in Nat \ {0}, i <= Len(s)
  PROVE  i \in DOMAIN s /\ s[i] \in S
OBVIOUS

LEMMA Looked ==
  ASSUME V!MachinesAssumption, BootTypes, WalkInv, stage \in Walking
  PROVE  /\ drive \in DOMAIN drives
         /\ V!Table \in Seq([type : V!Types, start : Nat])
         /\ V!Drive.gpt \in Seq([data : {0, 1}, start : Nat])
         /\ Len(devices) \in DOMAIN devices /\ devices[Len(devices)].drive = drive
         /\ V!Offset \in Nat
<1>1. drive \in DOMAIN drives /\ devices # <<>> /\ devices[Len(devices)].drive = drive
  BY DEF WalkInv
<1>2. Len(devices) \in DOMAIN devices
  BY <1>1 DEF BootTypes
<1>3. V!Table \in Seq([type : V!Types, start : Nat]) /\ V!Drive.gpt \in Seq([data : {0, 1}, start : Nat])
  BY <1>1, DriveTypes DEF V!Table, V!Drive
<1>4. V!Offset \in Nat
  <2>1. devices \in Seq([drive : Nat, offset : Nat])
    BY DEF BootTypes
  <2>2. devices[Len(devices)] \in [drive : Nat, offset : Nat]
    BY <1>2, <2>1, SequenceIs
  <2>. QED BY <2>2 DEF V!Offset
<1>. QED BY <1>1, <1>2, <1>3, <1>4

(* The offset of the last device is set. *)
LEMMA OffsetIsSet ==
  ASSUME BootTypes, Len(devices) \in DOMAIN devices, NEW n \in Nat, V!SetOffset(n)
  PROVE  /\ devices' \in Seq([drive : Nat, offset : Nat])
         /\ Len(devices') = Len(devices) /\ DOMAIN devices' = DOMAIN devices
         /\ devices'[Len(devices)].offset = n
         /\ \A k \in DOMAIN devices : devices'[k].drive = devices[k].drive
         /\ \A k \in DOMAIN devices : k # Len(devices) => devices'[k] = devices[k]
<1>. DEFINE D == [drive : Nat, offset : Nat]
            m == Len(devices)
            last == [devices[m] EXCEPT !.offset = n]
<1>0. devices \in Seq(D)
  BY DEF BootTypes
<1>1. m \in Nat /\ devices \in [1 .. m -> D] /\ devices[m] \in D
  <2>. HIDE DEF D
  <2>. QED BY <1>0, SequenceIs
<1>2. last \in D /\ last.offset = n /\ last.drive = devices[m].drive
  BY <1>1
<1>3. devices' = [devices EXCEPT ![m] = last]
  BY DEF V!SetOffset
<1>. HIDE DEF D, last, m
<1>4. devices' \in [1 .. m -> D]
  BY <1>1, <1>2, <1>3
<1>5. devices' \in Seq(D) /\ Len(devices') = m
  BY <1>1, <1>4
<1>6. \A k \in DOMAIN devices : k # m => devices'[k] = devices[k]
  BY <1>3
<1>7. devices'[m] = last
  BY <1>3 DEF m
<1>8. DOMAIN devices' = DOMAIN devices
  BY <1>3
<1>. QED BY <1>2, <1>5, <1>6, <1>7, <1>8 DEF m, D

LEMMA InitBoot == V!MachinesAssumption /\ V!Init => BootInv
<1>. SUFFICES ASSUME V!MachinesAssumption, V!Init PROVE BootInv
  OBVIOUS
<1>1. <<>> \in Seq([drive : Nat, offset : Nat]) /\ <<>> \in Seq([device : Nat, start : Nat, root : Nat])
  OBVIOUS
<1>2. DOMAIN devices = {} /\ DOMAIN filesystems = {}
  BY DEF V!Init
<1>3. BootTypes
  BY <1>1 DEF V!Init, BootTypes
<1>4. WalkInv /\ PlaceInv /\ VolumeInv /\ PassedInv /\ V!LettersFollowTheWalk /\ V!StopsForAReason
  BY <1>2
     DEF V!Init, WalkInv, PlaceInv, VolumeInv, PassedInv, V!LettersFollowTheWalk,
         V!StopsForAReason, Walking
<1>5. CoverInv
  <2>1. \A i \in DOMAIN drives : ~(i < 1)
    BY DEF V!MachinesAssumption, V!Init
  <2>. QED BY <1>2, <2>1 DEF V!Init, CoverInv, LeastInv, CoveredInv, WalkedInv, Walking
<1>. QED BY <1>3, <1>4, <1>5 DEF BootInv

LEMMA NextBootTypes ==
  ASSUME V!MachinesAssumption, BootTypes, WalkInv, PlaceInv, [V!Next]_V!volumesVars
  PROVE  BootTypes'
<1>. DEFINE Devices == Seq([drive : Nat, offset : Nat])
            Letters == Seq([device : Nat, start : Nat, root : Nat])
<1>1. ASSUME NEW n \in Nat, V!SetOffset(n), stage \in Walking PROVE devices' \in Devices
  BY <1>1, OffsetIsSet, Looked
<1>2. ASSUME NEW n \in Nat, V!Register(n) PROVE devices' \in Devices
  BY <1>2 DEF V!Register, BootTypes
<1>3. devices \in Devices /\ filesystems \in Letters
  BY DEF BootTypes
<1>4. ASSUME NEW type \in V!Types,
             V!Type(type) PROVE stage \in Walking /\ V!Table[entry].start \in Nat
  <2>1. stage \in Walking /\ entry \in Nat \ {0} /\ entry <= Len(V!Table)
    BY <1>4 DEF V!Type, Walking, PlaceInv, BootTypes
  <2>2. V!Table[entry] \in [type : V!Types, start : Nat]
    BY <2>1, Looked, Elements
  <2>. QED BY <2>1, <2>2
<1>5. CASE V!SkipPort \/ V!StopPort \/ V!StartPort \/ V!LookAtEmpty \/ V!LookAtUnknown \/ V!PartsEnd \/ V!DivideError
           \/ V!EngineStops \/ UNCHANGED V!volumesVars
  BY <1>5
     DEF BootTypes, V!SkipPort, V!StopPort, V!StartPort, V!LookAtEmpty, V!LookAtUnknown,
         V!PartsEnd, V!DivideError,
              V!EngineStops, V!volumesVars, V!NextDrive
<1>6. CASE V!LookAtFat
  <2>1. devices' \in Devices
    BY <1>1, <1>4, <1>6 DEF V!LookAtFat, V!Types
  <2>. QED BY <1>6, <2>1 DEF V!LookAtFat, BootTypes
<1>7. CASE V!TableEnds
  <2>1. devices' \in Devices
    BY <1>1, <1>3, <1>7 DEF V!TableEnds, Walking
  <2>. QED BY <1>7, <2>1 DEF V!TableEnds, BootTypes, V!NextDrive
<1>8. CASE V!BootBlockFails
  BY <1>8 DEF V!BootBlockFails, V!GoOn, BootTypes
<1>9. CASE V!Mount
  <2>1. stage \in Walking
    BY <1>9 DEF V!Mount, Walking
  <2>2. Len(devices) \in Nat /\ V!Offset \in Nat /\ drive \in DOMAIN drives
    BY <2>1, Looked DEF BootTypes
  <2>3. V!FirstRoot(V!BlockAt(V!Drive, V!Offset)) \in Nat
    BY <2>2, DriveTypes DEF V!Drive
  <2>4. filesystems' \in Letters
    BY <1>3, <1>9, <2>2, <2>3 DEF V!Mount
  <2>. QED BY <1>9, <2>4 DEF V!Mount, V!GoOn, BootTypes
<1>10. ASSUME NEW ok \in {0, 1}, V!FirstSector(ok) PROVE BootTypes'
  <2>1. devices' \in Devices
    BY <1>2, <1>3, <1>10 DEF V!FirstSector
  <2>. QED BY <1>10, <2>1 DEF V!FirstSector, BootTypes, V!NextDrive, V!LookAtTable
<1>11. ASSUME NEW ok \in {0, 1}, V!OtherDrive(ok) PROVE BootTypes'
  <2>1. devices' \in Devices
    BY <1>2, <1>3, <1>11 DEF V!OtherDrive
  <2>. QED BY <1>11, <2>1 DEF V!OtherDrive, BootTypes, V!NextDrive, V!LookAtTable
<1>12. ASSUME NEW ok \in {0, 1}, V!LookAtExt(ok) \/ V!LookAtGpt(ok) PROVE BootTypes'
  <2>1. devices' \in Devices
    BY <1>1, <1>4, <1>12 DEF V!LookAtExt, V!LookAtGpt, V!Types
  <2>. QED BY <1>12, <2>1 DEF V!LookAtExt, V!LookAtGpt, BootTypes, V!NextDrive
<1>13. ASSUME NEW ok \in {0, 1}, V!LookAtPart(ok) PROVE BootTypes'
  <2>1. stage \in Walking /\ part \in Nat \ {0} /\ part <= Len(V!Drive.gpt)
    BY <1>13 DEF V!LookAtPart, Walking, PlaceInv, BootTypes
  <2>2. V!Drive.gpt[part] \in [data : {0, 1}, start : Nat]
    BY <2>1, Looked, Elements
  <2>3. V!Drive.gpt[part].start \in Nat
    BY <2>2
  <2>4. devices' \in Devices
    BY <1>1, <1>3, <1>13, <2>1, <2>3 DEF V!LookAtPart
  <2>. QED BY <1>13, <2>4 DEF V!LookAtPart, BootTypes, V!NextDrive
<1>14. ASSUME NEW ok \in {0, 1}, V!LookForKernel(ok) PROVE BootTypes'
  BY <1>14 DEF V!LookForKernel, BootTypes
<1>. QED BY <1>5, <1>6, <1>7, <1>8, <1>9, <1>10, <1>11, <1>12, <1>13, <1>14 DEF V!Next, V!Boot

-----------------------------------------------------------------------------
(* Letters stay what they are when no device and no letter changes, and when another drive is *)
(* registered.                                                                                *)
LEMMA Stays ==
  ASSUME WalkInv, VolumeInv, V!LettersFollowTheWalk, UNCHANGED <<drives, devices, filesystems>>
  PROVE  /\ VolumeInv' /\ V!LettersFollowTheWalk'
         /\ \A n \in DOMAIN devices' : devices'[n].drive \in DOMAIN drives'
BY DEF WalkInv, VolumeInv, V!LettersFollowTheWalk, V!DriveOf

LEMMA Registers ==
  ASSUME BootTypes, WalkInv, VolumeInv, V!LettersFollowTheWalk, NEW n \in Nat, V!Register(n),
         UNCHANGED <<drives, filesystems>>, drive \in DOMAIN drives
  PROVE  /\ VolumeInv' /\ V!LettersFollowTheWalk'
         /\ \A k \in DOMAIN devices' : devices'[k].drive \in DOMAIN drives'
         /\ devices' # <<>> /\ devices'[Len(devices')].drive = drive
         /\ \A i \in DOMAIN filesystems' : filesystems'[i].device # Len(devices')
<1>. DEFINE D == [drive : Nat, offset : Nat]
            new == [drive |-> drive, offset |-> n]
<1>1. devices \in Seq(D) /\ new \in D
  BY DEF BootTypes
<1>2. devices' = Append(devices, new)
  BY DEF V!Register
<1>3. new.drive = drive
  OBVIOUS
<1>. HIDE DEF D, new
<1>4. /\ Len(devices) \in Nat /\ DOMAIN devices = 1 .. Len(devices)
      /\ Len(devices') = Len(devices) + 1 /\ DOMAIN devices' = 1 .. (Len(devices) + 1)
      /\ devices'[Len(devices) + 1] = new
      /\ \A k \in DOMAIN devices : devices'[k] = devices[k]
  BY <1>1, <1>2
<1>5. \A k \in DOMAIN devices' : k \in DOMAIN devices \/ k = Len(devices')
  BY <1>4
<1>6. DOMAIN devices \subseteq DOMAIN devices' /\ Len(devices') \notin DOMAIN devices
  BY <1>4
<1>7. devices'[Len(devices')] = new
  BY <1>4
<1>8. \A k \in DOMAIN devices' : devices'[k].drive \in DOMAIN drives'
  BY <1>3, <1>4, <1>5, <1>7 DEF WalkInv
<1>9. VolumeInv' /\ V!LettersFollowTheWalk'
  BY <1>4, <1>6 DEF VolumeInv, V!LettersFollowTheWalk, V!DriveOf
<1>10. \A i \in DOMAIN filesystems' : filesystems'[i].device # Len(devices')
  BY <1>6 DEF VolumeInv
<1>11. devices' # <<>>
  BY <1>4
<1>. QED BY <1>3, <1>7, <1>8, <1>9, <1>10, <1>11

(* A place of the walk is an entry and a number. *)
LEMMA Positions ==
  ASSUME V!MachinesAssumption, BootTypes, WalkInv, stage \in Walking,
         NEW w \in V!Partitions(V!Drive)
  PROVE  w[1] \in DOMAIN V!Table /\ w[1] \in Nat /\ w[2] \in Nat
<1>1. DOMAIN V!Table = 1 .. Len(V!Table) /\ DOMAIN V!Drive.gpt = 1 .. Len(V!Drive.gpt)
  BY Looked, SequenceIs
<1>2. V!Entries(V!Drive) \subseteq DOMAIN V!Table
  BY DEF V!Entries, V!Table
<1>3. w \in (V!Entries(V!Drive) \X {0}) \cup (V!Entries(V!Drive) \X DOMAIN V!Drive.gpt)
  BY DEF V!Partitions
<1>4. w[1] \in V!Entries(V!Drive) /\ (w[2] = 0 \/ w[2] \in DOMAIN V!Drive.gpt)
  BY <1>3
<1>5. Len(V!Table) \in Nat /\ Len(V!Drive.gpt) \in Nat
  BY Looked, SequenceIs
<1>. QED BY <1>1, <1>2, <1>4, <1>5

(* The offset moves on to a partition that comes after all that was passed. *)
LEMMA Moves ==
  ASSUME V!MachinesAssumption, BootTypes, WalkInv, VolumeInv, PassedInv, V!LettersFollowTheWalk,
         stage \in Walking, NEW w \in V!Partitions(V!Drive), NEW n \in Nat, n = V!Start(V!Drive, w),
         V!SetOffset(n),
         UNCHANGED <<drives, filesystems>>,
         \A u \in V!Partitions(V!Drive) : Passed(u) => V!NotAfter(u, w)
  PROVE  /\ VolumeInv' /\ V!LettersFollowTheWalk'
         /\ \A k \in DOMAIN devices' : devices'[k].drive \in DOMAIN drives'
         /\ devices' # <<>> /\ Len(devices') = Len(devices) /\ devices'[Len(devices')].drive = drive
         /\ devices'[Len(devices')].offset = n
         /\ \A i \in DOMAIN filesystems' :
              filesystems'[i].device = Len(devices') =>
                \E v \in V!Partitions(V!Drive) : V!NotAfter(v, w) /\ V!Start(V!Drive, v) = filesystems'[i].start
<1>1. drive \in DOMAIN drives /\ Len(devices) \in DOMAIN devices /\ devices[Len(devices)].drive = drive
  BY Looked
<1>2. /\ Len(devices') = Len(devices) /\ DOMAIN devices' = DOMAIN devices
      /\ devices'[Len(devices)].offset = n
      /\ \A k \in DOMAIN devices : devices'[k].drive = devices[k].drive
      /\ \A k \in DOMAIN devices : k # Len(devices) => devices'[k] = devices[k]
  BY <1>1, OffsetIsSet
<1>3. \A k \in DOMAIN devices' : devices'[k].drive \in DOMAIN drives'
  BY <1>2 DEF WalkInv
<1>4. ASSUME NEW i \in DOMAIN filesystems, filesystems[i].device = Len(devices)
      PROVE  \E v \in V!Partitions(V!Drive) : V!NotAfter(v, w) /\ V!Start(V!Drive, v) = filesystems[i].start
  <2>1. PICK v \in V!Partitions(V!Drive), u \in V!Partitions(V!Drive) :
          Passed(u) /\ V!NotAfter(v, u) /\ V!Start(V!Drive, v) = filesystems[i].start
    BY <1>4 DEF PassedInv
  <2>2. V!NotAfter(u, w)
    BY <2>1
  <2>3. \A p \in V!Partitions(V!Drive) : p[1] \in Nat /\ p[2] \in Nat
    BY Positions
  <2>4. V!NotAfter(v, w)
    BY <2>1, <2>2, <2>3 DEF V!NotAfter
  <2>. QED BY <2>1, <2>4
<1>5. \A i \in DOMAIN filesystems : V!DriveOf(filesystems[i])' = V!DriveOf(filesystems[i])
  BY <1>2 DEF VolumeInv, V!DriveOf
<1>6. VolumeInv'
  BY <1>2 DEF VolumeInv, V!DriveOf
<1>7. ASSUME NEW i \in DOMAIN filesystems
      PROVE  V!FollowsTheWalk(drives[devices[filesystems[i].device].drive], filesystems[i].start,
                            devices'[filesystems[i].device].offset)
  <2>1. CASE filesystems[i].device # Len(devices)
    BY <1>2, <2>1 DEF VolumeInv, V!LettersFollowTheWalk, V!DriveOf
  <2>2. CASE filesystems[i].device = Len(devices)
    <3>1. PICK v \in V!Partitions(V!Drive) : V!NotAfter(v, w) /\ V!Start(V!Drive, v) = filesystems[i].start
      BY <1>4, <2>2
    <3>2. drives[devices[filesystems[i].device].drive] = V!Drive
      BY <1>1, <2>2 DEF V!Drive
    <3>. QED BY <1>2, <2>2, <3>1, <3>2 DEF V!FollowsTheWalk
  <2>. QED BY <2>1, <2>2
<1>8. V!LettersFollowTheWalk'
  <2>. SUFFICES ASSUME NEW i \in DOMAIN filesystems'
       PROVE  V!FollowsTheWalk(drives'[devices'[filesystems'[i].device].drive], filesystems'[i].start,
                             devices'[filesystems'[i].device].offset)
    BY DEF V!LettersFollowTheWalk, V!DriveOf
  <2>1. i \in DOMAIN filesystems /\ filesystems'[i].device \in DOMAIN devices
    BY DEF VolumeInv
  <2>. QED BY <1>2, <1>7, <2>1
<1>9. devices' # <<>>
  BY <1>1, <1>2
<1>. QED BY <1>1, <1>2, <1>3, <1>4, <1>6, <1>8, <1>9

-----------------------------------------------------------------------------
(* A step of the walk that changes no device and no letter passes no less than before. *)
LEMMA PassedOn ==
  ASSUME PassedInv, UNCHANGED <<drives, drive, devices, filesystems>>, stage \in Walking,
         \A w \in V!Partitions(V!Drive) : Passed(w) => Passed(w)'
  PROVE  PassedInv'
BY DEF PassedInv, V!Drive

LEMMA Advances ==
  ASSUME V!MachinesAssumption, BootTypes, WalkInv, PlaceInv, stage \in Walking,
         \/ entry' = entry + 1
         \/ entry' = entry /\ stage = "table" /\ stage' \in Walking
         \/ entry' = entry /\ stage = "gpt" /\ stage' = "gpt" /\ part' = part + 1
         \/ entry' = entry /\ stage = "boot" /\ back = "gpt" /\ stage' = "gpt" /\ part' = part + 1,
         NEW w \in V!Partitions(V!Drive), Passed(w)
  PROVE  Passed(w)'
<1>1. w[1] \in Nat /\ w[2] \in Nat /\ entry \in Nat /\ part \in Nat
  BY Positions DEF BootTypes
<1>2. w[1] < entry \/ w[1] = entry
  BY DEF Passed
<1>3. CASE entry' = entry + 1
  BY <1>1, <1>2, <1>3 DEF Passed
<1>4. CASE entry' = entry /\ stage = "table"
  BY <1>4 DEF Passed
<1>5. CASE entry' = entry /\ stage' = "gpt" /\ part' = part + 1 /\ (stage = "gpt" \/ (stage = "boot" /\ back = "gpt"))
  BY <1>1, <1>5 DEF Passed
<1>. QED BY <1>3, <1>4, <1>5

(* What is looked at in the table. *)
LEMMA TypeAt ==
  ASSUME V!MachinesAssumption, BootTypes, WalkInv, PlaceInv, NEW type \in {"gpt", "fat", "ext"},
         V!Type(type)
  PROVE  /\ stage = "table" /\ stage \in Walking /\ entry \in DOMAIN V!Table
         /\ V!Table[entry].type = type
         /\ V!Table[entry].start \in Nat
         /\ <<entry, 0>> \in V!Partitions(V!Drive)
         /\ V!Start(V!Drive, <<entry, 0>>) = V!Table[entry].start
         /\ \A u \in V!Partitions(V!Drive) : Passed(u) => V!NotAfter(u, <<entry, 0>>)
<1>1. stage = "table" /\ stage \in Walking /\ entry \in Nat \ {0} /\ entry <= Len(V!Table)
      /\ V!Table[entry].type = type
  BY DEF V!Type, PlaceInv, BootTypes, Walking
<1>2. entry \in DOMAIN V!Table /\ V!Table[entry] \in [type : V!Types, start : Nat]
  BY <1>1, Looked, Elements
<1>3. entry \in V!Entries(V!Drive)
  BY <1>1, <1>2 DEF V!Entries, V!Table
<1>4. <<entry, 0>> \in V!Partitions(V!Drive)
  BY <1>3 DEF V!Partitions
<1>5. ASSUME NEW u \in V!Partitions(V!Drive), Passed(u) PROVE V!NotAfter(u, <<entry, 0>>)
  BY <1>1, <1>5 DEF Passed, V!NotAfter
<1>6. V!Start(V!Drive, <<entry, 0>>) = V!Table[entry].start
  BY DEF V!Start, V!Table
<1>7. V!Table[entry].start \in Nat
  BY <1>2
<1>. QED BY <1>1, <1>2, <1>4, <1>5, <1>6, <1>7

LEMMA PartAt ==
  ASSUME V!MachinesAssumption, BootTypes, WalkInv, PlaceInv, stage = "gpt",
         part <= Len(V!Drive.gpt),
         V!Drive.gpt[part].data = 1
  PROVE  /\ part \in DOMAIN V!Drive.gpt /\ V!Drive.gpt[part].start \in Nat
         /\ <<entry, part>> \in V!Partitions(V!Drive)
         /\ V!Start(V!Drive, <<entry, part>>) = V!Drive.gpt[part].start
         /\ \A u \in V!Partitions(V!Drive) : Passed(u) => V!NotAfter(u, <<entry, part>>)
<1>1. stage \in Walking /\ part \in Nat \ {0} /\ entry \in DOMAIN V!Table /\ V!Table[entry].type = "gpt"
  BY DEF PlaceInv, BootTypes, Walking
<1>2. part \in DOMAIN V!Drive.gpt /\ V!Drive.gpt[part] \in [data : {0, 1}, start : Nat]
  BY <1>1, Looked, Elements
<1>3. <<entry, part>> \in V!Partitions(V!Drive)
  BY <1>1, <1>2 DEF V!Partitions, V!Entries, V!Table
<1>4. ASSUME NEW u \in V!Partitions(V!Drive), Passed(u) PROVE V!NotAfter(u, <<entry, part>>)
  <2>1. u[1] < entry \/ (u[1] = entry /\ u[2] < part)
    BY <1>4 DEF Passed
  <2>2. u[2] \in Nat /\ part \in Nat
    BY <1>1, Positions
  <2>3. u[2] < part => u[2] <= part
    BY <2>2
  <2>. QED BY <2>1, <2>3 DEF V!NotAfter
<1>5. V!Start(V!Drive, <<entry, part>>) = V!Drive.gpt[part].start
  BY <1>1 DEF V!Start
<1>6. V!Drive.gpt[part].start \in Nat
  BY <1>2
<1>. QED BY <1>2, <1>3, <1>4, <1>5, <1>6

(* After a move the walk has passed the partition that it moved to. *)
LEMMA PassedMove ==
  ASSUME NEW w \in V!Partitions(V!Drive), UNCHANGED <<drives, drive, filesystems>>, Passed(w)',
         devices'[Len(devices')].offset = V!Start(V!Drive, w),
         \A i \in DOMAIN filesystems' :
           filesystems'[i].device = Len(devices') =>
             \E v \in V!Partitions(V!Drive) : V!NotAfter(v, w) /\ V!Start(V!Drive, v) = filesystems'[i].start
  PROVE  PassedInv'
BY DEF PassedInv, V!Drive

(* After a boot block the walk goes on behind what was looked at. *)
LEMMA GoesOn ==
  ASSUME BootTypes, PlaceInv, stage = "boot", back \in {"table", "gpt"}, V!GoOn,
         UNCHANGED <<drives, found, devices>>
  PROVE  PlaceInv'
<1>1. found # 0 /\ entry \in Nat /\ part \in Nat /\ entry + 1 > 0 /\ part + 1 > 0
  BY DEF PlaceInv, BootTypes
<1>2. stage' = back /\ drive' = drive
  BY DEF V!GoOn
<1>3. CASE back = "table"
  BY <1>1, <1>2, <1>3 DEF PlaceInv, V!GoOn
<1>4. CASE back = "gpt"
  <2>1. stage' = "gpt" /\ entry' = entry /\ part' = part + 1
    BY <1>2, <1>4 DEF V!GoOn
  <2>2. entry \in DOMAIN V!Table /\ V!Table[entry].type = "gpt" /\ found > 0
    BY <1>4 DEF PlaceInv
  <2>. QED BY <1>1, <1>2, <2>1, <2>2 DEF PlaceInv, V!Table, V!Drive
<1>. QED BY <1>3, <1>4

(* A new letter is for the partition that is looked at, or for the whole drive. *)
LEMMA MountWalk ==
  ASSUME V!MachinesAssumption, BootTypes, WalkInv, PlaceInv, VolumeInv, PassedInv,
         V!LettersFollowTheWalk, V!Mount
  PROVE  (WalkInv /\ PlaceInv /\ VolumeInv /\ PassedInv /\ V!LettersFollowTheWalk)'
<1>. DEFINE new == [device |-> Len(devices), start |-> V!Offset, root |-> V!FirstRoot(V!BlockAt(V!Drive, V!Offset))]
<1>1. /\ stage = "boot" /\ stage \in Walking /\ back \in {"table", "gpt", "scan"} /\ stage' = back
      /\ UNCHANGED <<drives, found, devices>> /\ filesystems' = Append(filesystems, new)
  BY DEF V!Mount, V!GoOn, PlaceInv, Walking
<1>2. /\ drive \in DOMAIN drives /\ Len(devices) \in DOMAIN devices
      /\ devices[Len(devices)].drive = drive
  BY <1>1, Looked
<1>3. new.device = Len(devices) /\ new.start = V!Offset /\ new.root = V!FirstRoot(V!BlockAt(V!Drive, V!Offset))
  OBVIOUS
<1>4. /\ Len(filesystems) \in Nat /\ DOMAIN filesystems = 1 .. Len(filesystems)
      /\ DOMAIN filesystems' = 1 .. (Len(filesystems) + 1)
      /\ filesystems'[Len(filesystems) + 1] = new
      /\ \A i \in DOMAIN filesystems : filesystems'[i] = filesystems[i]
  <2>. HIDE DEF new
  <2>. QED BY <1>1 DEF BootTypes
<1>5. \A i \in DOMAIN filesystems' : (i \in DOMAIN filesystems /\ filesystems'[i] = filesystems[i]) \/ filesystems'[i] = new
  BY <1>4
<1>. HIDE DEF new
<1>6. WalkInv'
  BY <1>1, <1>2 DEF WalkInv, V!GoOn, V!Mount, Walking
<1>7. PlaceInv'
  BY <1>1, GoesOn DEF V!Mount, PlaceInv
<1>8. V!DriveOf(new) = V!Drive
  BY <1>2, <1>3 DEF V!DriveOf, V!Drive
<1>9. VolumeInv'
  <2>1. V!Offset \in DOMAIN V!Drive.blocks /\ V!BlockAt(V!Drive, V!Offset) = V!Drive.blocks[V!Offset]
    BY DEF V!Mount, V!BlockAt, V!Blank
  <2>. QED BY <1>1, <1>2, <1>3, <1>5, <1>8, <2>1 DEF VolumeInv, V!DriveOf
(* The partition that is looked at has been passed when the walk goes on. *)
<1>10. ASSUME back \in {"table", "gpt"}
       PROVE  \E w \in V!Partitions(V!Drive) : Passed(w) /\ V!NotAfter(w, w) /\ V!Start(V!Drive, w) = V!Offset
  <2>1. CASE back = "table"
    <3>1. entry \in DOMAIN V!Table /\ V!Table[entry].type = "fat" /\ V!Offset = V!Table[entry].start
      BY <1>1, <2>1 DEF PlaceInv
    <3>2. <<entry, 0>> \in V!Partitions(V!Drive)
      BY <3>1 DEF V!Partitions, V!Entries, V!Table
    <3>3. Passed(<<entry, 0>>) /\ V!NotAfter(<<entry, 0>>, <<entry, 0>>) /\ V!Start(V!Drive, <<entry, 0>>) = V!Offset
      BY <1>1, <2>1, <3>1 DEF Passed, V!NotAfter, V!Start, V!Table
    <3>. QED BY <3>2, <3>3
  <2>2. CASE back = "gpt"
    <3>1. /\ entry \in DOMAIN V!Table /\ V!Table[entry].type = "gpt" /\ part \in DOMAIN V!Drive.gpt
          /\ V!Drive.gpt[part].data = 1 /\ V!Offset = V!Drive.gpt[part].start
      BY <1>1, <2>2 DEF PlaceInv
    <3>2. <<entry, part>> \in V!Partitions(V!Drive)
      BY <3>1 DEF V!Partitions, V!Entries, V!Table
    <3>3. part # 0 /\ part <= part
      <4>1. DOMAIN V!Drive.gpt = 1 .. Len(V!Drive.gpt) /\ Len(V!Drive.gpt) \in Nat
        BY <1>1, Looked, SequenceIs
      <4>. QED BY <3>1, <4>1
    <3>4. /\ Passed(<<entry, part>>) /\ V!NotAfter(<<entry, part>>, <<entry, part>>)
          /\ V!Start(V!Drive, <<entry, part>>) = V!Offset
      BY <1>1, <2>2, <3>1, <3>3 DEF Passed, V!NotAfter, V!Start
    <3>. QED BY <3>2, <3>4
  <2>. QED BY <1>10, <2>1, <2>2
<1>11. V!FollowsTheWalk(V!Drive, V!Offset, V!Offset)
  <2>1. CASE back \in {"table", "gpt"}
    BY <1>10, <2>1 DEF V!FollowsTheWalk
  <2>2. CASE back = "scan"
    <3>1. V!Offset = 0 /\ \A e \in DOMAIN V!Table : V!Table[e].type = "empty"
      BY <1>1, <2>2 DEF PlaceInv
    <3>2. V!Entries(V!Drive) = {}
      BY <3>1 DEF V!Entries, V!Table
    <3>3. V!Partitions(V!Drive) = {}
      BY <3>2 DEF V!Partitions
    <3>. QED BY <3>1, <3>3 DEF V!FollowsTheWalk
  <2>. QED BY <1>1, <2>1, <2>2
<1>12. V!LettersFollowTheWalk'
  BY <1>1, <1>3, <1>5, <1>8, <1>11 DEF V!LettersFollowTheWalk, V!DriveOf, V!Offset
<1>13. PassedInv'
  <2>1. CASE back = "scan"
    BY <1>1, <2>1 DEF PassedInv, Walking
  <2>2. CASE back \in {"table", "gpt"}
    <3>1. drive' = drive
      BY <2>2 DEF V!Mount, V!GoOn
    <3>2. \A w \in V!Partitions(V!Drive) : Passed(w) => Passed(w)'
      BY <1>1, <2>2, Advances DEF V!Mount, V!GoOn, Walking
    <3>3. ASSUME NEW i \in DOMAIN filesystems', filesystems'[i].device = Len(devices)
          PROVE  \E v, w \in V!Partitions(V!Drive) :
                   /\ Passed(w) /\ V!NotAfter(v, w)
                   /\ V!Start(V!Drive, v) = filesystems'[i].start
                   /\ V!Start(V!Drive, w) = devices[Len(devices)].offset
      <4>1. CASE filesystems'[i] = new
        BY <1>3, <1>10, <2>2, <4>1 DEF V!Offset
      <4>2. CASE i \in DOMAIN filesystems /\ filesystems'[i] = filesystems[i]
        BY <1>1, <3>3, <4>2 DEF PassedInv
      <4>. QED BY <1>5, <4>1, <4>2
    <3>. QED BY <1>1, <3>1, <3>2, <3>3 DEF PassedInv, V!Drive
  <2>. QED BY <1>1, <2>1, <2>2
<1>. QED BY <1>6, <1>7, <1>9, <1>12, <1>13

-----------------------------------------------------------------------------
(* One step per action of the boot. *)
LEMMA NextWalk ==
  ASSUME V!MachinesAssumption, BootInv, [V!Next]_V!volumesVars
  PROVE  (WalkInv /\ PlaceInv /\ VolumeInv /\ PassedInv /\ V!LettersFollowTheWalk)'
<1>. DEFINE Goal == WalkInv /\ PlaceInv /\ VolumeInv /\ PassedInv /\ V!LettersFollowTheWalk
<1>0. BootTypes /\ WalkInv /\ PlaceInv /\ VolumeInv /\ PassedInv /\ V!LettersFollowTheWalk
  BY DEF BootInv
(* The walk is not at a drive. *)
<1>1. ASSUME stage' \notin Walking, UNCHANGED <<drives, devices, filesystems>>,
             stage' \in {"stop", "first"} => drive' \in DOMAIN drives'
      PROVE  Goal'
  BY <1>0, <1>1, Stays DEF WalkInv, PlaceInv, PassedInv, Walking
<1>2. ASSUME stage \in Walking, stage' \in Walking,
             UNCHANGED <<drives, drive, devices, filesystems>>,
             \/ entry' = entry + 1
             \/ entry' = entry /\ stage = "table" /\ stage' \in Walking
             \/ entry' = entry /\ stage = "gpt" /\ stage' = "gpt" /\ part' = part + 1
             \/ entry' = entry /\ stage = "boot" /\ back = "gpt" /\ stage' = "gpt" /\ part' = part + 1
      PROVE  (WalkInv /\ VolumeInv /\ PassedInv /\ V!LettersFollowTheWalk)'
  <2>1. \A w \in V!Partitions(V!Drive) : Passed(w) => Passed(w)'
    BY <1>0, <1>2, Advances
  <2>2. PassedInv'
    BY <1>0, <1>2, <2>1, PassedOn
  <2>. QED BY <1>0, <1>2, <2>2, Stays DEF WalkInv, Walking
<1>3. CASE V!SkipPort
  BY <1>1, <1>3 DEF V!SkipPort, V!NextDrive, Walking
<1>4. CASE V!StopPort
  <2>1. drive \in DOMAIN drives
    BY <1>0, <1>4 DEF V!StopPort, V!MachinesAssumption, BootTypes
  <2>. QED BY <1>1, <1>4, <2>1 DEF V!StopPort, Walking
<1>5. CASE V!StartPort
  BY <1>0, <1>1, <1>5 DEF V!StartPort, Walking, WalkInv
<1>6. CASE V!LookAtUnknown \/ V!DivideError
  BY <1>1, <1>6 DEF V!LookAtUnknown, V!DivideError, Walking
<1>7. CASE V!LookAtEmpty
  <2>1. stage = "table" /\ stage' = "table" /\ entry' = entry + 1 /\ entry \in Nat /\ V!Table[entry].type = "empty"
        /\ UNCHANGED <<drives, drive, devices, filesystems, found>>
    BY <1>0, <1>7 DEF V!LookAtEmpty, V!Type, BootTypes
  <2>2. \A e \in DOMAIN V!Table : e < entry + 1 => e < entry \/ e = entry
    <3>1. DOMAIN V!Table = 1 .. Len(V!Table) /\ Len(V!Table) \in Nat
      BY <1>0, <2>1, Looked, SequenceIs DEF Walking
    <3>. QED BY <2>1, <3>1
  <2>3. PlaceInv'
    BY <1>0, <2>1, <2>2 DEF PlaceInv, V!Table, V!Drive
  <2>. QED BY <1>2, <2>1, <2>3 DEF Walking
<1>8. CASE V!PartsEnd
  <2>1. /\ stage = "gpt" /\ stage' = "table" /\ entry' = entry + 1 /\ found' = found /\ found > 0
        /\ entry \in Nat /\ UNCHANGED <<drives, drive, devices, filesystems>>
    BY <1>0, <1>8 DEF V!PartsEnd, PlaceInv, BootTypes
  <2>2. entry + 1 > 0 /\ found # 0
    BY <1>0, <2>1 DEF BootTypes
  <2>3. PlaceInv'
    BY <2>1, <2>2 DEF PlaceInv
  <2>. QED BY <1>2, <2>1, <2>3 DEF Walking
<1>9. CASE V!TableEnds /\ found # 0
  BY <1>1, <1>9 DEF V!TableEnds, V!NextDrive, Walking
<1>10. CASE V!TableEnds /\ found = 0
  <2>1. stage = "table" /\ entry > Len(V!Table) /\ entry \in Nat /\ stage \in Walking
        /\ stage' = "boot" /\ back' = "scan" /\ V!SetOffset(0)
        /\ UNCHANGED <<drives, drive, filesystems>>
    BY <1>0, <1>10 DEF V!TableEnds, BootTypes, Walking
  <2>2. \A e \in DOMAIN V!Table : V!Table[e].type = "empty"
    <3>1. DOMAIN V!Table = 1 .. Len(V!Table) /\ Len(V!Table) \in Nat
      BY <1>0, <2>1, Looked, SequenceIs
    <3>2. \A e \in DOMAIN V!Table : e < entry
      BY <2>1, <3>1
    <3>. QED BY <1>0, <1>10, <2>1, <3>2 DEF PlaceInv
  <2>3. V!Partitions(V!Drive) = {}
    <3>1. V!Entries(V!Drive) = {}
      BY <2>2 DEF V!Entries, V!Table
    <3>. QED BY <3>1 DEF V!Partitions
  <2>4. \A i \in DOMAIN filesystems : filesystems[i].device # Len(devices)
    BY <1>0, <2>1, <2>3 DEF PassedInv
  <2>5. drive \in DOMAIN drives /\ Len(devices) \in DOMAIN devices /\ devices[Len(devices)].drive = drive
    BY <1>0, <2>1, Looked
  <2>6. /\ Len(devices') = Len(devices) /\ DOMAIN devices' = DOMAIN devices
        /\ devices'[Len(devices)].offset = 0
        /\ \A k \in DOMAIN devices : devices'[k].drive = devices[k].drive
        /\ \A k \in DOMAIN devices : k # Len(devices) => devices'[k] = devices[k]
    BY <1>0, <2>1, <2>5, OffsetIsSet
  <2>7. WalkInv'
    <3>1. devices' # <<>>
      BY <2>5, <2>6
    <3>. QED BY <1>0, <2>1, <2>5, <2>6, <3>1 DEF WalkInv
  <2>8. PlaceInv'
    BY <2>1, <2>2, <2>6 DEF PlaceInv, V!Offset, V!Table, V!Drive
  <2>9. VolumeInv' /\ V!LettersFollowTheWalk'
    BY <1>0, <2>1, <2>4, <2>6 DEF VolumeInv, V!LettersFollowTheWalk, V!DriveOf
  <2>10. PassedInv'
    BY <2>1, <2>4, <2>6 DEF PassedInv
  <2>. QED BY <2>7, <2>8, <2>9, <2>10
<1>11. CASE V!BootBlockFails
  <2>0. stage = "boot" /\ stage \in Walking /\ back \in {"table", "gpt", "scan"}
    BY <1>0, <1>11 DEF V!BootBlockFails, PlaceInv, Walking
  <2>1. CASE back = "scan"
    BY <1>1, <1>11, <2>1 DEF V!BootBlockFails, V!GoOn, Walking
  <2>2. CASE back \in {"table", "gpt"}
    <3>1. (WalkInv /\ VolumeInv /\ PassedInv /\ V!LettersFollowTheWalk)'
      BY <1>2, <1>11, <2>0, <2>2 DEF V!BootBlockFails, V!GoOn, Walking
    <3>2. PlaceInv'
      BY <1>0, <1>11, <2>0, <2>2, GoesOn DEF V!BootBlockFails
    <3>. QED BY <3>1, <3>2
  <2>. QED BY <2>0, <2>1, <2>2
<1>12. CASE V!EngineStops \/ UNCHANGED V!volumesVars
  <2>1. UNCHANGED <<drives, stage, back, drive, entry, part, found, devices, filesystems>>
    BY <1>12 DEF V!EngineStops, V!volumesVars
  <2>. QED BY <1>0, <2>1, Stays
     DEF WalkInv, PlaceInv, PassedInv, V!Table, V!Drive, V!Offset, Passed
(* A drive is registered, and looked at if it could be read. *)
<1>13. ASSUME NEW n \in Nat, V!Register(n), UNCHANGED <<drives, filesystems>>,
              drive \in DOMAIN drives,
              \/ stage' = "scan"
              \/ stage' = "table" /\ drive' = drive /\ entry' = 1 /\ found' = 0
       PROVE  Goal'
  <2>1. /\ VolumeInv' /\ V!LettersFollowTheWalk'
        /\ \A k \in DOMAIN devices' : devices'[k].drive \in DOMAIN drives'
        /\ devices' # <<>> /\ devices'[Len(devices')].drive = drive
        /\ \A i \in DOMAIN filesystems' : filesystems'[i].device # Len(devices')
    BY <1>0, <1>13, Registers
  <2>2. WalkInv'
    BY <1>13, <2>1 DEF WalkInv, Walking
  <2>3. PassedInv'
    BY <2>1 DEF PassedInv
  <2>4. PlaceInv'
    <3>1. CASE stage' = "scan"
      BY <3>1 DEF PlaceInv
    <3>2. CASE stage' = "table" /\ drive' = drive /\ entry' = 1 /\ found' = 0
      <4>1. DOMAIN V!Table = 1 .. Len(V!Table) /\ Len(V!Table) \in Nat
        BY <1>0, <1>13, DriveTypes, SequenceIs DEF V!Table, V!Drive
      <4>2. \A e \in DOMAIN V!Table : ~(e < 1)
        BY <4>1
      <4>3. V!Table' = V!Table
        BY <1>13, <3>2 DEF V!Table, V!Drive
      <4>. QED BY <3>2, <4>2, <4>3 DEF PlaceInv
    <3>. QED BY <1>13, <3>1, <3>2
  <2>. QED BY <2>1, <2>2, <2>3, <2>4
<1>14. ASSUME NEW ok \in {0, 1}, V!FirstSector(ok) PROVE Goal'
  <2>1. drive \in DOMAIN drives
    BY <1>0, <1>14 DEF V!FirstSector, WalkInv
  <2>2. CASE ok = 1
    BY <1>13, <1>14, <2>1, <2>2 DEF V!FirstSector, V!LookAtTable
  <2>3. CASE ok = 0
    BY <1>1, <1>14, <2>3 DEF V!FirstSector, V!NextDrive, Walking
  <2>. QED BY <2>2, <2>3
<1>15. ASSUME NEW ok \in {0, 1}, V!OtherDrive(ok) PROVE Goal'
  <2>1. drive \in DOMAIN drives
    BY <1>0, <1>15 DEF V!OtherDrive, V!MachinesAssumption, BootTypes
  <2>. QED BY <1>13, <1>15, <2>1 DEF V!OtherDrive, V!LookAtTable, V!NextDrive
(* The offset moves to the partition that the walk has come to. *)
<1>16. ASSUME NEW w \in V!Partitions(V!Drive), stage \in Walking, NEW n \in Nat,
              n = V!Start(V!Drive, w), V!SetOffset(n),
              UNCHANGED <<drives, filesystems>>,
              \A u \in V!Partitions(V!Drive) : Passed(u) => V!NotAfter(u, w),
              \/ stage' = "scan"
              \/ drive' = drive /\ stage' \in Walking /\ Passed(w)'
       PROVE  /\ (WalkInv /\ VolumeInv /\ PassedInv /\ V!LettersFollowTheWalk)'
              /\ drive' = drive => V!Offset' = n
  <2>1. /\ VolumeInv' /\ V!LettersFollowTheWalk'
        /\ \A k \in DOMAIN devices' : devices'[k].drive \in DOMAIN drives'
        /\ devices' # <<>> /\ Len(devices') = Len(devices) /\ devices'[Len(devices')].drive = drive
        /\ devices'[Len(devices')].offset = n
        /\ \A i \in DOMAIN filesystems' :
             filesystems'[i].device = Len(devices') =>
               \E v \in V!Partitions(V!Drive) : V!NotAfter(v, w) /\ V!Start(V!Drive, v) = filesystems'[i].start
    BY <1>0, <1>16, Moves
  <2>2. WalkInv'
    BY <1>0, <1>16, <2>1, Looked DEF WalkInv, Walking
  <2>3. PassedInv'
    <3>1. CASE stage' = "scan"
      BY <3>1 DEF PassedInv, Walking
    <3>2. CASE drive' = drive /\ Passed(w)'
      BY <1>16, <2>1, <3>2, PassedMove
    <3>. QED BY <1>16, <3>1, <3>2
  <2>. QED BY <2>1, <2>2, <2>3 DEF V!Offset
<1>17. CASE V!LookAtFat
  <2>1. V!Type("fat")
    BY <1>17 DEF V!LookAtFat
  <2>2. /\ stage = "table" /\ stage \in Walking /\ entry \in DOMAIN V!Table
        /\ V!Table[entry].type = "fat"
        /\ V!Table[entry].start \in Nat
        /\ <<entry, 0>> \in V!Partitions(V!Drive)
        /\ V!Start(V!Drive, <<entry, 0>>) = V!Table[entry].start
        /\ \A u \in V!Partitions(V!Drive) : Passed(u) => V!NotAfter(u, <<entry, 0>>)
    BY <1>0, <2>1, TypeAt
  <2>3. /\ stage' = "boot" /\ back' = "table" /\ V!SetOffset(V!Table[entry].start)
        /\ found' = found + 1
        /\ UNCHANGED <<drives, drive, entry, filesystems>>
    BY <1>17 DEF V!LookAtFat
  <2>4. Passed(<<entry, 0>>)'
    BY <2>3 DEF Passed
  <2>5. /\ (WalkInv /\ VolumeInv /\ PassedInv /\ V!LettersFollowTheWalk)'
        /\ V!Offset' = V!Table[entry].start
    BY <1>16, <2>2, <2>3, <2>4 DEF Walking
  <2>6. found' > 0
    BY <1>0, <2>3 DEF BootTypes
  <2>7. PlaceInv'
    BY <2>2, <2>3, <2>5, <2>6 DEF PlaceInv, V!Table, V!Drive
  <2>. QED BY <2>5, <2>7
<1>18. ASSUME NEW ok \in {0, 1}, V!LookAtExt(ok) PROVE Goal'
  <2>1. V!Type("ext")
    BY <1>18 DEF V!LookAtExt
  <2>2. /\ stage = "table" /\ stage \in Walking /\ entry \in DOMAIN V!Table
        /\ V!Table[entry].start \in Nat
        /\ <<entry, 0>> \in V!Partitions(V!Drive)
        /\ V!Start(V!Drive, <<entry, 0>>) = V!Table[entry].start
        /\ \A u \in V!Partitions(V!Drive) : Passed(u) => V!NotAfter(u, <<entry, 0>>)
    BY <1>0, <2>1, TypeAt
  <2>3. /\ stage' = stage /\ V!SetOffset(V!Table[entry].start) /\ found' = found + 1
        /\ entry' = entry + 1
        /\ UNCHANGED <<drives, drive, filesystems>>
    BY <1>18 DEF V!LookAtExt
  <2>. PICK w \in V!Partitions(V!Drive) : w = <<entry, 0>>
    BY <2>2
  <2>4. Passed(w)'
    <3>1. w[1] = entry /\ entry < entry + 1
      BY <1>0 DEF BootTypes
    <3>. QED BY <2>3, <3>1 DEF Passed
  <2>5. (WalkInv /\ VolumeInv /\ PassedInv /\ V!LettersFollowTheWalk)'
    BY <1>16, <2>2, <2>3, <2>4 DEF Walking
  <2>6. found' # 0 /\ entry' > 0
    BY <1>0, <2>3 DEF BootTypes
  <2>7. PlaceInv'
    BY <2>2, <2>3, <2>6 DEF PlaceInv
  <2>. QED BY <2>5, <2>7
<1>19. ASSUME NEW ok \in {0, 1}, V!LookAtGpt(ok) PROVE Goal'
  <2>1. V!Type("gpt")
    BY <1>19 DEF V!LookAtGpt
  <2>2. /\ stage = "table" /\ stage \in Walking /\ entry \in DOMAIN V!Table
        /\ V!Table[entry].type = "gpt"
        /\ V!Table[entry].start \in Nat
        /\ <<entry, 0>> \in V!Partitions(V!Drive)
        /\ V!Start(V!Drive, <<entry, 0>>) = V!Table[entry].start
        /\ \A u \in V!Partitions(V!Drive) : Passed(u) => V!NotAfter(u, <<entry, 0>>)
    BY <1>0, <2>1, TypeAt
  <2>3. /\ V!SetOffset(V!Table[entry].start) /\ found' = found + 1
        /\ UNCHANGED <<drives, entry, filesystems>>
        /\ (stage' = "gpt" /\ part' = 1 /\ drive' = drive) \/ stage' = "scan"
    BY <1>19 DEF V!LookAtGpt, V!NextDrive
  <2>4. stage' = "gpt" /\ part' = 1 => Passed(<<entry, 0>>)'
    BY <2>3 DEF Passed
  <2>5. (WalkInv /\ VolumeInv /\ PassedInv /\ V!LettersFollowTheWalk)'
    BY <1>16, <2>2, <2>3, <2>4 DEF Walking
  <2>6. found' > 0 /\ found' # 0
    BY <1>0, <2>3 DEF BootTypes
  <2>7. PlaceInv'
    <3>1. CASE stage' = "scan"
      BY <3>1 DEF PlaceInv
    <3>2. CASE stage' = "gpt" /\ part' = 1 /\ drive' = drive
      <4>1. V!Table' = V!Table
        BY <2>3, <3>2 DEF V!Table, V!Drive
      <4>2. part' > 0
        BY <3>2
      <4>. QED BY <2>2, <2>3, <2>6, <3>2, <4>1, <4>2 DEF PlaceInv
    <3>. QED BY <2>3, <3>1, <3>2
  <2>. QED BY <2>5, <2>7
<1>20. ASSUME NEW ok \in {0, 1}, V!LookAtPart(ok) PROVE Goal'
  <2>1. /\ stage = "gpt" /\ stage \in Walking /\ part <= Len(V!Drive.gpt) /\ part \in Nat
        /\ part > 0
        /\ entry \in DOMAIN V!Table /\ V!Table[entry].type = "gpt" /\ found > 0 /\ found # 0
        /\ UNCHANGED <<drives, entry, found, filesystems>>
    BY <1>0, <1>20 DEF V!LookAtPart, PlaceInv, BootTypes, Walking
  <2>2. CASE V!Drive.gpt[part].data = 0
    <3>1. stage' = "gpt" /\ part' = part + 1 /\ UNCHANGED <<drive, devices>>
      BY <1>20, <2>1, <2>2 DEF V!LookAtPart
    <3>2. (WalkInv /\ VolumeInv /\ PassedInv /\ V!LettersFollowTheWalk)'
      BY <1>2, <2>1, <3>1 DEF Walking
    <3>3. part' > 0
      BY <2>1, <3>1
    <3>4. PlaceInv'
      BY <2>1, <3>1, <3>3 DEF PlaceInv, V!Table, V!Drive
    <3>. QED BY <3>2, <3>4
  <2>3. CASE V!Drive.gpt[part].data # 0
    <3>1. V!Drive.gpt[part].data = 1
      <4>0. V!Drive.gpt \in Seq([data : {0, 1}, start : Nat]) /\ part \in Nat \ {0}
        BY <1>0, <2>1, Looked
      <4>1. V!Drive.gpt[part] \in [data : {0, 1}, start : Nat]
        BY <2>1, <4>0, Elements
      <4>. QED BY <2>3, <4>1
    <3>2. /\ part \in DOMAIN V!Drive.gpt /\ V!Drive.gpt[part].start \in Nat
          /\ <<entry, part>> \in V!Partitions(V!Drive)
          /\ V!Start(V!Drive, <<entry, part>>) = V!Drive.gpt[part].start
          /\ \A u \in V!Partitions(V!Drive) : Passed(u) => V!NotAfter(u, <<entry, part>>)
      BY <1>0, <2>1, <3>1, PartAt
    <3>3. /\ V!SetOffset(V!Drive.gpt[part].start)
          /\ \/ stage' = "scan"
             \/ /\ stage' = "boot" /\ back' = "gpt" /\ UNCHANGED <<part, drive>>
                /\ V!BlockAt(V!Drive, V!Drive.gpt[part].start).name # "other"
             \/ stage' = "gpt" /\ part' = part + 1 /\ drive' = drive
      BY <1>20, <2>1, <2>3 DEF V!LookAtPart, V!NextDrive
    <3>. PICK w \in V!Partitions(V!Drive) : w = <<entry, part>>
      BY <3>2
    <3>4. stage' = "scan" \/ (drive' = drive /\ stage' \in Walking /\ Passed(w)')
      <4>1. w[1] = entry /\ w[2] = part /\ part <= part /\ part < part + 1
        BY <2>1
      <4>. QED BY <2>1, <3>3, <4>1 DEF Passed, Walking
    <3>5. /\ (WalkInv /\ VolumeInv /\ PassedInv /\ V!LettersFollowTheWalk)'
          /\ drive' = drive => V!Offset' = V!Drive.gpt[part].start
      BY <1>16, <2>1, <3>2, <3>3, <3>4
    <3>6. PlaceInv'
      <4>1. CASE stage' = "scan"
        BY <4>1 DEF PlaceInv
      <4>2. CASE stage' = "gpt" /\ part' = part + 1 /\ drive' = drive
        <5>1. part' > 0 /\ V!Table' = V!Table
          BY <2>1, <4>2 DEF V!Table, V!Drive
        <5>. QED BY <2>1, <4>2, <5>1 DEF PlaceInv
      <4>3. CASE /\ stage' = "boot" /\ back' = "gpt" /\ UNCHANGED <<part, drive>>
                 /\ V!BlockAt(V!Drive, V!Drive.gpt[part].start).name # "other"
        <5>1. V!Table' = V!Table /\ V!Drive' = V!Drive
          BY <2>1, <4>3 DEF V!Table, V!Drive
        <5>2. V!BlockAt(V!Drive', V!Offset').name # "other"
          BY <3>5, <4>3, <5>1
        <5>. QED BY <2>1, <3>1, <3>2, <3>5, <4>3, <5>1, <5>2 DEF PlaceInv
      <4>. QED BY <3>3, <4>1, <4>2, <4>3
    <3>. QED BY <3>5, <3>6
  <2>. QED BY <2>2, <2>3
<1>21. ASSUME NEW ok \in {0, 1}, V!LookForKernel(ok) PROVE Goal'
  BY <1>1, <1>21 DEF V!LookForKernel, Walking
<1>22. CASE V!Mount
  BY <1>0, <1>22, MountWalk DEF BootInv
<1>. QED BY <1>3, <1>4, <1>5, <1>6, <1>7, <1>8, <1>9, <1>10, <1>11, <1>12, <1>14, <1>15, <1>17, <1>18,
            <1>19, <1>20, <1>21, <1>22 DEF V!Next, V!Boot

-----------------------------------------------------------------------------
(* The letters keep their drives, and what failed has failed. *)
Keeps ==
  /\ UNCHANGED <<drives, filesystems>> /\ failures \subseteq failures'
  /\ \A k \in DOMAIN filesystems : LetterDrive(k)' = LetterDrive(k)

LEMMA KeepsDevices ==
  ASSUME UNCHANGED <<drives, devices, filesystems>>, failures \subseteq failures'
  PROVE  Keeps
BY DEF Keeps, LetterDrive

LEMMA KeepsMoved ==
  ASSUME V!MachinesAssumption, BootTypes, WalkInv, VolumeInv, stage \in Walking, NEW n \in Nat,
         V!SetOffset(n), UNCHANGED <<drives, filesystems>>, failures \subseteq failures'
  PROVE  Keeps
<1>1. \A k \in DOMAIN devices : devices'[k].drive = devices[k].drive
  BY Looked, OffsetIsSet
<1>. QED BY <1>1 DEF Keeps, LetterDrive, VolumeInv

LEMMA KeepsRegistered ==
  ASSUME BootTypes, VolumeInv, NEW n \in Nat, V!Register(n),
         UNCHANGED <<drives, filesystems>>, failures \subseteq failures'
  PROVE  Keeps
<1>. DEFINE D == [drive : Nat, offset : Nat]
            new == [drive |-> drive, offset |-> n]
<1>1. devices \in Seq(D) /\ new \in D /\ devices' = Append(devices, new)
  BY DEF BootTypes, V!Register
<1>. HIDE DEF D, new
<1>2. \A k \in DOMAIN devices : devices'[k] = devices[k]
  BY <1>1
<1>. QED BY <1>2 DEF Keeps, LetterDrive, VolumeInv

LEMMA OkKeeps ==
  ASSUME NEW ok, V!Ok(ok)
  PROVE  failures \subseteq failures' /\ (ok # 1 => drive \in failures')
BY DEF V!Ok

(* A step within a drive passes no volume that was not passed before. *)
LEMMA CoverStays ==
  ASSUME BootTypes, CoverInv, Keeps, drive' = drive,
         stage' \in Walking =>
           /\ found' # 0 => ~V!Whole(V!Drive)
           /\ \A w \in V!Partitions(V!Drive) :
                Done(w)' /\ V!IsVolume(V!Drive, w) => drive \in failures' \/ (stage \in Walking /\ Done(w))
  PROVE  CoverInv'
<1>1. \A i : Lettered(i) => Lettered(i)'
  BY DEF Keeps, Lettered
<1>2. LeastInv'
  <2>1. \A k \in DOMAIN filesystems : 1 \in DOMAIN filesystems
    BY DEF BootTypes
  <2>. QED BY <2>1 DEF CoverInv, Keeps, LeastInv
<1>3. CoveredInv'
  BY <1>1 DEF CoverInv, Keeps, CoveredInv
<1>4. V!Drive' = V!Drive
  BY DEF Keeps, V!Drive
<1>5. WalkedInv'
  BY <1>1, <1>4 DEF CoverInv, Keeps, WalkedInv
<1>. QED BY <1>2, <1>3, <1>5 DEF CoverInv

(* A drive that is left has lost a volume to a failure, or has none, or a letter. *)
LEMMA CoverAdvances ==
  ASSUME V!MachinesAssumption, BootTypes, WalkInv, VolumeInv, CoverInv, Keeps, drive \in DOMAIN drives,
         drive' = drive + 1, stage' = "scan",
         drive \in failures' \/ ~V!HasVolume(V!Drive) \/ Lettered(drive)
  PROVE  CoverInv'
<1>1. \A i : Lettered(i) => Lettered(i)'
  BY DEF Keeps, Lettered
<1>2. DOMAIN drives = 1 .. Len(drives) /\ Len(drives) \in Nat /\ drive \in Nat
  BY DriveTypes DEF BootTypes
<1>3. \A k \in DOMAIN filesystems : LetterDrive(k) \in Nat
  BY <1>2 DEF LetterDrive, VolumeInv, WalkInv
<1>4. LeastInv'
  <2>. SUFFICES ASSUME NEW k \in DOMAIN filesystems'
       PROVE  LetterDrive(1)' <= LetterDrive(k)' /\ LetterDrive(k)' <= drive'
    BY DEF LeastInv
  <2>1. k \in DOMAIN filesystems /\ 1 \in DOMAIN filesystems
    BY DEF Keeps, BootTypes
  <2>2. LetterDrive(1)' = LetterDrive(1) /\ LetterDrive(k)' = LetterDrive(k)
    BY <2>1 DEF Keeps
  <2>. QED BY <1>2, <1>3, <2>1, <2>2 DEF CoverInv, LeastInv
<1>5. CoveredInv'
  <2>. SUFFICES ASSUME NEW i \in DOMAIN drives, i < drive + 1, V!HasVolume(drives[i])
       PROVE  i \in failures' \/ Lettered(i)'
    BY DEF CoveredInv, Keeps
  <2>1. i < drive \/ i = drive
    BY <1>2
  <2>. QED BY <1>1, <2>1 DEF CoverInv, CoveredInv, Keeps, V!Drive
<1>6. WalkedInv'
  BY DEF WalkedInv, Walking
<1>. QED BY <1>4, <1>5, <1>6 DEF CoverInv

(* What a place of the walk says of the entry and the partition. *)
LEMMA PartitionIs ==
  ASSUME V!MachinesAssumption, BootTypes, WalkInv, stage \in Walking,
         NEW w \in V!Partitions(V!Drive), V!IsVolume(V!Drive, w)
  PROVE  /\ w[1] \in Nat /\ w[2] \in Nat /\ w[1] \in DOMAIN V!Table
         /\ w[2] = 0 => V!Table[w[1]].type = "fat"
         /\ w[2] # 0 => /\ V!Table[w[1]].type = "gpt"
                        /\ w[2] \in DOMAIN V!Drive.gpt /\ V!Drive.gpt[w[2]].data = 1
                        /\ V!BlockAt(V!Drive, V!Drive.gpt[w[2]].start).name # "other"
<1>1. w[1] \in DOMAIN V!Table /\ w[1] \in Nat /\ w[2] \in Nat
  BY Positions
<1>2. w[2] = 0 => V!Table[w[1]].type = "fat"
  BY DEF V!IsVolume, V!Table
<1>3. ASSUME w[2] # 0
      PROVE  V!Table[w[1]].type = "gpt" /\ w[2] \in DOMAIN V!Drive.gpt /\ V!Drive.gpt[w[2]].data = 1
  BY <1>3 DEF V!Partitions, V!Table
<1>4. w[2] # 0 => V!BlockAt(V!Drive, V!Drive.gpt[w[2]].start).name # "other"
  BY DEF V!IsVolume, V!Start
<1>. QED BY <1>1, <1>2, <1>3, <1>4

(* A letter is given to the drive that is looked at. *)
LEMMA CoverMounts ==
  ASSUME V!MachinesAssumption, BootTypes, WalkInv, PlaceInv, VolumeInv, CoverInv, V!Mount
  PROVE  CoverInv'
<1>. DEFINE new == [device |-> Len(devices), start |-> V!Offset,
                    root |-> V!FirstRoot(V!BlockAt(V!Drive, V!Offset))]
<1>1. /\ stage = "boot" /\ stage \in Walking /\ back \in {"table", "gpt", "scan"} /\ stage' = back
      /\ UNCHANGED <<drives, devices, found, failures>> /\ filesystems' = Append(filesystems, new)
      /\ drive' = IF back = "scan" THEN drive + 1 ELSE drive
  BY DEF V!Mount, V!GoOn, PlaceInv, Walking
<1>2. /\ drive \in DOMAIN drives /\ devices[Len(devices)].drive = drive
      /\ DOMAIN drives = 1 .. Len(drives) /\ Len(drives) \in Nat /\ drive \in Nat
  BY <1>1, Looked, DriveTypes DEF BootTypes
<1>3. new.device = Len(devices)
  OBVIOUS
<1>4. /\ Len(filesystems) \in Nat /\ DOMAIN filesystems = 1 .. Len(filesystems)
      /\ DOMAIN filesystems' = 1 .. (Len(filesystems) + 1)
      /\ filesystems'[Len(filesystems) + 1] = new
      /\ \A i \in DOMAIN filesystems : filesystems'[i] = filesystems[i]
  <2>. HIDE DEF new
  <2>. QED BY <1>1 DEF BootTypes
<1>. HIDE DEF new
<1>. PICK last \in Nat : last = Len(filesystems) + 1
  BY <1>4
<1>5. /\ last \in DOMAIN filesystems' /\ filesystems'[last] = new
      /\ \A k \in DOMAIN filesystems' : k \in DOMAIN filesystems \/ k = last
      /\ 1 \in DOMAIN filesystems \/ last = 1
  BY <1>4
<1>6. LetterDrive(last)' = drive /\ \A k \in DOMAIN filesystems : LetterDrive(k)' = LetterDrive(k)
  BY <1>1, <1>2, <1>3, <1>4, <1>5 DEF LetterDrive
<1>7. \A i : Lettered(i) => Lettered(i)'
  <2>1. DOMAIN filesystems \subseteq DOMAIN filesystems'
    BY <1>4
  <2>. QED BY <1>6, <2>1 DEF Lettered
<1>. PICK d \in Nat : d = drive
  BY <1>2
<1>8. Lettered(d)'
  BY <1>5, <1>6 DEF Lettered
<1>9. \A k \in DOMAIN filesystems : LetterDrive(k) \in Nat
  BY <1>2 DEF LetterDrive, VolumeInv, WalkInv
<1>10. LeastInv'
  <2>. SUFFICES ASSUME NEW k \in DOMAIN filesystems'
       PROVE  LetterDrive(1)' <= LetterDrive(k)' /\ LetterDrive(k)' <= drive'
    BY DEF LeastInv
  <2>1. drive <= drive' /\ drive' \in Nat
    BY <1>1, <1>2
  <2>2. CASE k \in DOMAIN filesystems
    <3>1. 1 \in DOMAIN filesystems /\ LetterDrive(1)' = LetterDrive(1) /\ LetterDrive(k)' = LetterDrive(k)
      BY <1>4, <1>6, <2>2
    <3>. QED BY <1>2, <1>9, <2>1, <2>2, <3>1 DEF CoverInv, LeastInv
  <2>3. CASE k = last
    <3>1. CASE 1 \in DOMAIN filesystems
      <4>1. LetterDrive(1)' = LetterDrive(1) /\ LetterDrive(1) <= drive
        BY <1>6, <3>1 DEF CoverInv, LeastInv
      <4>. QED BY <1>6, <2>1, <2>3, <4>1
    <3>2. CASE last = 1
      BY <1>2, <1>6, <2>1, <2>3, <3>2
    <3>. QED BY <1>5, <3>1, <3>2
  <2>. QED BY <1>5, <2>2, <2>3
<1>11. CoveredInv'
  <2>. SUFFICES ASSUME NEW i \in DOMAIN drives, i < drive', V!HasVolume(drives[i])
       PROVE  i \in failures' \/ Lettered(i)'
    BY <1>1 DEF CoveredInv
  <2>1. i < drive \/ i = drive
    BY <1>1, <1>2
  <2>2. failures' = failures
    BY <1>1
  <2>3. CASE i < drive
    <3>1. i \in failures \/ Lettered(i)
      BY <2>3 DEF CoverInv, CoveredInv
    <3>. QED BY <1>7, <2>2, <3>1
  <2>. QED BY <1>8, <2>1, <2>3
<1>12. WalkedInv'
  <2>. SUFFICES ASSUME stage' \in Walking PROVE WalkedInv'
    BY DEF WalkedInv
  <2>1. drive' = drive /\ V!Drive' = V!Drive
    BY <1>1 DEF V!Drive, Walking
  <2>. QED BY <1>1, <1>8, <2>1 DEF CoverInv, WalkedInv
<1>. QED BY <1>10, <1>11, <1>12 DEF CoverInv

-----------------------------------------------------------------------------
(* One step per action: what is passed has a letter, has none to give, or failed. *)
LEMMA NextCover ==
  ASSUME V!MachinesAssumption, BootInv, [V!Next]_V!volumesVars
  PROVE  CoverInv'
<1>0. BootTypes /\ WalkInv /\ PlaceInv /\ VolumeInv /\ CoverInv
  BY DEF BootInv
<1>. DEFINE Position ==
       \A w \in V!Partitions(V!Drive) : V!IsVolume(V!Drive, w) =>
         /\ w[1] \in Nat /\ w[2] \in Nat /\ w[1] \in DOMAIN V!Table
         /\ w[2] = 0 => V!Table[w[1]].type = "fat"
         /\ w[2] # 0 => /\ V!Table[w[1]].type = "gpt"
                        /\ w[2] \in DOMAIN V!Drive.gpt /\ V!Drive.gpt[w[2]].data = 1
                        /\ V!BlockAt(V!Drive, V!Drive.gpt[w[2]].start).name # "other"
<1>1. stage \in Walking => Position
  BY <1>0, PartitionIs
<1>. HIDE DEF Position
<1>2. entry \in Nat /\ part \in Nat /\ found \in Nat /\ drive \in Nat
  BY <1>0 DEF BootTypes
(* The walk is not at a drive. *)
<1>3. ASSUME Keeps, drive' = drive, stage' \notin Walking PROVE CoverInv'
  BY <1>0, <1>3, CoverStays
<1>4. CASE V!StopPort \/ V!StartPort \/ V!LookAtUnknown \/ V!DivideError
  <2>1. UNCHANGED <<drives, devices, filesystems, failures, drive>> /\ stage' \notin Walking
    BY <1>4 DEF V!StopPort, V!StartPort, V!LookAtUnknown, V!DivideError, Walking
  <2>. QED BY <1>3, <2>1, KeepsDevices
<1>5. ASSUME NEW ok \in {0, 1}, V!LookForKernel(ok) PROVE CoverInv'
  <2>1. V!Ok(ok) /\ UNCHANGED <<drives, devices, filesystems, drive>> /\ stage' \notin Walking
    BY <1>5 DEF V!LookForKernel, Walking
  <2>. QED BY <1>3, <2>1, KeepsDevices, OkKeeps
<1>6. CASE V!EngineStops \/ UNCHANGED V!volumesVars
  <2>1. UNCHANGED <<drives, stage, back, drive, entry, part, found, devices, filesystems, failures>>
    BY <1>6 DEF V!EngineStops, V!volumesVars
  <2>2. \A w : Done(w)' <=> Done(w)
    BY <2>1 DEF Done
  <2>3. Keeps
    BY <2>1, KeepsDevices
  <2>. QED BY <1>0, <2>1, <2>2, <2>3, CoverStays DEF CoverInv, WalkedInv
(* A drive without a link has no volume. *)
<1>7. CASE V!SkipPort
  <2>1. drive \in DOMAIN drives
    BY <1>0, <1>7 DEF V!SkipPort, V!MachinesAssumption, BootTypes
  <2>2. UNCHANGED <<drives, devices, filesystems, failures>> /\ drive' = drive + 1 /\ stage' = "scan"
    BY <1>7 DEF V!SkipPort, V!NextDrive
  <2>3. ~V!HasVolume(V!Drive)
    BY <1>7 DEF V!SkipPort, V!HasVolume
  <2>4. Keeps
    BY <2>2, KeepsDevices
  <2>. QED BY <1>0, <2>1, <2>2, <2>3, <2>4, CoverAdvances
(* A drive whose first sector cannot be read is left; of the others nothing is passed yet. *)
<1>8. ASSUME Keeps, drive' = drive, stage' = "table", entry' = 1, found' = 0, drive \in DOMAIN drives
      PROVE  CoverInv'
  <2>1. ASSUME NEW w \in V!Partitions(V!Drive) PROVE ~Done(w)'
    <3>1. DOMAIN V!Table = 1 .. Len(V!Table) /\ Len(V!Table) \in Nat
      BY <1>0, <1>8, DriveTypes, SequenceIs DEF V!Table, V!Drive
    <3>2. w[1] \in DOMAIN V!Table
      BY DEF V!Partitions, V!Entries, V!Table
    <3>3. ~(w[1] < 1)
      BY <3>1, <3>2
    <3>. QED BY <1>8, <3>3 DEF Done
  <2>. QED BY <1>0, <1>8, <2>1, CoverStays
<1>9. ASSUME NEW ok \in {0, 1}, V!FirstSector(ok) PROVE CoverInv'
  <2>1. drive \in DOMAIN drives
    BY <1>0, <1>9 DEF V!FirstSector, WalkInv
  <2>2. V!Ok(ok) /\ UNCHANGED <<drives, filesystems>>
        /\ \/ ok = 1 /\ V!Register(3) /\ stage' = "table" /\ entry' = 1 /\ found' = 0 /\ drive' = drive
           \/ ok = 0 /\ drive' = drive + 1 /\ stage' = "scan" /\ UNCHANGED devices
    BY <1>9 DEF V!FirstSector, V!LookAtTable, V!NextDrive
  <2>3. Keeps
    BY <1>0, <2>2, KeepsRegistered, KeepsDevices, OkKeeps
  <2>. QED BY <1>0, <1>8, <2>1, <2>2, <2>3, CoverAdvances, OkKeeps
<1>10. ASSUME NEW ok \in {0, 1}, V!OtherDrive(ok) PROVE CoverInv'
  <2>1. drive \in DOMAIN drives
    BY <1>0, <1>10 DEF V!OtherDrive, V!MachinesAssumption, BootTypes
  <2>2. V!Ok(ok) /\ UNCHANGED <<drives, filesystems>> /\ V!Register(0)
        /\ \/ ok = 1 /\ stage' = "table" /\ entry' = 1 /\ found' = 0 /\ drive' = drive
           \/ ok = 0 /\ drive' = drive + 1 /\ stage' = "scan"
    BY <1>10 DEF V!OtherDrive, V!LookAtTable, V!NextDrive
  <2>3. Keeps
    BY <1>0, <2>2, KeepsRegistered, OkKeeps
  <2>. QED BY <1>0, <1>8, <2>1, <2>2, <2>3, CoverAdvances, OkKeeps
(* An entry that is counted is not empty. *)
<1>11. ASSUME NEW type \in {"gpt", "fat", "ext"}, V!Type(type)
       PROVE  /\ stage = "table" /\ stage \in Walking /\ drive \in DOMAIN drives /\ entry \in DOMAIN V!Table
              /\ V!Table[entry].type = type /\ V!Table[entry].start \in Nat /\ ~V!Whole(V!Drive)
  <2>1. /\ stage = "table" /\ stage \in Walking /\ entry \in DOMAIN V!Table
        /\ V!Table[entry].type = type /\ V!Table[entry].start \in Nat
    BY <1>0, <1>11, TypeAt
  <2>2. ~V!Whole(V!Drive)
    BY <2>1 DEF V!Whole, V!Table
  <2>. QED BY <1>0, <2>1, <2>2, Looked
<1>12. CASE V!LookAtFat
  <2>1. V!Type("fat")
    BY <1>12 DEF V!LookAtFat
  <2>2. stage = "table" /\ stage \in Walking /\ V!Table[entry].start \in Nat /\ ~V!Whole(V!Drive)
    BY <1>11, <2>1
  <2>3. /\ stage' = "boot" /\ back' = "table" /\ V!SetOffset(V!Table[entry].start)
        /\ UNCHANGED <<drives, drive, entry, filesystems, failures>>
    BY <1>12 DEF V!LookAtFat
  <2>4. Keeps
    BY <1>0, <2>2, <2>3, KeepsMoved
  <2>5. \A w : Done(w)' => Done(w)
    BY <2>3 DEF Done
  <2>. QED BY <1>0, <2>2, <2>3, <2>4, <2>5, CoverStays
<1>13. ASSUME NEW ok \in {0, 1}, V!LookAtExt(ok) PROVE CoverInv'
  <2>1. V!Type("ext")
    BY <1>13 DEF V!LookAtExt
  <2>2. /\ stage = "table" /\ stage \in Walking /\ V!Table[entry].start \in Nat /\ ~V!Whole(V!Drive)
        /\ V!Table[entry].type = "ext"
    BY <1>11, <2>1
  <2>3. /\ stage' = stage /\ V!SetOffset(V!Table[entry].start) /\ V!Ok(ok) /\ entry' = entry + 1
        /\ UNCHANGED <<drives, drive, filesystems>>
    BY <1>13 DEF V!LookAtExt
  <2>4. Keeps
    BY <1>0, <2>2, <2>3, KeepsMoved, OkKeeps
  <2>5. ASSUME NEW w \in V!Partitions(V!Drive), V!IsVolume(V!Drive, w), Done(w)' PROVE Done(w)
    <3>1. w[1] < entry + 1 /\ w[1] # entry /\ w[1] \in Nat
      BY <1>1, <2>2, <2>3, <2>5 DEF Done, Position
    <3>. QED BY <1>2, <3>1 DEF Done
  <2>. QED BY <1>0, <2>2, <2>3, <2>4, <2>5, CoverStays
<1>14. CASE V!LookAtEmpty
  <2>1. /\ stage = "table" /\ stage' = stage /\ stage \in Walking /\ entry' = entry + 1
        /\ V!Table[entry].type = "empty"
        /\ UNCHANGED <<drives, drive, found, devices, filesystems, failures>>
    BY <1>14 DEF V!LookAtEmpty, V!Type, Walking
  <2>2. Keeps
    BY <2>1, KeepsDevices
  <2>3. ASSUME NEW w \in V!Partitions(V!Drive), V!IsVolume(V!Drive, w), Done(w)' PROVE Done(w)
    <3>1. w[1] < entry + 1 /\ w[1] # entry /\ w[1] \in Nat
      BY <1>1, <2>1, <2>3 DEF Done, Position
    <3>. QED BY <1>2, <3>1 DEF Done
  <2>4. found' # 0 => ~V!Whole(V!Drive)
    BY <1>0, <2>1 DEF CoverInv, WalkedInv
  <2>. QED BY <1>0, <2>1, <2>2, <2>3, <2>4, CoverStays
<1>15. ASSUME NEW ok \in {0, 1}, V!LookAtGpt(ok) PROVE CoverInv'
  <2>1. V!Type("gpt")
    BY <1>15 DEF V!LookAtGpt
  <2>2. /\ stage = "table" /\ stage \in Walking /\ V!Table[entry].start \in Nat /\ ~V!Whole(V!Drive)
        /\ drive \in DOMAIN drives
    BY <1>11, <2>1
  <2>3. /\ V!SetOffset(V!Table[entry].start) /\ V!Ok(ok) /\ UNCHANGED <<drives, entry, filesystems>>
        /\ \/ ok = 1 /\ stage' = "gpt" /\ part' = 1 /\ drive' = drive
           \/ ok = 0 /\ stage' = "scan" /\ drive' = drive + 1
    BY <1>15 DEF V!LookAtGpt, V!NextDrive
  <2>4. Keeps
    BY <1>0, <2>2, <2>3, KeepsMoved, OkKeeps
  <2>5. CASE ok = 0
    BY <1>0, <2>2, <2>3, <2>4, <2>5, CoverAdvances, OkKeeps
  <2>6. CASE ok = 1
    <3>1. ASSUME NEW w \in V!Partitions(V!Drive), V!IsVolume(V!Drive, w), Done(w)' PROVE Done(w)
      <4>1. w[2] \in Nat
        BY <1>1, <2>2, <3>1 DEF Position
      <4>2. ~(w[2] # 0 /\ w[2] < 1)
        BY <4>1
      <4>. QED BY <2>3, <2>6, <3>1, <4>2 DEF Done
    <3>. QED BY <1>0, <2>2, <2>3, <2>4, <2>6, <3>1, CoverStays
  <2>. QED BY <2>5, <2>6
(* A partition is passed that is of another kind, or whose block has another name. *)
<1>16. ASSUME NEW ok \in {0, 1}, V!LookAtPart(ok) PROVE CoverInv'
  <2>1. /\ stage = "gpt" /\ stage \in Walking /\ part <= Len(V!Drive.gpt) /\ part # 0 /\ V!Ok(ok)
        /\ V!Table[entry].type = "gpt" /\ UNCHANGED <<drives, entry, found, filesystems>>
    BY <1>0, <1>2, <1>16 DEF V!LookAtPart, PlaceInv, Walking
  <2>2. drive \in DOMAIN drives /\ V!Drive.gpt[part].start \in Nat /\ V!Drive.gpt[part].data \in {0, 1}
    <3>1. V!Drive.gpt \in Seq([data : {0, 1}, start : Nat]) /\ part \in Nat \ {0} /\ drive \in DOMAIN drives
      BY <1>0, <1>2, <2>1, Looked
    <3>2. V!Drive.gpt[part] \in [data : {0, 1}, start : Nat]
      BY <2>1, <3>1, Elements
    <3>. QED BY <3>1, <3>2
  <2>3. \/ /\ V!Drive.gpt[part].data = 0 /\ stage' = "gpt" /\ part' = part + 1
           /\ UNCHANGED <<drive, devices>>
        \/ V!SetOffset(V!Drive.gpt[part].start) /\ ok = 0 /\ stage' = "scan" /\ drive' = drive + 1
        \/ /\ V!SetOffset(V!Drive.gpt[part].start) /\ stage' = "boot" /\ back' = "gpt"
           /\ UNCHANGED <<part, drive>>
        \/ /\ V!SetOffset(V!Drive.gpt[part].start) /\ stage' = "gpt" /\ part' = part + 1 /\ drive' = drive
           /\ V!BlockAt(V!Drive, V!Drive.gpt[part].start).name = "other"
    BY <1>16, <2>1 DEF V!LookAtPart, V!NextDrive
  <2>4. Keeps
    BY <1>0, <2>1, <2>2, <2>3, KeepsMoved, KeepsDevices, OkKeeps
  <2>5. found' # 0 => ~V!Whole(V!Drive)
    BY <1>0, <2>1 DEF CoverInv, WalkedInv
  <2>6. CASE ok = 0 /\ stage' = "scan" /\ drive' = drive + 1
    BY <1>0, <2>1, <2>2, <2>4, <2>6, CoverAdvances, OkKeeps
  <2>7. CASE stage' = "boot" /\ back' = "gpt" /\ UNCHANGED <<part, drive>>
    <3>1. \A w : Done(w)' => Done(w)
      BY <2>1, <2>7 DEF Done
    <3>. QED BY <1>0, <2>1, <2>4, <2>5, <2>7, <3>1, CoverStays
  <2>8. CASE /\ stage' = "gpt" /\ part' = part + 1 /\ drive' = drive
             /\ \/ V!Drive.gpt[part].data = 0
                \/ V!BlockAt(V!Drive, V!Drive.gpt[part].start).name = "other"
    <3>1. ASSUME NEW w \in V!Partitions(V!Drive), V!IsVolume(V!Drive, w), Done(w)' PROVE Done(w)
      <4>1. w[2] \in Nat /\ (w[2] # 0 => w[2] # part)
        BY <1>1, <2>1, <2>8, <3>1 DEF Position
      <4>2. w[1] < entry \/ (w[1] = entry /\ w[2] # 0 /\ w[2] < part + 1)
        BY <2>1, <2>8, <3>1 DEF Done
      <4>3. w[1] < entry \/ (w[1] = entry /\ w[2] # 0 /\ w[2] < part)
        BY <1>2, <4>1, <4>2
      <4>. QED BY <2>1, <4>3 DEF Done
    <3>. QED BY <1>0, <2>1, <2>4, <2>5, <2>8, <3>1, CoverStays
  <2>. QED BY <2>3, <2>6, <2>7, <2>8
<1>17. CASE V!PartsEnd
  <2>1. /\ stage = "gpt" /\ stage \in Walking /\ stage' = "table" /\ entry' = entry + 1
        /\ part > Len(V!Drive.gpt) /\ V!Table[entry].type = "gpt"
        /\ UNCHANGED <<drives, drive, found, devices, filesystems, failures>>
    BY <1>0, <1>17 DEF V!PartsEnd, PlaceInv, Walking
  <2>2. Keeps
    BY <2>1, KeepsDevices
  <2>3. DOMAIN V!Drive.gpt = 1 .. Len(V!Drive.gpt) /\ Len(V!Drive.gpt) \in Nat
    BY <1>0, <2>1, Looked, SequenceIs
  <2>4. ASSUME NEW w \in V!Partitions(V!Drive), V!IsVolume(V!Drive, w), Done(w)' PROVE Done(w)
    <3>1. w[1] < entry + 1 /\ w[1] \in Nat /\ w[2] \in Nat
          /\ (w[1] = entry => w[2] # 0 /\ w[2] \in DOMAIN V!Drive.gpt)
      BY <1>1, <2>1, <2>4 DEF Done, Position
    <3>2. w[1] < entry \/ (w[1] = entry /\ w[2] # 0 /\ w[2] < part)
      BY <1>2, <2>1, <2>3, <3>1
    <3>. QED BY <2>1, <3>2 DEF Done
  <2>5. found' # 0 => ~V!Whole(V!Drive)
    BY <1>0, <2>1 DEF CoverInv, WalkedInv
  <2>. QED BY <1>0, <2>1, <2>2, <2>4, <2>5, CoverStays
(* All partitions were passed. *)
<1>18. CASE V!TableEnds
  <2>1. /\ stage = "table" /\ stage \in Walking /\ entry > Len(V!Table)
        /\ UNCHANGED <<drives, entry, found, filesystems, failures>>
        /\ \/ found = 0 /\ V!SetOffset(0) /\ stage' = "boot" /\ back' = "scan" /\ drive' = drive
           \/ found # 0 /\ drive' = drive + 1 /\ stage' = "scan" /\ UNCHANGED devices
    BY <1>18 DEF V!TableEnds, V!NextDrive, Walking
  <2>2. Keeps
    BY <1>0, <2>1, KeepsMoved, KeepsDevices
  <2>3. CASE found = 0 /\ stage' = "boot" /\ back' = "scan" /\ drive' = drive
    <3>1. \A w : Done(w)' => Done(w)
      BY <2>1, <2>3 DEF Done
    <3>. QED BY <1>0, <2>1, <2>2, <2>3, <3>1, CoverStays
  <2>4. CASE found # 0 /\ drive' = drive + 1 /\ stage' = "scan"
    <3>1. ~V!Whole(V!Drive)
      BY <1>0, <2>1, <2>4 DEF CoverInv, WalkedInv
    <3>2. ASSUME NEW w \in V!Partitions(V!Drive), V!IsVolume(V!Drive, w) PROVE Done(w)
      <4>1. w[1] \in DOMAIN V!Table /\ w[1] \in Nat
        BY <1>1, <2>1, <3>2 DEF Position
      <4>2. DOMAIN V!Table = 1 .. Len(V!Table) /\ Len(V!Table) \in Nat
        BY <1>0, <2>1, Looked, SequenceIs
      <4>3. w[1] < entry
        BY <1>2, <2>1, <4>1, <4>2
      <4>. QED BY <4>3 DEF Done
    <3>3. drive \in failures \/ ~V!HasVolume(V!Drive) \/ Lettered(drive)
      BY <1>0, <2>1, <3>1, <3>2 DEF CoverInv, WalkedInv, V!HasVolume
    <3>. QED BY <1>0, <2>1, <2>2, <2>4, <3>3, CoverAdvances, Looked
  <2>. QED BY <2>1, <2>3, <2>4
<1>19. CASE V!BootBlockFails
  <2>1. /\ stage = "boot" /\ stage \in Walking /\ UNCHANGED <<drives, found, devices, filesystems>>
        /\ failures \subseteq failures' /\ drive \in failures'
    BY <1>19 DEF V!BootBlockFails, V!Ok, Walking
  <2>2. drive \in DOMAIN drives
    BY <1>0, <2>1, Looked
  <2>3. Keeps
    BY <2>1, KeepsDevices
  <2>4. CASE back = "scan"
    <3>1. drive' = drive + 1 /\ stage' = "scan"
      BY <1>19, <2>4 DEF V!BootBlockFails, V!GoOn
    <3>. QED BY <1>0, <2>1, <2>2, <2>3, <3>1, CoverAdvances
  <2>5. CASE back # "scan"
    <3>1. drive' = drive
      BY <1>19, <2>5 DEF V!BootBlockFails, V!GoOn
    <3>2. found' # 0 => ~V!Whole(V!Drive)
      BY <1>0, <2>1 DEF CoverInv, WalkedInv
    <3>. QED BY <1>0, <2>1, <2>3, <3>1, <3>2, CoverStays
  <2>. QED BY <2>4, <2>5
<1>20. CASE V!Mount
  BY <1>0, <1>20, CoverMounts
<1>. QED BY <1>4, <1>5, <1>6, <1>7, <1>9, <1>10, <1>12, <1>13, <1>14, <1>15, <1>16, <1>17, <1>18,
            <1>19, <1>20 DEF V!Next, V!Boot

-----------------------------------------------------------------------------
LEMMA DivideHasReason ==
  ASSUME V!MachinesAssumption, BootTypes, WalkInv, PlaceInv, V!DivideError
  PROVE  V!Impassable(V!Drive)
<1>1. stage = "boot" /\ stage \in Walking /\ V!BlockAt(V!Drive, V!Offset).bytes = 0
  BY DEF V!DivideError, Walking
<1>2. CASE back = "table"
  <2>1. entry \in DOMAIN V!Table /\ V!Table[entry].type = "fat" /\ V!Offset = V!Table[entry].start
    BY <1>1, <1>2 DEF PlaceInv
  <2>2. V!Offset \in V!TakenAtItsWord(V!Drive)
    BY <2>1 DEF V!Whole, V!TakenAtItsWord, V!Table
  <2>. QED BY <1>1, <2>2 DEF V!Impassable
<1>3. CASE back = "scan"
  <2>1. V!Offset = 0 /\ \A e \in DOMAIN V!Table : V!Table[e].type = "empty"
    BY <1>1, <1>3 DEF PlaceInv
  <2>2. V!Offset \in V!TakenAtItsWord(V!Drive)
    BY <2>1 DEF V!Whole, V!TakenAtItsWord, V!Table
  <2>. QED BY <1>1, <2>2 DEF V!Impassable
<1>4. CASE back = "gpt"
  <2>1. V!BlockAt(V!Drive, V!Offset).name # "other" /\ drive \in DOMAIN drives
    BY <1>1, <1>4, Looked DEF PlaceInv
  <2>2. V!Blank.name = "other"
    BY DEF V!Blank
  <2>3. V!Offset \in DOMAIN V!Drive.blocks /\ V!BlockAt(V!Drive, V!Offset) = V!Drive.blocks[V!Offset]
    BY <2>1, <2>2 DEF V!BlockAt
  <2>4. V!Drive.blocks[V!Offset] \in V!Blocks
    BY <2>1, <2>3, DriveTypes DEF V!Drive
  <2>5. V!Drive.blocks[V!Offset].bytes # 0
    BY <2>4 DEF V!Blocks
  <2>. QED BY <1>1, <2>3, <2>5
<1>. QED BY <1>1, <1>2, <1>3, <1>4 DEF PlaceInv

(* Why the kernel is not found in A:. *)
LEMMA KernelHasReason ==
  ASSUME V!MachinesAssumption, BootTypes, WalkInv, VolumeInv, NEW ok \in {0, 1},
         V!LookForKernel(ok), stage' = "stopped", ok = 1, filesystems # <<>>
  PROVE  LET f == filesystems[1] IN ~V!Kept(f) \/ V!Kernel(f) = 0 \/ V!Fat32(f)
<1>. DEFINE f == filesystems[1]
            b == V!DriveOf(f).blocks[f.start]
<1>. SUFFICES ASSUME V!Kept(f), V!Kernel(f) # 0, ~V!Fat32(f) PROVE FALSE
  OBVIOUS
<1>0. devices[f.device].offset = f.start /\ b.kernel # 0 /\ b.size16 # 0
  BY DEF V!Kept, V!Kernel, V!Fat32
<1>1. 1 \in DOMAIN filesystems
  BY DEF BootTypes
<1>2. f.device \in DOMAIN devices /\ f.start \in DOMAIN V!DriveOf(f).blocks /\ f.root = V!FirstRoot(b)
  BY <1>1 DEF VolumeInv
<1>3. devices[f.device].drive \in DOMAIN drives
  BY <1>2 DEF WalkInv
<1>4. b \in V!Blocks
  BY <1>2, <1>3, DriveTypes DEF V!DriveOf
<1>5. b.kernel = 1
  BY <1>0, <1>4 DEF V!Blocks
<1>6. V!TrueRoot(b) = V!FirstRoot(b)
  BY <1>0 DEF V!TrueRoot, V!FirstRoot
<1>7. f.start \in V!VolumesRead(f)
  BY <1>0, <1>2, <1>6 DEF V!VolumesRead
<1>. QED BY <1>5, <1>7 DEF V!LookForKernel

(* A drive before A:'s has no letter, so it has no volume or lost it. *)
LEMMA BeforeFirst ==
  ASSUME V!MachinesAssumption, BootTypes, WalkInv, VolumeInv, CoverInv, drive > Len(drives),
         NEW i \in 1 .. (V!FirstDrive - 1), V!HasVolume(drives[i])
  PROVE  i \in failures
<1>1. DOMAIN drives = 1 .. Len(drives) /\ Len(drives) \in Nat /\ drive \in Nat
  BY DEF V!MachinesAssumption, BootTypes
<1>2. CASE filesystems = <<>>
  <2>1. i \in DOMAIN drives /\ i < drive
    BY <1>1, <1>2 DEF V!FirstDrive
  <2>2. ~Lettered(i)
    BY <1>2 DEF Lettered
  <2>. QED BY <2>1, <2>2 DEF CoverInv, CoveredInv
<1>3. CASE filesystems # <<>>
  <2>1. 1 \in DOMAIN filesystems
    BY <1>3 DEF BootTypes
  <2>2. V!FirstDrive = LetterDrive(1) /\ LetterDrive(1) \in DOMAIN drives
    BY <1>3, <2>1 DEF V!FirstDrive, LetterDrive, WalkInv, VolumeInv
  <2>3. i \in DOMAIN drives /\ i < drive /\ i < LetterDrive(1) /\ i \in Nat
    BY <1>1, <2>2
  <2>4. \A k \in DOMAIN filesystems : LetterDrive(1) <= LetterDrive(k) /\ LetterDrive(k) \in Nat
    BY <1>1 DEF CoverInv, LeastInv, LetterDrive, WalkInv, VolumeInv
  <2>5. ~Lettered(i)
    BY <1>1, <2>1, <2>3, <2>4 DEF Lettered
  <2>. QED BY <2>3, <2>5 DEF CoverInv, CoveredInv
<1>. QED BY <1>2, <1>3

LEMMA NextStops ==
  ASSUME V!MachinesAssumption, BootInv, [V!Next]_V!volumesVars
  PROVE  V!StopsForAReason'
<1>0. BootTypes /\ WalkInv /\ PlaceInv /\ VolumeInv /\ CoverInv /\ V!StopsForAReason
  BY DEF BootInv
<1>1. CASE V!EngineStops \/ UNCHANGED V!volumesVars
  <2>1. UNCHANGED <<drives, stage, drive, devices, filesystems, failures>>
    BY <1>1 DEF V!EngineStops, V!volumesVars
  <2>. QED BY <1>0, <2>1
     DEF V!StopsForAReason, V!Drive, V!DriveOf, V!FirstDrive, V!Kept, V!Kernel, V!Fat32
<1>2. ASSUME stage \in Walking, UNCHANGED <<drives, drive>>, V!Impassable(V!Drive)
      PROVE  V!StopsForAReason'
  <2>1. drive <= Len(drives)
    BY <1>0, <1>2 DEF WalkInv, V!MachinesAssumption, BootTypes
  <2>. QED BY <1>2, <2>1 DEF V!StopsForAReason, V!Drive
<1>3. CASE V!LookAtUnknown
  <2>1. stage \in Walking /\ entry \in Nat \ {0} /\ entry <= Len(V!Table) /\ V!Table[entry].type = "unknown"
        /\ UNCHANGED <<drives, drive>>
    BY <1>0, <1>3 DEF V!LookAtUnknown, V!Type, PlaceInv, BootTypes, Walking
  <2>2. entry \in DOMAIN V!Table
    BY <1>0, <2>1, Looked, Elements
  <2>. QED BY <1>2, <2>1, <2>2 DEF V!Impassable, V!Table
<1>4. CASE V!DivideError
  <2>1. stage \in Walking /\ UNCHANGED <<drives, drive>>
    BY <1>4 DEF V!DivideError, Walking
  <2>. QED BY <1>0, <1>2, <1>4, <2>1, DivideHasReason
<1>5. ASSUME NEW ok \in {0, 1}, V!LookForKernel(ok), stage' = "stopped" PROVE V!StopsForAReason'
  <2>1. UNCHANGED <<drives, drive, devices, filesystems>> /\ V!Ok(ok) /\ drive > Len(drives)
    BY <1>5 DEF V!LookForKernel
  <2>2. drive \in Nat /\ Len(drives) \in Nat
    BY <1>0 DEF BootTypes, V!MachinesAssumption
  <2>3. V!FirstDrive' = V!FirstDrive
    BY <2>1 DEF V!FirstDrive
  <2>. DEFINE f == filesystems[1]
  <2>4. CASE ok = 0
    BY <2>1, <2>2, <2>4, OkKeeps DEF V!StopsForAReason
  <2>5. CASE ok = 1
    <3>1. filesystems = <<>> \/ ~V!Kept(f) \/ V!Kernel(f) = 0 \/ V!Fat32(f)
      BY <1>0, <1>5, <2>5, KernelHasReason
    <3>2. (filesystems = <<>> \/ ~V!Kept(filesystems[1]) \/ V!Kernel(filesystems[1]) = 0 \/ V!Fat32(filesystems[1]))'
      BY <2>1, <3>1 DEF V!Kept, V!Kernel, V!Fat32, V!DriveOf
    <3>3. \A i \in 1 .. (V!FirstDrive - 1) : V!HasVolume(drives[i]) => i \in failures'
      BY <1>0, <2>1, BeforeFirst, OkKeeps
    <3>. QED BY <2>1, <2>2, <2>3, <3>2, <3>3 DEF V!StopsForAReason
  <2>. QED BY <2>4, <2>5
<1>6. ASSUME stage' # "stopped" PROVE V!StopsForAReason'
  BY <1>6 DEF V!StopsForAReason
<1>7. CASE V!SkipPort \/ V!StopPort \/ V!StartPort \/ V!LookAtFat \/ V!LookAtEmpty \/ V!PartsEnd \/ V!TableEnds
  BY <1>6, <1>7
     DEF V!SkipPort, V!StopPort, V!StartPort, V!LookAtFat, V!LookAtEmpty, V!PartsEnd, V!TableEnds,
         V!NextDrive, V!Type
<1>8. CASE V!BootBlockFails \/ V!Mount
  <2>1. stage' \in {"table", "gpt", "scan"}
    BY <1>0, <1>8 DEF V!BootBlockFails, V!Mount, V!GoOn, PlaceInv
  <2>. QED BY <1>6, <2>1
<1>9. ASSUME NEW ok \in {0, 1},
             V!FirstSector(ok) \/ V!OtherDrive(ok) \/ V!LookAtExt(ok) \/ V!LookAtGpt(ok) \/ V!LookAtPart(ok)
      PROVE  V!StopsForAReason'
  BY <1>6, <1>9
     DEF V!FirstSector, V!OtherDrive, V!LookAtExt, V!LookAtGpt, V!LookAtPart, V!LookAtTable,
         V!NextDrive, V!Type
<1>. QED BY <1>1, <1>3, <1>4, <1>5, <1>6, <1>7, <1>8, <1>9 DEF V!Next, V!Boot

THEOREM BootCorrect == V!MachinesAssumption => (V!Spec => []BootInv)
<1>. SUFFICES ASSUME V!MachinesAssumption PROVE V!Spec => []BootInv
  OBVIOUS
<1>1. BootInv /\ [V!Next]_V!volumesVars => BootInv'
  <2>. SUFFICES ASSUME BootInv, [V!Next]_V!volumesVars PROVE BootInv'
    OBVIOUS
  <2>1. BootTypes'
    BY NextBootTypes DEF BootInv
  <2>2. (WalkInv /\ PlaceInv /\ VolumeInv /\ PassedInv /\ V!LettersFollowTheWalk)'
    BY NextWalk
  <2>3. V!StopsForAReason'
    BY NextStops
  <2>4. CoverInv'
    BY NextCover
  <2>. QED BY <2>1, <2>2, <2>3, <2>4 DEF BootInv
<1>. QED BY <1>1, InitBoot, PTL DEF V!Spec

(* A letter reads its own volume, or that of a later partition of its drive: for machines with *)
(* any number of drives and partitions, whatever transfers fail.                               *)
THEOREM LettersCorrect == V!MachinesAssumption => (V!Spec => []LettersFollowTheWalk)
<1>1. BootInv => LettersFollowTheWalk
  BY DEF BootInv, LettersFollowTheWalk
<1>. QED BY <1>1, BootCorrect, PTL

(* The boot stops for one of the reasons that are named only. *)
THEOREM StopsCorrect == V!MachinesAssumption => (V!Spec => []StopsForAReason)
<1>1. BootInv => StopsForAReason
  BY DEF BootInv, StopsForAReason
<1>. QED BY <1>1, BootCorrect, PTL
=============================================================================
