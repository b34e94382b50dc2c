------------------------------ MODULE UsbProofs ------------------------------
(***************************************************************************)
(* Theorems about UsbStick, for any number of ports, polls, sectors and    *)
(* reads, and about Xhci, for any number of ports and any devices at them. *)
(***************************************************************************)
EXTENDS UsbHosts, TLAPS, FiniteSetTheorems, SequenceTheorems, WellFoundedInduction

Tds ==
  [pid : {"setup", "status", "answer", "out", "in"}, toggle : {0, 1}, load : CommandBlocks \cup {None},
   state : {"active", "done", "error"}]

DeviceStates ==
  [address : Int, class : {"storage", "other"}, phase : {"cbw", "data", "csw"},
   command : CommandBlocks \cup {None}, next : CommandBlocks \cup {None}, in : {0, 1}, out : {0, 1},
   halted : SUBSET {"out"}]

(* How many descriptors a request has. *)
Parts(kind) ==
  IF kind \in {"in", "csw"} THEN 1 ELSE IF kind \in {"address", "setconfig", "out"} THEN 2 ELSE 3

TypeInv ==
  /\ pc \in Places
  /\ port \in Nat /\ connected \in 1 .. Ports /\ count \in Int
  /\ polls \in 0 .. Polls
  /\ chain \in [kind : Control \cup Bulk \cup {None}, address : Int, td : Seq(Tds)]
  /\ async \in {"off", "on", "stopping"}
  /\ device \in DeviceStates
  /\ arrived \in Packets \cup {None}
  /\ expired \in {0, 1}
  /\ tag \in Nat
  /\ job \in [sector : Nat, count : Nat, install : {0, 1}]
  /\ data \in Packets \cup {None}
  /\ buffer \in Seq(Packets \cup {None})
  /\ result \in {0, 1}
  /\ reads \in Nat
  /\ taken \in Int /\ before \in Int

(* A request that was offered has the descriptors of its kind, and they are done one *)
(* after the other.                                                                  *)
ChainInv ==
  /\ polls > 0 => chain.kind = pc
  /\ pc \notin Control \cup Bulk => polls = 0
  /\ chain.kind = None => chain.td = <<>>
  /\ chain.kind # None => Len(chain.td) = Parts(chain.kind)
  /\ chain.kind \in {"in", "csw"} =>
       /\ chain.td[1].pid = "in"
       /\ chain.td[1].toggle = IF chain.kind = "in" THEN 0 ELSE 1
  /\ \A i \in DOMAIN chain.td :
       /\ chain.td[i].pid = "in" => chain.kind \in {"in", "csw"}
       /\ chain.td[i].state # "active" => \A j \in 1 .. i - 1 : chain.td[j].state = "done"

(* A command that was sent carries an old tag; and while a sector is under way, the *)
(* latest tag stands for that sector.                                               *)
UnderWay == pc \in {"in", "csw"} \/ (pc = "out" /\ polls > 0)

Sent(k) ==
  /\ k \in CommandBlocks
  /\ k.tag < tag
  /\ UnderWay /\ k.tag = tag - 1 => k.sector = job.sector + Len(buffer)

CommandInv ==
  /\ \A i \in DOMAIN chain.td : chain.td[i].load # None => Sent(chain.td[i].load)
  /\ device.phase # "cbw" => Sent(device.command)
  /\ device.next # None => Sent(device.next)
  /\ arrived # None => Sent(arrived.command)
  /\ pc = "csw" => Sent(data.command)

(* A device that has sent the packet p holds it still, as it has missed that it arrived, *)
(* or goes on with what follows.                                                         *)
Follows(p) ==
  /\ p \in Packets
  /\ \/ device.in = 0 /\ device.phase = p.phase /\ device.command = p.command
     \/ /\ device.in = 1
        /\ p.phase = "data" => device.phase = "csw" /\ device.command = p.command
        /\ p.phase = "csw" => device.phase # "csw"

(* From the packet of data to the status of the same command: a data packet that was *)
(* kept back, or a status taken for the data, is never followed by a status.         *)
PairInv ==
  /\ pc = "in" /\ polls > 0 /\ chain.td[1].state = "done" => Follows(arrived)
  /\ pc = "csw" /\ polls = 0 => chain.kind = "in" /\ chain.td[1].state = "done" /\ Follows(data)
  /\ pc = "csw" /\ polls > 0 =>
       /\ data \in Packets
       /\ chain.td[1].state = "active" => Follows(data)
       /\ chain.td[1].state = "done" =>
            /\ data.phase = "data"
            /\ arrived \in Packets /\ arrived.phase = "csw" /\ arrived.command = data.command

(* What was copied is what was asked for; a read that is under way has not returned yet. *)
BufferInv ==
  /\ \A i \in 1 .. Len(buffer) :
       /\ buffer[i] \in Packets
       /\ buffer[i].phase = "data" /\ buffer[i].command.good = 1
       /\ buffer[i].command.sector = job.sector + i - 1
  /\ result = 1 => Len(buffer) = job.count
  /\ pc \in Starting \cup {"hang"} \cup Control \cup Bulk => result = 0
  /\ pc = "probe" /\ port <= connected => result = 0
  /\ pc \in Control => port = connected
  /\ pc \in Bulk => Len(buffer) < job.count /\ (job.install = 1 => port = connected)

(* The descriptor that was polled is left alone once the request was not given up. *)
WatchInv == polls = 0 /\ expired = 0 /\ chain.kind # None => Watched(chain).state # "active"

(* Where a sector stands in its pages. *)
PagesInv ==
  /\ pc = "out" /\ polls > 0 => taken - before = 5
  /\ pc = "in" => taken - before = IF polls = 0 THEN 2 ELSE 7
  /\ pc = "csw" => taken - before = IF polls = 0 THEN 4 ELSE 9

(* A controller that is still at an earlier request has not come to the one that was offered, *)
(* which is not for a status: it was at the request for its data.                             *)
Requests == [kind : Control \cup Bulk \cup {None}, address : Int, td : Seq(Tds), expired : {0, 1}]
BehindInv ==
  /\ behind \in Requests
  /\ behind # NoRequest =>
       /\ behind.kind # None
       /\ pc # "csw"
       /\ \A i \in DOMAIN chain.td : chain.td[i].state = "active"
       /\ \A i \in DOMAIN behind.td : behind.td[i].load # None => Sent(behind.td[i].load)
       /\ behind.expired = 0 => behind.kind = "out" /\ behind.td[1].state # "active"

Inv == TypeInv /\ ChainInv /\ CommandInv /\ PairInv /\ BufferInv /\ WatchInv /\ PagesInv /\ BehindInv

LEMMA NothingBehind == NoRequest \in Requests
<1>1. <<>> \in Seq(Tds)
  OBVIOUS
<1> QED BY <1>1 DEF NoRequest, Requests

LEMMA NoneIsNothing == None \notin CommandBlocks /\ None \notin Packets /\ None \notin Control \cup Bulk
BY NoneAssumption

LEMMA Fresh ==
  ASSUME NEW kind \in Control \cup Bulk, NEW load \in CommandBlocks
  PROVE  LET td == Descriptors(kind, load)
         IN /\ td \in Seq(Tds)
            /\ Len(td) = Parts(kind)
            /\ \A i \in DOMAIN td :
                 /\ td[i].state = "active"
                 /\ td[i].load # None => kind = "out" /\ td[i].load = load
                 /\ td[i].pid = "in" <=> kind \in {"in", "csw"}
            /\ kind = "in" => td[1].toggle = 0
            /\ kind = "csw" => td[1].toggle = 1
<1>1. CASE kind \in {"address", "setconfig"}
  <2>1. Descriptors(kind, load) = <<Setup, Status>>
    BY <1>1 DEF Descriptors
  <2> QED BY <1>1, <2>1, NoneIsNothing DEF Setup, Status, Td, Tds, Parts
<1>2. CASE kind \in {"device", "configuration", "lun"}
  <2>1. Descriptors(kind, load) = <<Setup, Td("answer", 1, None), Status>>
    BY <1>2 DEF Descriptors
  <2> QED BY <1>2, <2>1, NoneIsNothing DEF Setup, Status, Td, Tds, Parts
<1>3. CASE kind = "out"
  <2>1. Descriptors(kind, load) = <<Td("out", 0, load), Td("out", 1, None)>>
    BY <1>3 DEF Descriptors
  <2>2. Td("out", 0, load) \in Tds /\ Td("out", 1, None) \in Tds
    BY DEF Td, Tds
  <2>3. Descriptors(kind, load) \in Seq(Tds) /\ Len(Descriptors(kind, load)) = 2
    BY <2>1, <2>2
  <2>4. \A i \in DOMAIN Descriptors(kind, load) :
          Descriptors(kind, load)[i] \in {Td("out", 0, load), Td("out", 1, None)}
    BY <2>1
  <2> QED BY <1>3, <2>3, <2>4 DEF Td, Parts
<1>4. CASE kind = "in"
  <2>1. Descriptors(kind, load) = <<Td("in", 0, None)>>
    BY <1>4 DEF Descriptors
  <2>2. Td("in", 0, None) \in Tds
    BY DEF Td, Tds
  <2>3. Descriptors(kind, load) \in Seq(Tds) /\ Len(Descriptors(kind, load)) = 1
    BY <2>1, <2>2
  <2>4. \A i \in DOMAIN Descriptors(kind, load) : Descriptors(kind, load)[i] = Td("in", 0, None)
    BY <2>1
  <2> QED BY <1>4, <2>1, <2>3, <2>4 DEF Td, Parts
<1>5. CASE kind = "csw"
  <2>1. Descriptors(kind, load) = <<Td("in", 1, None)>>
    BY <1>5 DEF Descriptors
  <2>2. Td("in", 1, None) \in Tds
    BY DEF Td, Tds
  <2>3. Descriptors(kind, load) \in Seq(Tds) /\ Len(Descriptors(kind, load)) = 1
    BY <2>1, <2>2
  <2>4. \A i \in DOMAIN Descriptors(kind, load) : Descriptors(kind, load)[i] = Td("in", 1, None)
    BY <2>1
  <2> QED BY <1>5, <2>1, <2>3, <2>4 DEF Td, Parts
<1> QED BY <1>1, <1>2, <1>3, <1>4, <1>5 DEF Control, Bulk

(* What the device does with one descriptor. *)
LEMMA InEffect ==
  ASSUME NEW c, NEW td \in Tds, td.pid = "in", NEW d \in DeviceStates, NEW o \in Outcomes(c, td, d),
         d.phase # "cbw" => d.command \in CommandBlocks
  PROVE  \/ o.state = "error" /\ o.device = d /\ o.packet = None
         \/ /\ o.state = "active" /\ o.packet = None
            /\ d.phase # "cbw" /\ td.toggle # d.in
            /\ o.device = Advance(d)
         \/ /\ o.state = "done" /\ o.packet = [phase |-> d.phase, command |-> d.command]
            /\ d.phase # "cbw" /\ td.toggle = d.in
            /\ ~(c.kind = "csw" /\ d.phase = "data")
            /\ o.device = d \/ o.device = Advance(d)
<1>1. o \in {Outcome("error", d, None)} \cup InOutcomes(c, td, d)
  BY DEF Outcomes
<1> QED BY <1>1 DEF InOutcomes, Outcome, Busy

LEMMA AdvanceEffect ==
  ASSUME NEW d \in DeviceStates, d.phase # "cbw"
  PROVE  /\ Advance(d) \in DeviceStates
         /\ Advance(d).in = 1 - d.in
         /\ d.phase = "data" => /\ Advance(d).phase = "csw"
                                /\ Advance(d).command = d.command /\ Advance(d).next = d.next
         /\ d.phase = "csw" =>
              \/ Advance(d).phase = "cbw" /\ Advance(d).next = d.next
              \/ /\ d.next # None
                 /\ Advance(d).phase = "data" /\ Advance(d).command = d.next /\ Advance(d).next = None
<1> DEFINE flipped == [d EXCEPT !.in = 1 - @]
<1>1. flipped \in DeviceStates /\ flipped.in = 1 - d.in
  BY DEF DeviceStates
<1>2. CASE d.phase = "data"
  <2>1. Advance(d) = [flipped EXCEPT !.phase = "csw"]
    BY <1>2 DEF Advance
  <2> QED BY <1>1, <1>2, <2>1 DEF DeviceStates
<1>3. CASE d.phase = "csw" /\ d.next = None
  <2>1. Advance(d) = [flipped EXCEPT !.phase = "cbw"]
    BY <1>3 DEF Advance
  <2> QED BY <1>1, <1>3, <2>1 DEF DeviceStates
<1>4. CASE d.phase = "csw" /\ d.next # None
  <2>1. Advance(d) = [flipped EXCEPT !.phase = "data", !.command = d.next, !.next = None]
    BY <1>4 DEF Advance
  <2> QED BY <1>1, <1>4, <2>1 DEF DeviceStates
<1> QED BY <1>2, <1>3, <1>4 DEF DeviceStates

LEMMA OutEffect ==
  ASSUME NEW c, NEW td \in Tds, td.pid = "out", NEW d \in DeviceStates, NEW o \in Outcomes(c, td, d)
  PROVE  /\ o.state \in {"active", "done", "error"} /\ o.packet = None
         /\ o.device \in DeviceStates
         /\ \/ o.device.phase = d.phase /\ o.device.command = d.command
            \/ /\ td.load # None
               /\ o.device.phase = "data"
               /\ \E g \in {0, 1} : o.device.command = [td.load EXCEPT !.good = g]
         /\ \/ o.device.next = d.next
            \/ td.load # None /\ \E g \in {0, 1} : o.device.next = [td.load EXCEPT !.good = g]
<1>1. o \in {Outcome("error", d, None)} \cup OutOutcomes(td, d)
  BY DEF Outcomes
<1>2. ASSUME td.load # None, NEW k \in Commands(td.load)
      PROVE  k \in CommandBlocks /\ \E g \in {0, 1} : k = [td.load EXCEPT !.good = g]
  BY <1>2 DEF Commands, CommandBlocks, Tds
<1>0. /\ Flipped(d) \in DeviceStates
      /\ Flipped(d).phase = d.phase /\ Flipped(d).command = d.command /\ Flipped(d).next = d.next
  BY DEF Flipped, DeviceStates
<1>3. CASE o = Outcome("error", d, None) \/ o = Outcome("done", d, None)
  BY <1>3 DEF Outcome
<1>4. CASE o = Stall(d)
  BY <1>4 DEF Stall, Outcome, DeviceStates
<1>5. CASE o = Outcome("done", Flipped(d), None)
  BY <1>5 DEF Flipped, Outcome, DeviceStates
<1>6. ASSUME td.load # None, NEW s \in {"done", "active"}, NEW k \in Commands(td.load),
             o = Outcome(s, Takes(d, k), None)
      PROVE  /\ o.state = s /\ o.packet = None
             /\ o.device \in DeviceStates
             /\ o.device.phase = "data" /\ o.device.command = k /\ o.device.next = d.next
  <2>1. k \in CommandBlocks
    BY <1>2, <1>6
  <2>2. /\ Takes(d, k) \in DeviceStates
        /\ Takes(d, k).phase = "data" /\ Takes(d, k).command = k /\ Takes(d, k).next = d.next
    BY <2>1, <1>0 DEF Takes, DeviceStates
  <2> QED BY <1>6, <2>2 DEF Outcome
<1>7. ASSUME td.load # None, NEW k \in Commands(td.load), o = Outcome("done", Keeps(d, k), None)
      PROVE  /\ o.state = "done" /\ o.packet = None
             /\ o.device \in DeviceStates
             /\ o.device.phase = d.phase /\ o.device.command = d.command /\ o.device.next = k
  <2>1. k \in CommandBlocks
    BY <1>2, <1>7
  <2>2. /\ Keeps(d, k) \in DeviceStates
        /\ Keeps(d, k).phase = d.phase /\ Keeps(d, k).command = d.command /\ Keeps(d, k).next = k
    BY <2>1, <1>0 DEF Keeps, DeviceStates
  <2> QED BY <1>7, <2>2 DEF Outcome
<1>8. \/ o = Outcome("error", d, None) \/ o = Outcome("done", d, None) \/ o = Stall(d)
      \/ o = Outcome("done", Flipped(d), None)
      \/ td.load # None /\ \E s \in {"done", "active"}, k \in Commands(td.load) : o = Outcome(s, Takes(d, k), None)
      \/ td.load # None /\ \E k \in Commands(td.load) : o = Outcome("done", Keeps(d, k), None)
  BY <1>1 DEF OutOutcomes
<1> QED BY <1>2, <1>3, <1>4, <1>5, <1>6, <1>7, <1>8

LEMMA ControlEffect ==
  ASSUME count \in Int, NEW c, NEW td \in Tds, td.pid \notin {"in", "out"}, NEW d \in DeviceStates,
         NEW o \in Outcomes(c, td, d)
  PROVE  /\ o.state \in {"active", "done", "error"} /\ o.packet = None
         /\ o.device \in DeviceStates
         /\ o.device.phase = d.phase /\ o.device.command = d.command /\ o.device.next = d.next
<1>1. o \in {Outcome("error", d, None)} \cup ControlOutcomes(c, td, d)
  BY DEF Outcomes
<1>2. /\ o.state \in {"active", "done", "error"} /\ o.packet = None
      /\ o.device = d \/ o.device = [d EXCEPT !.address = count - 1]
  BY <1>1 DEF ControlOutcomes, Outcome
<1> QED BY <1>2 DEF DeviceStates

LEMMA Bounds == Polls \in Nat /\ Polls >= 1 /\ Ports \in Nat /\ Ports >= 1
BY PortAssumption

(* The descriptor that is polled. *)
LEMMA WatchedIs ==
  ASSUME TypeInv, ChainInv, chain.kind # None
  PROVE  /\ Len(chain.td) \in Nat /\ Len(chain.td) >= 1
         /\ DOMAIN chain.td = 1 .. Len(chain.td)
         /\ \A i \in DOMAIN chain.td : chain.td[i] \in Tds
         /\ chain.kind \in Bulk => Watched(chain) = chain.td[1]
         /\ chain.kind \in Control => Watched(chain) = chain.td[Len(chain.td)]
<1>1. chain.td \in Seq(Tds) /\ chain.kind \in Control \cup Bulk
  BY DEF TypeInv
<1>2. Len(chain.td) \in Nat /\ Len(chain.td) >= 1
  BY <1>1 DEF ChainInv, Parts
<1>3. DOMAIN chain.td = 1 .. Len(chain.td) /\ \A i \in DOMAIN chain.td : chain.td[i] \in Tds
  BY <1>1
<1>4. chain.kind \in Bulk => chain.kind \notin Control
  BY DEF Bulk, Control
<1> QED BY <1>2, <1>3, <1>4 DEF Watched

(* While a request is under way it is the one of this place. *)
LEMMA Requested ==
  ASSUME TypeInv, ChainInv, polls > 0
  PROVE  pc \in Control \cup Bulk /\ chain.kind = pc /\ chain.kind # None
BY NoneIsNothing DEF ChainInv

(* A command that was sent stays so while its sector is under way, and afterwards. *)
LEMMA SentStays ==
  ASSUME tag' = tag, UnderWay' => UnderWay /\ UNCHANGED <<job, buffer>>,
         NEW k, Sent(k)
  PROVE  Sent(k)'
BY DEF Sent

-----------------------------------------------------------------------------
(* What does not touch a request, the driver staying where it is. *)
LEMMA Apart ==
  ASSUME Inv, UNCHANGED <<pc, port, connected, count, polls, chain, device, arrived, expired, stick, taken, before>>,
         behind' \in {behind, NoRequest}, async' \in {"off", "on", "stopping"}
  PROVE  Inv'
<1> USE DEF stick
<1>1. TypeInv' /\ ChainInv' /\ WatchInv' /\ PagesInv'
  BY DEF Inv, TypeInv, ChainInv, WatchInv, PagesInv
<1>2. \A k : Sent(k) <=> Sent(k)'
  BY DEF Sent, UnderWay
<1>3. CommandInv'
  BY <1>2 DEF Inv, CommandInv
<1>4. PairInv'
  BY DEF Inv, PairInv, Follows
<1>5. BufferInv'
  BY DEF Inv, BufferInv
<1>6. BehindInv'
  BY <1>2, NothingBehind DEF Inv, BehindInv, NoRequest
<1> QED BY <1>1, <1>3, <1>4, <1>5, <1>6 DEF Inv

(* The driver moves on without a request. *)
LEMMA Moves ==
  ASSUME Inv, UNCHANGED <<connected, polls, chain, behind, device, arrived, expired, stick, taken, before>>,
         async' \in {"off", "on", "stopping"}, count' \in Int, port' \in Nat,
         pc \notin Control \cup Bulk, pc' \in Places \ Bulk,
         pc' \in Control => pc = "probe" /\ port = connected /\ port' = port,
         pc' \in Starting \cup {"hang"} => pc \in Starting,
         pc' = "probe" /\ port' <= connected => pc \in Starting \/ (pc = "probe" /\ port <= connected)
  PROVE  Inv'
<1> USE DEF stick
<1>1. polls = 0 /\ polls' = 0
  BY DEF Inv, ChainInv
<1>2. TypeInv'
  BY DEF Inv, TypeInv
<1>3. ChainInv' /\ WatchInv'
  BY <1>1 DEF Inv, ChainInv, WatchInv
<1>4. PagesInv' /\ PairInv' /\ ~UnderWay'
  BY <1>1 DEF PagesInv, PairInv, UnderWay, Bulk
<1>5. CommandInv'
  BY <1>4, SentStays DEF Inv, CommandInv, Bulk
<1>6. BufferInv'
  <2>1. /\ \A i \in 1 .. Len(buffer) : buffer'[i] = buffer[i] /\ UNCHANGED <<buffer, job, result>>
        /\ \A i \in 1 .. Len(buffer) :
             /\ buffer[i] \in Packets
             /\ buffer[i].phase = "data" /\ buffer[i].command.good = 1
             /\ buffer[i].command.sector = job.sector + i - 1
        /\ result = 1 => Len(buffer) = job.count
    BY DEF Inv, BufferInv
  <2>2. pc' \in Starting \cup {"hang"} \cup Control \cup Bulk => result' = 0
    <3>1. pc' \notin Bulk
      OBVIOUS
    <3>2. CASE pc' \in Starting \cup {"hang"}
      BY <3>2 DEF Inv, BufferInv
    <3>3. CASE pc' \in Control
      <4>1. port \in Nat /\ port <= connected
        BY <3>3, Bounds DEF Inv, TypeInv
      <4> QED BY <3>3, <4>1 DEF Inv, BufferInv
    <3> QED BY <3>1, <3>2, <3>3
  <2>3. pc' = "probe" /\ port' <= connected => result' = 0
    BY DEF Inv, BufferInv
  <2> QED BY <2>1, <2>2, <2>3 DEF BufferInv
<1>7. BehindInv'
  <2>1. pc' # "csw" /\ UNCHANGED <<behind, chain, tag>>
    BY DEF Bulk
  <2>2. \A k : Sent(k) => Sent(k)'
    BY <1>4, <2>1, SentStays
  <2> QED BY <2>1, <2>2 DEF Inv, BehindInv, NoRequest
<1> QED BY <1>2, <1>3, <1>4, <1>5, <1>6, <1>7 DEF Inv

LEMMA HostMoves ==
  ASSUME Inv, CheckVersions \/ ReadCapability \/ Stop \/ TestPort \/ Probed \/ ResetEnds, Others
  PROVE  Inv'
<1> USE DEF Others, host, start
<1>1. /\ port \in Nat /\ port + 1 \in Nat /\ 1 \in Nat /\ count \in Int /\ count + 1 \in Int
      /\ connected \in Nat /\ async \in {"off", "on", "stopping"}
  BY Bounds DEF Inv, TypeInv
<1> USE DEF Places, Starting, Control, Bulk
<1>2. CASE CheckVersions
  BY <1>1, <1>2, Moves DEF CheckVersions
<1>3. CASE ReadCapability
  BY <1>1, <1>3, Moves DEF ReadCapability
<1>4. CASE Stop
  BY <1>1, <1>4, Moves DEF Stop
<1>5. CASE TestPort
  BY <1>1, <1>5, Moves DEF TestPort
<1>6. CASE Probed
  BY <1>1, <1>6, Moves DEF Probed
<1>7. CASE ResetEnds
  BY <1>1, <1>7, Moves DEF ResetEnds
<1> QED BY <1>2, <1>3, <1>4, <1>5, <1>6, <1>7

LEMMA PollsOn ==
  ASSUME Inv, PollAgain, Others
  PROVE  Inv'
<1> USE DEF Others, stick, start
<1>1. polls > 1 /\ polls' = polls - 1 /\ polls' > 0 /\ polls' \in 0 .. Polls /\ polls > 0
  BY Bounds DEF PollAgain, Inv, TypeInv
<1>2. /\ UNCHANGED <<pc, port, connected, count, chain, behind, device, arrived, expired, async>>
  BY DEF PollAgain
<1>3. TypeInv' /\ ChainInv' /\ WatchInv'
  BY <1>1, <1>2 DEF Inv, TypeInv, ChainInv, WatchInv
<1>4. PagesInv'
  BY <1>1, <1>2 DEF Inv, PagesInv
<1>5. \A k : Sent(k) <=> Sent(k)'
  BY <1>1, <1>2 DEF Sent, UnderWay
<1>6. CommandInv'
  BY <1>2, <1>5 DEF Inv, CommandInv
<1>7. PairInv'
  BY <1>1, <1>2 DEF Inv, PairInv, Follows
<1>8. BufferInv'
  BY <1>2 DEF Inv, BufferInv
<1>9. BehindInv'
  BY <1>2, <1>5 DEF Inv, BehindInv, NoRequest
<1> QED BY <1>3, <1>4, <1>6, <1>7, <1>8, <1>9 DEF Inv

-----------------------------------------------------------------------------
(* What a request that was not given up leaves to the controller is its empty packet. *)
LEMMA AtRest ==
  ASSUME Inv, polls = 0, expired = 0, NEW i \in Current(chain)
  PROVE  chain.kind = "out" /\ i # 1 /\ chain.td[1].state # "active"
<1>3. /\ i \in DOMAIN chain.td /\ chain.td[i].state = "active"
      /\ \A j \in 1 .. i - 1 : chain.td[j].state = "done"
  BY DEF Current
<1>4. chain.kind # None /\ chain.kind \in Control \cup Bulk
  BY <1>3 DEF Inv, TypeInv, ChainInv
<1>5. /\ Len(chain.td) \in Nat /\ Len(chain.td) >= 1 /\ DOMAIN chain.td = 1 .. Len(chain.td)
      /\ Watched(chain).state # "active"
  BY <1>4, WatchedIs DEF Inv, WatchInv
<1>6. chain.kind \notin Control
  <2> SUFFICES ASSUME chain.kind \in Control PROVE FALSE
    OBVIOUS
  <2>1. chain.td[Len(chain.td)].state # "active" /\ Len(chain.td) \in DOMAIN chain.td
    BY <1>4, <1>5, WatchedIs DEF Inv
  <2>2. \A j \in 1 .. Len(chain.td) - 1 : chain.td[j].state = "done"
    BY <2>1 DEF Inv, ChainInv
  <2> QED BY <1>3, <1>5, <2>1, <2>2
<1>7. chain.td[1].state # "active"
  BY <1>4, <1>5, <1>6, WatchedIs DEF Inv
<1>8. i # 1
  BY <1>3, <1>7
<1>9. Len(chain.td) > 1
  BY <1>3, <1>5, <1>8
<1>10. chain.kind = "out"
  BY <1>4, <1>6, <1>9 DEF Inv, ChainInv, Parts, Bulk
<1> QED BY <1>7, <1>8, <1>10

(* A request is offered: what is sent with it carries the tag that is new. *)
LEMMA Offers ==
  ASSUME Inv, OfferRequest
  PROVE  Inv'
<1> DEFINE load == [sector |-> job.sector + Len(buffer), tag |-> tag, good |-> 1]
<1> USE DEF start
<1>1. /\ pc \in Control \cup Bulk /\ polls = 0
      /\ chain' = [kind |-> pc, td |-> Descriptors(pc, load),
                   address |-> IF pc = "address" THEN 0 ELSE count - 1]
      /\ polls' = Polls /\ async' = "on" /\ arrived' = None /\ expired' = 0
      /\ UNCHANGED <<pc, port, connected, count, device, job, data, buffer, result, reads>>
      /\ tag' = (IF pc = "out" THEN tag + 1 ELSE tag)
      /\ before' = (IF pc = "out" THEN taken ELSE before)
      /\ taken' = taken + TakenFor(pc)
  BY DEF OfferRequest, Offer
<1>2. job.sector \in Nat /\ Len(buffer) \in Nat /\ tag \in Nat /\ count \in Int
  BY DEF Inv, TypeInv
<1>3. load \in CommandBlocks
  BY <1>2 DEF CommandBlocks
<1> HIDE DEF load
<1>4. LET td == Descriptors(pc, load)
      IN /\ td \in Seq(Tds)
         /\ Len(td) = Parts(pc)
         /\ \A i \in DOMAIN td :
              /\ td[i].state = "active"
              /\ td[i].load # None => pc = "out" /\ td[i].load = load
              /\ td[i].pid = "in" <=> pc \in {"in", "csw"}
         /\ pc = "in" => td[1].toggle = 0
         /\ pc = "csw" => td[1].toggle = 1
  BY <1>1, <1>3, Fresh
<1>5. /\ chain'.kind = pc /\ chain'.td = Descriptors(pc, load)
      /\ chain'.kind # None
      /\ pc \in {"in", "csw"} => 1 \in DOMAIN chain'.td
  BY <1>1, <1>4, NoneIsNothing DEF Parts
<1>6. TakenFor(pc) \in Int
  BY <1>1 DEF TakenFor, Control, Bulk
<1>7. TypeInv'
  BY <1>1, <1>2, <1>4, <1>6, Bounds DEF Inv, TypeInv
<1>8. ChainInv'
  BY <1>1, <1>4, <1>5, Bounds, NoneIsNothing DEF ChainInv
<1>9. WatchInv'
  BY <1>1, Bounds DEF WatchInv
<1>10. PagesInv'
  <2>1. polls' > 0 /\ taken \in Int /\ before \in Int
    BY <1>1, Bounds DEF Inv, TypeInv
  <2>2. TakenFor("out") = 5 /\ TakenFor("in") = 5 /\ TakenFor("csw") = 5
    BY DEF TakenFor
  <2>3. CASE pc = "out"
    BY <1>1, <2>1, <2>2, <2>3 DEF PagesInv
  <2>4. CASE pc \in {"in", "csw"}
    BY <1>1, <2>1, <2>2, <2>4 DEF Inv, PagesInv
  <2> QED BY <1>1, <2>3, <2>4 DEF PagesInv
<1>11. BufferInv'
  BY <1>1 DEF Inv, BufferInv
<1>12. PairInv'
  <2>1. polls' > 0
    BY <1>1, Bounds
  <2>2. pc = "csw" => Follows(data) /\ data \in Packets
    <3>1. pc = "csw" => Follows(data)
      BY <1>1 DEF Inv, PairInv
    <3> QED BY <3>1 DEF Follows
  <2>3. Follows(data) => Follows(data)'
    BY <1>1 DEF Follows
  <2>4. pc \in {"in", "csw"} => chain'.td[1].state = "active"
    BY <1>4, <1>5
  <2> QED BY <1>1, <2>1, <2>2, <2>3, <2>4 DEF PairInv
<1>13. \A k : Sent(k) => Sent(k)'
  <2>1. CASE pc = "out"
    BY <1>1, <1>2, <2>1 DEF Sent, CommandBlocks
  <2>2. CASE pc # "out"
    BY <1>1, <2>2 DEF Sent, UnderWay
  <2> QED BY <2>1, <2>2
<1>14. \A k : pc = "out" /\ k = load => Sent(k)'
  BY <1>1, <1>2, <1>3 DEF Sent, load
<1>15. CommandInv'
  BY <1>1, <1>4, <1>5, <1>13, <1>14 DEF Inv, CommandInv
<1>16. BehindInv'
  <2>1. behind' \in StaysBehind
    BY DEF OfferRequest, Offer
  <2>2. \A i \in DOMAIN chain'.td : chain'.td[i].state = "active"
    BY <1>4, <1>5
  <2>3. CASE behind' = NoRequest
    BY <2>3, NothingBehind DEF BehindInv, NoRequest
  <2>4. CASE behind # NoRequest /\ behind' = behind
    BY <1>1, <1>13, <2>2, <2>4 DEF Inv, BehindInv, NoRequest
  <2>5. CASE behind' = Previous /\ Current(chain) # {}
    <3>1. PICK i \in Current(chain) : TRUE
      BY <2>5
    <3>2. i \in DOMAIN chain.td /\ chain.td[i].state = "active"
      BY DEF Current
    <3>3. chain.kind # None
      BY <3>2 DEF Inv, ChainInv
    <3>4. pc # "csw"
      <4> SUFFICES ASSUME pc = "csw" PROVE FALSE
        OBVIOUS
      <4>1. chain.kind = "in" /\ chain.td[1].state = "done"
        BY <1>1 DEF Inv, PairInv
      <4>2. DOMAIN chain.td = 1 .. 1
        BY <3>3, <4>1, WatchedIs DEF Inv, ChainInv, Parts
      <4> QED BY <3>2, <4>1, <4>2
    <3>5. \A k : \A j \in DOMAIN chain.td : k = chain.td[j].load /\ k # None => Sent(k)'
      BY <1>13 DEF Inv, CommandInv
    <3>6. /\ behind'.kind = chain.kind /\ behind'.td = chain.td /\ behind'.expired = expired
          /\ behind' \in Requests
      BY <2>5 DEF Previous, Requests, Inv, TypeInv
    <3>7. expired = 0 => chain.kind = "out" /\ chain.td[1].state # "active"
      BY <1>1, AtRest
    <3>8. \A j \in DOMAIN behind'.td : behind'.td[j].load # None => Sent(behind.td[j].load)'
      BY <3>5, <3>6
    <3> QED BY <1>1, <2>2, <3>3, <3>4, <3>6, <3>7, <3>8 DEF BehindInv, NoRequest
  <2> QED BY <2>1, <2>3, <2>4, <2>5 DEF StaysBehind
<1> QED BY <1>7, <1>8, <1>9, <1>10, <1>11, <1>12, <1>15, <1>16 DEF Inv

-----------------------------------------------------------------------------
(* The end of a request.  Whatever the driver does next, what was sent is sent, and *)
(* what was polled is at rest unless the request was given up.                      *)
LEMMA Ends ==
  ASSUME Inv, GiveBack, polls > 0, tag' = tag, pc' \in Places, TypeInv', BufferInv', PagesInv',
         pc' \in {"in", "csw"} => pc \in Bulk /\ UNCHANGED <<job, buffer>>,
         pc' = "csw" => pc = "in" /\ Watched(chain).state = "done" /\ data' = arrived
  PROVE  Inv'
<1> USE DEF start
<1>1. polls' = 0 /\ UNCHANGED <<connected, count, chain, behind, arrived, device>>
  BY DEF GiveBack
<1>2. pc \in Control \cup Bulk /\ chain.kind = pc /\ chain.kind # None
  BY Requested DEF Inv
<1>3. ChainInv'
  BY <1>1 DEF Inv, ChainInv
<1>4. WatchInv'
  <2>1. Watched(chain)' = Watched(chain)
    BY <1>1 DEF Watched
  <2> QED BY <2>1 DEF GiveBack, WatchInv
<1>5. UnderWay' => UnderWay /\ UNCHANGED <<job, buffer>>
  BY <1>1, <1>2 DEF UnderWay, Bulk
<1>6. \A k : Sent(k) => Sent(k)'
  BY <1>5, SentStays
<1>7. pc' = "csw" => Follows(arrived) /\ chain.kind = "in" /\ chain.td[1].state = "done"
  <2>1. pc = "in" => Watched(chain) = chain.td[1]
    BY <1>2, WatchedIs DEF Inv, Bulk
  <2> QED BY <1>2, <2>1 DEF Inv, PairInv
<1>8. CommandInv'
  <2>1. pc' = "csw" => arrived # None
    BY <1>7, NoneIsNothing DEF Follows
  <2> QED BY <1>1, <1>6, <2>1 DEF Inv, CommandInv
<1>9. PairInv'
  <2>1. Follows(arrived) /\ data' = arrived => Follows(data)'
    BY <1>1 DEF Follows
  <2> QED BY <1>1, <1>7, <2>1 DEF PairInv
<1>10. BehindInv'
  <2>1. pc' = "csw" => 1 \in DOMAIN chain.td /\ chain.td[1].state # "active"
    BY <1>2, <1>7, WatchedIs DEF Inv
  <2>2. behind # NoRequest => pc' # "csw"
    BY <2>1 DEF Inv, BehindInv
  <2> QED BY <1>1, <1>6, <2>2 DEF Inv, BehindInv, NoRequest
<1> QED BY <1>3, <1>4, <1>8, <1>9, <1>10 DEF Inv

LEMMA EndTypes ==
  ASSUME Inv, GiveBack, pc' \in Places, port' \in Nat, tag' \in Nat,
         job' \in [sector : Nat, count : Nat, install : {0, 1}],
         data' \in Packets \cup {None}, buffer' \in Seq(Packets \cup {None}), result' \in {0, 1}, reads' = reads,
         taken' \in Int, before' = before
  PROVE  TypeInv'
BY Bounds DEF Inv, TypeInv, GiveBack

(* The end of a request of the set-up. *)
LEMMA ControlEnded ==
  ASSUME Inv, ControlEnds
  PROVE  Inv'
<1> USE DEF stick, start, GiveBack, Freed
<1>1. polls > 0 /\ GiveBack /\ UNCHANGED <<stick, before>>
  BY Bounds DEF ControlEnds, Answered, Configured, Refused, Done, Failed
<1>2. pc \in Control /\ result = 0 /\ port = connected
  BY DEF Inv, BufferInv, ControlEnds, Answered, Configured, Refused, AfterControl, Control
<1>3. \/ pc' = "probe" /\ port' = port + 1
      \/ pc' \in Control /\ port' = port
  BY DEF ControlEnds, Answered, Configured, Refused, AfterControl, Control, NextPort
<1>4. taken' \in Int
  <2>1. taken \in Int /\ FreedAfter(pc) \in Int
    BY <1>2 DEF Inv, TypeInv, FreedAfter, Control
  <2> QED BY <2>1 DEF ControlEnds
<1>5. port \in Nat /\ port + 1 > connected
  BY <1>2, Bounds DEF Inv, TypeInv
<1>6. TypeInv'
  <2>1. pc' \in Places /\ port' \in Nat
    BY <1>3, <1>5 DEF Places
  <2> QED BY <1>1, <1>4, <2>1, EndTypes DEF Inv, TypeInv
<1>7. BufferInv'
  BY <1>1, <1>2, <1>3, <1>5 DEF Inv, BufferInv, Control, Bulk, Starting
<1>8. PagesInv'
  BY <1>3 DEF PagesInv, Control
<1> QED BY <1>1, <1>3, <1>6, <1>7, <1>8, Ends DEF Places, Control

(* Where the end of a bulk request leads, and the pages that it gives back. *)
LEMMA BulkEnds ==
  ASSUME Inv, polls > 0, pc \in Bulk
  PROVE  /\ result = 0 /\ (job.install = 1 => port = connected)
         /\ port \in Nat /\ connected \in Nat /\ taken \in Int /\ before \in Int
         /\ FreedAfter(pc) = 3
         /\ taken - before = IF pc = "out" THEN 5 ELSE IF pc = "in" THEN 7 ELSE 9
         /\ chain.kind = pc /\ Watched(chain) = chain.td[1]
BY Requested, WatchedIs, Bounds DEF Inv, TypeInv, BufferInv, PagesInv, FreedAfter, Bulk

LEMMA Installs ==
  ASSUME Inv, Install
  PROVE  Inv'
<1> USE DEF Install, GiveBack
<1>1. polls > 0 /\ pc = "lun" /\ pc' = "out" /\ polls' = 0 /\ buffer' = <<>> /\ job'.count = 1 /\ port' = port
  BY Bounds DEF Done
<1>2. result = 0 /\ port = connected
  BY <1>1 DEF Inv, BufferInv, Control
<1>3. FreedAfter("lun") \in Int
  BY DEF FreedAfter
<1>4. TypeInv'
  <2>1. job' \in [sector : Nat, count : Nat, install : {0, 1}] /\ buffer' \in Seq(Packets \cup {None})
    OBVIOUS
  <2> QED BY <1>1, <1>3, <2>1, EndTypes DEF Inv, TypeInv, Places, Bulk
<1>5. BufferInv'
  <2>1. Len(buffer') = 0 /\ UNCHANGED <<connected, result>>
    BY <1>1 DEF start
  <2> QED BY <1>1, <1>2, <2>1 DEF BufferInv, Control, Starting
<1>6. PagesInv'
  BY <1>1 DEF PagesInv
<1> QED BY <1>1, <1>4, <1>5, <1>6, Ends DEF Places, Bulk

LEMMA CommandGoes ==
  ASSUME Inv, CommandSent
  PROVE  Inv'
<1> USE DEF CommandSent, GiveBack, stick, Freed
<1>1. polls > 0 /\ pc = "out" /\ pc' = "in" /\ polls' = 0 /\ UNCHANGED <<port, stick, before>>
  BY Bounds DEF Done
<1>2. FreedAfter("out") = 3 /\ taken - before = 5 /\ taken \in Int /\ before \in Int
  BY <1>1, BulkEnds DEF Bulk
<1>3. TypeInv'
  BY <1>1, <1>2, EndTypes DEF Inv, TypeInv, Places, Bulk
<1>4. BufferInv'
  BY <1>1 DEF Inv, BufferInv, Bulk, Control, Starting
<1>5. PagesInv'
  BY <1>1, <1>2 DEF PagesInv
<1> QED BY <1>1, <1>3, <1>4, <1>5, Ends DEF Places, Bulk

LEMMA DataComes ==
  ASSUME Inv, DataReceived
  PROVE  Inv'
<1> USE DEF DataReceived, GiveBack, Freed
<1>1. /\ polls > 0 /\ pc = "in" /\ pc' = "csw" /\ polls' = 0 /\ data' = arrived
      /\ UNCHANGED <<port, tag, job, buffer, result, reads, before>>
  BY Bounds DEF Done
<1>2. FreedAfter("in") = 3 /\ taken - before = 7 /\ taken \in Int /\ before \in Int
  BY <1>1, BulkEnds DEF Bulk
<1>3. TypeInv'
  BY <1>1, <1>2, EndTypes DEF Inv, TypeInv, Places, Bulk
<1>4. BufferInv'
  BY <1>1 DEF Inv, BufferInv, Bulk, Control, Starting
<1>5. PagesInv'
  BY <1>1, <1>2 DEF PagesInv
<1>6. Watched(chain).state = "done"
  BY DEF Done
<1> QED BY <1>1, <1>3, <1>4, <1>5, <1>6, Ends DEF Places, Bulk

(* A read that ends without success. *)
LEMMA ReadFails ==
  ASSUME Inv, RequestFails \/ StatusInvalid
  PROVE  Inv'
<1> USE DEF RequestFails, StatusInvalid, GiveBack, Freed
<1>1. /\ polls > 0 /\ pc \in Bulk /\ polls' = 0 /\ result' = 0 /\ Return
      /\ taken' = taken - FreedAfter(pc) - 1
      /\ UNCHANGED <<tag, job, data, buffer, reads, before, connected>>
  BY Bounds DEF Done, Failed, Bulk, start
<1>2. /\ FreedAfter(pc) = 3 /\ taken \in Int /\ port \in Nat /\ connected \in Nat
      /\ job.install = 1 => port = connected
  BY <1>1, BulkEnds
<1>3. \/ pc' = "probe" /\ port' = port + 1 /\ job.install = 1
      \/ pc' = "ready" /\ port' = port
  BY <1>1 DEF Return, NextPort
<1>4. TypeInv'
  BY <1>1, <1>2, <1>3, EndTypes DEF Inv, TypeInv, Places
<1>5. BufferInv'
  BY <1>1, <1>2, <1>3 DEF Inv, BufferInv, Bulk, Control, Starting
<1>6. PagesInv'
  BY <1>3 DEF PagesInv
<1> QED BY <1>1, <1>3, <1>4, <1>5, <1>6, Ends DEF Places

(* A sector is copied: the status belongs to the command of the packet that came before *)
(* it, and its tag to the sector that is asked for.                                     *)
LEMMA Copies ==
  ASSUME Inv, SectorRead
  PROVE  Inv'
<1> USE DEF SectorRead, GiveBack, Freed
<1>1. /\ polls > 0 /\ pc = "csw" /\ polls' = 0
      /\ buffer' = Append(buffer, data)
      /\ taken' = taken - FreedAfter("csw") - 2
      /\ UNCHANGED <<tag, job, data, reads, before, connected>>
  BY Bounds DEF Done, start
<1>2. /\ FreedAfter("csw") = 3 /\ taken \in Int /\ port \in Nat /\ connected \in Nat /\ result = 0
      /\ job.install = 1 => port = connected
      /\ chain.td[1].state = "done"
  BY <1>1, BulkEnds DEF Bulk, Done
<1>3. \/ pc' = "out" /\ UNCHANGED <<port, result>> /\ Len(buffer') < job.count
      \/ /\ result' = 1 /\ ~(Len(buffer') < job.count)
         /\ \/ pc' = "probe" /\ port' = port + 1 /\ job.install = 1
            \/ pc' = "ready" /\ port' = port
  BY DEF Return, NextPort
<1>4. /\ data \in Packets /\ data.phase = "data"
      /\ arrived.command = data.command
      /\ Sent(data.command)
  BY <1>1, <1>2 DEF Inv, PairInv, CommandInv
<1>5. data.command.good = 1 /\ data.command.sector = job.sector + Len(buffer)
  BY <1>1, <1>4 DEF Valid, Sent, UnderWay
<1>6. /\ buffer \in Seq(Packets \cup {None}) /\ Len(buffer) \in Nat
      /\ Len(buffer') = Len(buffer) + 1
      /\ \A i \in 1 .. Len(buffer) : buffer'[i] = buffer[i]
      /\ buffer'[Len(buffer) + 1] = data
      /\ buffer' \in Seq(Packets \cup {None})
  BY <1>1, <1>4 DEF Inv, TypeInv
<1>7. TypeInv'
  <2>1. pc' \in Places /\ port' \in Nat /\ result' \in {0, 1}
    BY <1>2, <1>3 DEF Places, Bulk
  <2>2. tag' \in Nat /\ job' \in [sector : Nat, count : Nat, install : {0, 1}]
    BY <1>1 DEF Inv, TypeInv
  <2>3. data' \in Packets \cup {None} /\ buffer' \in Seq(Packets \cup {None}) /\ reads' = reads
    BY <1>1, <1>6 DEF Inv, TypeInv
  <2>4. taken' \in Int /\ before' = before
    BY <1>1, <1>2
  <2>5. GiveBack
    OBVIOUS
  <2> HIDE DEF SectorRead, GiveBack, Freed
  <2> QED BY <2>1, <2>2, <2>3, <2>4, <2>5, EndTypes
<1>8. BufferInv'
  <2>1. Len(buffer) < job.count /\ job.count \in Nat /\ job.sector \in Nat
    BY <1>1 DEF Inv, TypeInv, BufferInv, Bulk
  <2>2. ASSUME NEW i \in 1 .. Len(buffer')
        PROVE  /\ buffer'[i] \in Packets
               /\ buffer'[i].phase = "data" /\ buffer'[i].command.good = 1
               /\ buffer'[i].command.sector = job'.sector + i - 1
    <3>1. CASE i \in 1 .. Len(buffer)
      BY <1>1, <1>6, <3>1 DEF Inv, BufferInv
    <3>2. CASE i = Len(buffer) + 1
      BY <1>1, <1>4, <1>5, <1>6, <2>1, <3>2
    <3> QED BY <1>6, <2>2, <3>1, <3>2
  <2>3. result' = 1 => Len(buffer') = job'.count
    BY <1>1, <1>2, <1>3, <1>6, <2>1
  <2>4. /\ pc' \in Starting \cup {"hang"} \cup Control \cup Bulk => result' = 0
        /\ pc' = "probe" /\ port' <= connected' => result' = 0
        /\ pc' \in Control => port' = connected'
        /\ pc' \in Bulk => Len(buffer') < job'.count /\ (job'.install = 1 => port' = connected')
    BY <1>1, <1>2, <1>3 DEF Starting, Control, Bulk
  <2> QED BY <2>2, <2>3, <2>4 DEF BufferInv
<1>9. PagesInv'
  BY <1>1, <1>3 DEF PagesInv
<1> QED BY <1>1, <1>3, <1>7, <1>8, <1>9, Ends DEF Places, Bulk

LEMMA ReadBegins ==
  ASSUME Inv, NEW s \in Sectors, NEW n \in 1 .. MaxCount, Read(s, n)
  PROVE  Inv'
<1> USE DEF start, host
<1>1. /\ pc = "ready" /\ pc' = "out" /\ reads' = reads + 1
      /\ job' = [sector |-> s, count |-> n, install |-> 0] /\ buffer' = <<>> /\ result' = 0
      /\ UNCHANGED <<port, connected, count, chain, behind, polls, async, arrived, expired, device, tag, data,
                      taken, before>>
  BY DEF Read
<1>2. polls = 0 /\ s \in Nat /\ n \in Nat /\ n > 0
  BY <1>1, ReadAssumption DEF Inv, ChainInv, Control, Bulk
<1>3. TypeInv'
  BY <1>1, <1>2 DEF Inv, TypeInv, Places, Bulk
<1>4. ChainInv' /\ WatchInv' /\ PagesInv' /\ PairInv'
  BY <1>1, <1>2 DEF Inv, ChainInv, WatchInv, PagesInv, PairInv, Bulk, Control
<1>5. BufferInv'
  BY <1>1, <1>2 DEF BufferInv, Control, Starting
<1>6. CommandInv'
  BY <1>1, <1>2, SentStays DEF Inv, CommandInv, UnderWay
<1>7. BehindInv'
  <2>1. \A k : Sent(k) => Sent(k)'
    BY <1>1, <1>2, SentStays DEF UnderWay
  <2> QED BY <1>1, <2>1 DEF Inv, BehindInv, NoRequest
<1> QED BY <1>3, <1>4, <1>5, <1>6, <1>7 DEF Inv

-----------------------------------------------------------------------------
(* What the device does with a descriptor: the commands that it holds were sent. *)
LEMMA DeviceTakes ==
  ASSUME Inv, NEW c, NEW td \in Tds, td.load # None => Sent(td.load), NEW o \in Outcomes(c, td, device)
  PROVE  /\ o.state \in {"active", "done", "error"}
         /\ o.device \in DeviceStates
         /\ o.device.phase # "cbw" => Sent(o.device.command)
         /\ o.device.next # None => Sent(o.device.next)
         /\ o.packet # None => o.packet \in Packets /\ Sent(o.packet.command)
<1>7. device \in DeviceStates /\ count \in Int
  BY DEF Inv, TypeInv
<1>8. /\ device.phase # "cbw" => Sent(device.command)
      /\ device.next # None => Sent(device.next)
      /\ td.load # None => Sent(td.load)
  BY DEF Inv, CommandInv
<1>10. \A k, g : Sent(k) /\ g \in {0, 1} => Sent([k EXCEPT !.good = g])
  BY DEF Sent, CommandBlocks
<1>11. td.pid = "in" =>
         \/ o.state = "error" /\ o.device = device /\ o.packet = None
         \/ /\ o.state = "active" /\ o.packet = None
            /\ device.phase # "cbw" /\ td.toggle # device.in
            /\ o.device = Advance(device)
         \/ /\ o.state = "done" /\ o.packet = [phase |-> device.phase, command |-> device.command]
            /\ device.phase # "cbw" /\ td.toggle = device.in
            /\ ~(c.kind = "csw" /\ device.phase = "data")
            /\ o.device = device \/ o.device = Advance(device)
  BY <1>7, <1>8, InEffect DEF Sent
<1>12. device.phase # "cbw" =>
         /\ Advance(device) \in DeviceStates
         /\ Advance(device).phase # "cbw" => Sent(Advance(device).command)
         /\ Advance(device).next # None => Sent(Advance(device).next)
  <2> SUFFICES ASSUME device.phase # "cbw" PROVE
         /\ Advance(device) \in DeviceStates
         /\ Advance(device).phase # "cbw" => Sent(Advance(device).command)
         /\ Advance(device).next # None => Sent(Advance(device).next)
    OBVIOUS
  <2>1. device.phase \in {"data", "csw"}
    BY <1>7 DEF DeviceStates
  <2> QED BY <1>7, <1>8, <2>1, AdvanceEffect
<1>13. /\ o.state \in {"active", "done", "error"}
       /\ o.device \in DeviceStates
       /\ o.device.phase # "cbw" => Sent(o.device.command)
       /\ o.device.next # None => Sent(o.device.next)
       /\ o.packet # None => o.packet \in Packets /\ Sent(o.packet.command)
  <2>1. CASE td.pid = "in"
    <3>1. /\ o.state \in {"active", "done", "error"}
          /\ o.device = device \/ (device.phase # "cbw" /\ o.device = Advance(device))
          /\ o.packet # None => /\ o.packet = [phase |-> device.phase, command |-> device.command]
                                /\ device.phase # "cbw"
      BY <1>11, <2>1
    <3>2. device.phase # "cbw" =>
             /\ [phase |-> device.phase, command |-> device.command] \in Packets
             /\ Sent(device.command)
      BY <1>7, <1>8 DEF Packets, DeviceStates, Sent
    <3> QED BY <1>7, <1>8, <1>12, <3>1, <3>2
  <2>2. CASE td.pid = "out"
    <3>1. /\ o.state \in {"active", "done", "error"} /\ o.packet = None
          /\ o.device \in DeviceStates
          /\ \/ o.device.phase = device.phase /\ o.device.command = device.command
             \/ /\ td.load # None
                /\ o.device.phase = "data"
                /\ \E g \in {0, 1} : o.device.command = [td.load EXCEPT !.good = g]
          /\ \/ o.device.next = device.next
             \/ td.load # None /\ \E g \in {0, 1} : o.device.next = [td.load EXCEPT !.good = g]
      BY <1>7, <2>2, OutEffect
    <3>2. o.device.phase # "cbw" => Sent(o.device.command)
      BY <1>8, <1>10, <3>1
    <3>3. o.device.next # None => Sent(o.device.next)
      BY <1>8, <1>10, <3>1
    <3> QED BY <3>1, <3>2, <3>3
  <2>3. CASE td.pid \notin {"in", "out"}
    <3>1. /\ o.state \in {"active", "done", "error"} /\ o.packet = None
          /\ o.device \in DeviceStates
          /\ o.device.phase = device.phase /\ o.device.command = device.command /\ o.device.next = device.next
      BY <1>7, <2>3, ControlEffect
    <3> QED BY <1>8, <3>1
  <2> QED BY <2>1, <2>2, <2>3
<1> QED BY <1>13

(* The controller and the device do one descriptor. *)
LEMMA Transacts ==
  ASSUME Inv, Transact, Others
  PROVE  Inv'
<1> USE DEF Others, stick, start
<1>1. PICK i \in Current(chain) : \E o \in Outcomes(chain, chain.td[i], device) :
               /\ chain' = [chain EXCEPT !.td[i].state = o.state]
               /\ device' = o.device
               /\ arrived' = IF o.packet = None THEN arrived ELSE o.packet
  BY DEF Transact
<1>2. PICK o \in Outcomes(chain, chain.td[i], device) :
               /\ chain' = [chain EXCEPT !.td[i].state = o.state]
               /\ device' = o.device
               /\ arrived' = IF o.packet = None THEN arrived ELSE o.packet
  BY <1>1
<1> DEFINE td == chain.td[i]
<1>3. UNCHANGED <<pc, port, connected, count, polls, async, expired, tag, job, data, buffer, result, reads, taken, before>>
  BY DEF Transact
<1>4. /\ i \in DOMAIN chain.td /\ td.state = "active"
      /\ \A j \in 1 .. i - 1 : chain.td[j].state = "done"
  BY DEF Current
<1>5. chain.kind # None
  BY <1>4 DEF Inv, ChainInv
<1>6. /\ Len(chain.td) \in Nat /\ DOMAIN chain.td = 1 .. Len(chain.td) /\ chain.td \in Seq(Tds)
      /\ \A j \in DOMAIN chain.td : chain.td[j] \in Tds
      /\ chain \in [kind : Control \cup Bulk \cup {None}, address : Int, td : Seq(Tds)]
  BY <1>5, WatchedIs DEF Inv, TypeInv
<1>7. device \in DeviceStates /\ td \in Tds /\ count \in Int
  BY <1>4, <1>6 DEF Inv, TypeInv
<1>8. /\ device.phase # "cbw" => Sent(device.command)
      /\ device.next # None => Sent(device.next)
      /\ td.load # None => Sent(td.load)
  BY <1>4 DEF Inv, CommandInv
<1>9. \A k : Sent(k) <=> Sent(k)'
  BY <1>3 DEF Sent, UnderWay
<1>11. td.pid = "in" =>
         \/ o.state = "error" /\ o.device = device /\ o.packet = None
         \/ /\ o.state = "active" /\ o.packet = None
            /\ device.phase # "cbw" /\ td.toggle # device.in
            /\ o.device = Advance(device)
         \/ /\ o.state = "done" /\ o.packet = [phase |-> device.phase, command |-> device.command]
            /\ device.phase # "cbw" /\ td.toggle = device.in
            /\ ~(chain.kind = "csw" /\ device.phase = "data")
            /\ o.device = device \/ o.device = Advance(device)
  BY <1>7, <1>8, InEffect DEF Sent
<1>13. /\ o.state \in {"active", "done", "error"}
       /\ device' \in DeviceStates
       /\ device'.phase # "cbw" => Sent(device'.command)
       /\ device'.next # None => Sent(device'.next)
       /\ o.packet # None => o.packet \in Packets /\ Sent(o.packet.command)
  BY <1>2, <1>7, <1>8, DeviceTakes
<1>14. /\ chain'.kind = chain.kind /\ chain'.address = chain.address
       /\ chain'.td = [chain.td EXCEPT ![i] = [td EXCEPT !.state = o.state]]
       /\ chain' \in [kind : Control \cup Bulk \cup {None}, address : Int, td : Seq(Tds)]
  <2>1. [td EXCEPT !.state = o.state] \in Tds
    BY <1>7, <1>13 DEF Tds
  <2>2. chain' = [chain EXCEPT !.td = [chain.td EXCEPT ![i] = [td EXCEPT !.state = o.state]]]
    BY <1>2
  <2>3. [chain.td EXCEPT ![i] = [td EXCEPT !.state = o.state]] \in Seq(Tds)
    BY <1>4, <1>6, <2>1
  <2> QED BY <1>6, <2>2, <2>3
<1>15. /\ Len(chain'.td) = Len(chain.td) /\ DOMAIN chain'.td = DOMAIN chain.td
       /\ \A j \in DOMAIN chain.td : /\ j # i => chain'.td[j] = chain.td[j]
                                     /\ chain'.td[j].pid = chain.td[j].pid
                                     /\ chain'.td[j].toggle = chain.td[j].toggle
                                     /\ chain'.td[j].load = chain.td[j].load
       /\ chain'.td[i].state = o.state
  BY <1>4, <1>6, <1>7, <1>14 DEF Tds
<1>16. arrived' \in Packets \cup {None}
  BY <1>2, <1>13 DEF Inv, TypeInv
<1>17. TypeInv'
  BY <1>3, <1>13, <1>14, <1>16 DEF Inv, TypeInv
<1>18. ChainInv'
  <2>1. ASSUME NEW k \in DOMAIN chain.td, chain'.td[k].state # "active"
        PROVE  \A j \in 1 .. k - 1 : chain'.td[j].state = "done"
    <3>1. CASE k = i
      BY <1>4, <1>6, <1>15, <3>1
    <3>2. CASE k # i
      <4>1. \A j \in 1 .. k - 1 : chain.td[j].state = "done"
        BY <1>15, <2>1, <3>2 DEF Inv, ChainInv
      <4>2. i \notin 1 .. k - 1
        BY <1>4, <4>1
      <4> QED BY <1>6, <1>15, <4>1, <4>2
    <3> QED BY <3>1, <3>2
  <2>2. 1 \in DOMAIN chain.td
    BY <1>4, <1>6
  <2> QED BY <1>3, <1>5, <1>14, <1>15, <2>1, <2>2 DEF Inv, ChainInv
<1>19. WatchInv'
  <2> SUFFICES ASSUME polls = 0, expired = 0 PROVE Watched(chain)'.state # "active"
    BY <1>3 DEF WatchInv
  <2>1. Watched(chain).state # "active"
    BY <1>5 DEF Inv, WatchInv
  <2>2. CASE chain.kind \in Bulk
    <3>1. Watched(chain) = chain.td[1] /\ Watched(chain)' = chain'.td[1]
      BY <1>14, <2>2 DEF Watched, Bulk, Control
    <3>2. i # 1 /\ 1 \in DOMAIN chain.td
      BY <1>4, <1>6, <2>1, <3>1
    <3> QED BY <1>15, <2>1, <3>1, <3>2
  <2>3. CASE chain.kind \in Control
    <3>1. Watched(chain) = chain.td[Len(chain.td)] /\ Watched(chain)' = chain'.td[Len(chain'.td)]
      BY <1>14, <2>3 DEF Watched
    <3>2. i # Len(chain.td) /\ Len(chain.td) \in DOMAIN chain.td
      BY <1>4, <1>6, <2>1, <3>1
    <3> QED BY <1>15, <2>1, <3>1, <3>2
  <2> QED BY <1>5, <1>6, <2>2, <2>3
<1>20. CommandInv'
  <2>1. \A j \in DOMAIN chain'.td : chain'.td[j].load # None => Sent(chain'.td[j].load)
    BY <1>15 DEF Inv, CommandInv
  <2>2. arrived' # None => Sent(arrived'.command)
    BY <1>2, <1>13 DEF Inv, CommandInv
  <2>3. pc' = "csw" => Sent(data'.command)
    BY <1>3 DEF Inv, CommandInv
  <2> QED BY <1>9, <1>13, <2>1, <2>2, <2>3 DEF CommandInv
<1>21. BufferInv' /\ PagesInv'
  BY <1>3 DEF Inv, BufferInv, PagesInv
<1>22. PairInv'
  <2>1. chain.kind \in {"in", "csw"} => i = 1 /\ td.pid = "in" /\ td.toggle = IF chain.kind = "in" THEN 0 ELSE 1
    BY <1>4, <1>6 DEF Inv, ChainInv, Parts
  <2>2. device.in \in {0, 1} /\ device.phase \in {"cbw", "data", "csw"}
    BY <1>7 DEF DeviceStates
  <2>3. device.phase # "cbw" =>
          /\ Advance(device).in = 1 - device.in
          /\ device.phase = "data" => Advance(device).phase = "csw" /\ Advance(device).command = device.command
          /\ device.phase = "csw" => Advance(device).phase # "csw"
    BY <1>7, <2>2, AdvanceEffect
  <2>4. ASSUME pc = "in", polls > 0, o.state = "done" PROVE Follows(arrived)'
    <3>1. chain.kind = "in"
      BY <2>4 DEF Inv, ChainInv
    <3>2. /\ o.packet = [phase |-> device.phase, command |-> device.command]
          /\ device.phase # "cbw" /\ device.in = 0
          /\ device' = device \/ device' = Advance(device)
      BY <1>2, <1>11, <2>1, <2>4, <3>1
    <3>3. o.packet # None /\ o.packet \in Packets
      <4>1. [phase |-> device.phase, command |-> device.command] \in Packets
        BY <1>8, <2>2, <3>2 DEF Packets, Sent
      <4> QED BY <3>2, <4>1, NoneIsNothing
    <3>4. /\ arrived' \in Packets /\ arrived'.phase = device.phase /\ arrived'.command = device.command
      BY <1>2, <3>2, <3>3
    <3> QED BY <2>2, <2>3, <3>2, <3>4 DEF Follows
  <2>5. pc = "csw" => polls > 0
    BY <1>4, <2>1, Bounds DEF Inv, TypeInv, PairInv
  <2>6. ASSUME pc = "csw", polls > 0
        PROVE  /\ data \in Packets
               /\ o.state = "active" => Follows(data)'
               /\ o.state = "done" =>
                    /\ data.phase = "data"
                    /\ arrived' \in Packets /\ arrived'.phase = "csw" /\ arrived'.command = data.command
    <3>1. chain.kind = "csw" /\ i = 1 /\ td.pid = "in" /\ td.toggle = 1
      BY <2>1, <2>6 DEF Inv, ChainInv
    <3>2. data \in Packets /\ data.phase \in {"data", "csw"} /\ Follows(data)
      BY <1>4, <2>6, <3>1 DEF Inv, PairInv, Packets
    <3>3. CASE o.state = "active"
      <4>1. device.phase # "cbw" /\ device.in = 0 /\ device' = Advance(device)
        BY <1>2, <1>11, <2>2, <3>1, <3>3
      <4>2. device.phase = data.phase /\ device.command = data.command
        BY <3>2, <4>1 DEF Follows
      <4> QED BY <1>3, <2>3, <3>2, <3>3, <4>1, <4>2 DEF Follows
    <3>4. CASE o.state = "done"
      <4>1. /\ o.packet = [phase |-> device.phase, command |-> device.command]
            /\ device.phase = "csw" /\ device.in = 1
        BY <1>11, <2>2, <3>1, <3>4
      <4>2. data.phase = "data" /\ device.command = data.command
        BY <3>2, <4>1 DEF Follows
      <4>3. o.packet \in Packets /\ o.packet # None
        <5>1. [phase |-> device.phase, command |-> device.command] \in Packets
          BY <1>8, <4>1 DEF Packets, Sent
        <5> QED BY <4>1, <5>1, NoneIsNothing
      <4> QED BY <1>2, <3>2, <3>4, <4>1, <4>2, <4>3
    <3>5. CASE o.state = "error"
      BY <3>2, <3>5
    <3> QED BY <1>13, <3>3, <3>4, <3>5
  <2>7. pc \in {"in", "csw"} /\ polls > 0 => chain'.td[1].state = o.state
    BY <1>15, <2>1 DEF Inv, ChainInv
  <2> QED BY <1>3, <2>4, <2>5, <2>6, <2>7 DEF PairInv
<1>23. BehindInv'
  BY NothingBehind DEF Transact, BehindInv, NoRequest
<1> QED BY <1>17, <1>18, <1>19, <1>20, <1>21, <1>22, <1>23 DEF Inv

(* The controller and the device do one descriptor of a request that was given back. *)
LEMMA TransactsBehind ==
  ASSUME Inv, TransactBehind, Others
  PROVE  Inv'
<1> USE DEF Others, stick, start
<1>1. PICK i \in Current(behind) : \E o \in Outcomes(behind, behind.td[i], device) :
               /\ behind' = [behind EXCEPT !.td[i].state = o.state]
               /\ device' = o.device
  BY DEF TransactBehind
<1>2. PICK o \in Outcomes(behind, behind.td[i], device) :
               /\ behind' = [behind EXCEPT !.td[i].state = o.state]
               /\ device' = o.device
  BY <1>1
<1>3. UNCHANGED <<pc, port, connected, count, chain, polls, async, arrived, expired, tag, job, data, buffer,
                  result, reads, taken, before>>
  BY DEF TransactBehind
<1>4. i \in DOMAIN behind.td /\ behind.td[i].state = "active"
  BY DEF Current
<1>5. /\ behind # NoRequest /\ behind.kind # None
      /\ behind \in Requests /\ behind.td \in Seq(Tds) /\ behind.td[i] \in Tds
  <2>1. behind # NoRequest
    BY <1>4 DEF NoRequest
  <2>2. behind \in Requests
    BY DEF Inv, BehindInv
  <2>3. behind.td \in Seq(Tds)
    BY <2>2 DEF Requests
  <2> QED BY <1>4, <2>1, <2>2, <2>3 DEF Inv, BehindInv
<1>6. \A k : Sent(k) <=> Sent(k)'
  BY <1>3 DEF Sent, UnderWay
<1>7. /\ o.state \in {"active", "done", "error"}
      /\ device' \in DeviceStates
      /\ device'.phase # "cbw" => Sent(device'.command)
      /\ device'.next # None => Sent(device'.next)
  <2>1. behind.td[i].load # None => Sent(behind.td[i].load)
    BY <1>4, <1>5 DEF Inv, BehindInv
  <2> QED BY <1>2, <1>5, <2>1, DeviceTakes
<1>8. TypeInv'
  BY <1>3, <1>7 DEF Inv, TypeInv
<1>9. ChainInv' /\ WatchInv' /\ BufferInv' /\ PagesInv'
  BY <1>3 DEF Inv, ChainInv, WatchInv, BufferInv, PagesInv
<1>10. CommandInv'
  BY <1>3, <1>6, <1>7 DEF Inv, CommandInv
<1>11. PairInv'
  <2>1. pc # "csw" /\ \A j \in DOMAIN chain.td : chain.td[j].state = "active"
    BY <1>5 DEF Inv, BehindInv
  <2>2. pc = "in" /\ polls > 0 => 1 \in DOMAIN chain.td
    <3> SUFFICES ASSUME pc = "in", polls > 0 PROVE 1 \in DOMAIN chain.td
      OBVIOUS
    <3>1. chain.kind # None
      BY Requested DEF Inv
    <3> QED BY <3>1, WatchedIs DEF Inv
  <2> QED BY <1>3, <2>1, <2>2 DEF PairInv
<1>12. BehindInv'
  <2> DEFINE e == [behind.td[i] EXCEPT !.state = o.state]
  <2>1. e \in Tds /\ e.load = behind.td[i].load
    BY <1>5, <1>7 DEF Tds
  <2>2. behind' = [behind EXCEPT !.td = [behind.td EXCEPT ![i] = e]]
    BY <1>2
  <2> HIDE DEF e
  <2>3. [behind.td EXCEPT ![i] = e] \in Seq(Tds)
    BY <1>4, <1>5, <2>1
  <2>4. /\ behind' \in Requests /\ behind'.kind = behind.kind /\ behind'.expired = behind.expired
        /\ behind'.td = [behind.td EXCEPT ![i] = e]
    BY <1>5, <2>2, <2>3 DEF Requests
  <2>5. \A j \in DOMAIN behind'.td : j \in DOMAIN behind.td /\ behind'.td[j].load = behind.td[j].load
    BY <1>4, <1>5, <2>1, <2>4
  <2>6. /\ pc # "csw" /\ \A j \in DOMAIN chain.td : chain.td[j].state = "active"
        /\ \A j \in DOMAIN behind.td : behind.td[j].load # None => Sent(behind.td[j].load)
        /\ behind.expired = 0 => behind.kind = "out" /\ behind.td[1].state # "active"
    BY <1>5 DEF Inv, BehindInv
  <2>7. behind.expired = 0 => behind'.td[1] = behind.td[1]
    <3>1. behind.expired = 0 => i # 1
      BY <1>4, <2>6
    <3> QED BY <1>4, <1>5, <2>4, <3>1
  <2>8. \A k : \A j \in DOMAIN behind'.td : k = behind'.td[j].load /\ k # None => Sent(k)'
    BY <1>6, <2>5, <2>6
  <2> QED BY <1>3, <1>5, <2>4, <2>6, <2>7, <2>8 DEF BehindInv
<1> QED BY <1>8, <1>9, <1>10, <1>11, <1>12 DEF Inv

-----------------------------------------------------------------------------
LEMMA InitInv == Init => Inv
<1> SUFFICES ASSUME Init PROVE Inv
  OBVIOUS
<1> USE DEF Init, EhciInit
<1>1. /\ pc = "start" /\ port = 0 /\ count = 1 /\ polls = 0 /\ async = "off"
      /\ chain = [kind |-> None, address |-> 0, td |-> <<>>]
      /\ arrived = None /\ expired = 0 /\ tag = 1 /\ job = NoJob /\ data = None /\ buffer = <<>>
      /\ result = 0 /\ reads = 0 /\ taken = 0 /\ before = 0 /\ connected \in 1 .. Ports
      /\ device.phase = "cbw" /\ device.next = None
  OBVIOUS
<1>2. <<>> \in Seq(Tds) /\ <<>> \in Seq(Packets \cup {None}) /\ Len(<<>>) = 0
  OBVIOUS
<1>3. device \in DeviceStates
  BY DEF DeviceStates
<1>4. TypeInv
  <2>1. chain \in [kind : Control \cup Bulk \cup {None}, address : Int, td : Seq(Tds)]
    BY <1>1, <1>2
  <2>2. job \in [sector : Nat, count : Nat, install : {0, 1}]
    BY <1>1 DEF NoJob
  <2>3. pc \in Places /\ polls \in 0 .. Polls
    BY <1>1, Bounds DEF Places, Starting
  <2>4. arrived \in Packets \cup {None} /\ data \in Packets \cup {None} /\ buffer \in Seq(Packets \cup {None})
    BY <1>1, <1>2
  <2>5. /\ port \in Nat /\ connected \in 1 .. Ports /\ count \in Int /\ async \in {"off", "on", "stopping"}
        /\ expired \in {0, 1} /\ tag \in Nat /\ result \in {0, 1} /\ reads \in Nat /\ taken \in Int /\ before \in Int
    BY <1>1
  <2> QED BY <1>3, <2>1, <2>2, <2>3, <2>4, <2>5 DEF TypeInv
<1>5. ChainInv /\ WatchInv /\ PagesInv /\ PairInv
  <2>1. chain.kind = None /\ chain.td = <<>> /\ chain.kind \notin {"in", "csw"} /\ DOMAIN chain.td = {}
    BY <1>1, NoneIsNothing DEF Bulk
  <2>2. ChainInv
    BY <1>1, <2>1 DEF ChainInv
  <2> QED BY <1>1, <2>1, <2>2 DEF WatchInv, PagesInv, PairInv
<1>6. CommandInv
  BY <1>1, <1>2 DEF CommandInv
<1>7. BufferInv
  BY <1>1, <1>2 DEF BufferInv, Control, Bulk
<1>8. BehindInv
  BY NothingBehind DEF BehindInv
<1> QED BY <1>4, <1>5, <1>6, <1>7, <1>8 DEF Inv

LEMMA NextInv == Inv /\ [Next]_vars => Inv'
<1> SUFFICES ASSUME Inv, [Next]_vars PROVE Inv'
  OBVIOUS
<1>1. async \in {"off", "on", "stopping"}
  BY DEF Inv, TypeInv
<1>2. CASE HostStep /\ Others
  BY <1>2, PollsOn, HostMoves DEF HostStep
<1>3. CASE External /\ Others
  <2>1. CASE FirmwareLetsGo \/ ScheduleStops \/ MovesOn
    BY <1>1, <1>3, <2>1, Apart DEF FirmwareLetsGo, ScheduleStops, MovesOn, Others, host, start
  <2> QED BY <1>3, <2>1, HostMoves, Transacts, TransactsBehind DEF External
<1>4. CASE UNCHANGED vars
  BY <1>1, <1>4, Apart DEF vars, ehciVars, host, start
<1>5. CASE Driver
  BY <1>2, <1>5, Offers, ControlEnded, Installs, CommandGoes, DataComes, ReadFails, Copies DEF Driver
<1> QED BY <1>3, <1>4, <1>5, ReadBegins DEF Next

LEMMA Invariant == Spec => []Inv
BY InitInv, NextInv, PTL DEF Spec

(* The types of all variables, and that a request has the descriptors of its kind. *)
THEOREM TypeCorrect == Spec => [](TypeInv /\ ChainInv)
BY Invariant, PTL DEF Inv

(* What a read that returns 1 has copied is what was asked for: whatever the device still *)
(* holds of requests that were given up, a status with the present tag follows only the   *)
(* data of the command that had it.                                                       *)
THEOREM SuccessCorrect == Spec => []SuccessIsTheSectors
<1>1. Inv => SuccessIsTheSectors
  <2> SUFFICES ASSUME Inv PROVE SuccessIsTheSectors
    OBVIOUS
  <2>1. DOMAIN buffer = 1 .. Len(buffer)
    BY DEF Inv, TypeInv
  <2> QED BY <2>1 DEF Inv, BufferInv, SuccessIsTheSectors
<1> QED BY <1>1, Invariant, PTL

(* A descriptor that was given back is stored to only after its request was given up. *)
THEOREM GivenBackCorrect == Spec => GivenBackIsLeftAlone
<1>1. Inv /\ [Next]_vars =>
        (polls = 0 /\ polls' = 0 /\ chain'.td # chain.td =>
           expired = 1 \/ (chain.kind = "out" /\ chain'.td[1] = chain.td[1]))
  <2> SUFFICES ASSUME Inv, [Next]_vars, polls = 0, polls' = 0, chain'.td # chain.td, expired = 0
               PROVE  chain.kind = "out" /\ chain'.td[1] = chain.td[1]
    BY DEF Inv, TypeInv
  <2>1. Transact
    <3>1. ~OfferRequest
      BY Bounds DEF OfferRequest, Offer
    <3>2. ~(ControlEnds \/ Install \/ CommandSent \/ DataReceived \/ RequestFails \/ StatusInvalid \/ SectorRead)
      BY DEF ControlEnds, Answered, Configured, Refused, Install, CommandSent, DataReceived, RequestFails,
             StatusInvalid, SectorRead, GiveBack
    <3>3. ~HostStep /\ ~FirmwareLetsGo /\ ~ResetEnds /\ ~ScheduleStops /\ ~TransactBehind /\ ~MovesOn
      BY DEF HostStep, PollAgain, CheckVersions, ReadCapability, Stop, TestPort, Probed, FirmwareLetsGo, ResetEnds,
             ScheduleStops, TransactBehind, MovesOn, host, start
    <3>4. ~(\E s \in Sectors, n \in 1 .. MaxCount : Read(s, n)) /\ ~UNCHANGED vars
      BY DEF Read, host, vars, ehciVars
    <3> QED BY <3>1, <3>2, <3>3, <3>4 DEF Next, Driver, External
  <2>2. PICK i \in Current(chain) : \E o \in Outcomes(chain, chain.td[i], device) :
                 chain' = [chain EXCEPT !.td[i].state = o.state]
    BY <2>1 DEF Transact
  <2>3. chain.kind = "out" /\ i # 1
    BY AtRest
  <2> QED BY <2>2, <2>3 DEF Inv, TypeInv
<1>2. Inv /\ [Next]_vars =>
        (behind'.kind = behind.kind /\ behind'.td # behind.td =>
           behind.expired = 1 \/ (behind.kind = "out" /\ behind'.td[1] = behind.td[1]))
  <2> SUFFICES ASSUME Inv, [Next]_vars, behind'.kind = behind.kind, behind'.td # behind.td, behind.expired # 1
               PROVE  behind.kind = "out" /\ behind'.td[1] = behind.td[1]
    OBVIOUS
  <2>0. behind \in Requests /\ behind.expired = 0 /\ NoRequest.kind = None
    BY DEF Inv, BehindInv, Requests, NoRequest
  <2>1. behind' # NoRequest \/ behind = NoRequest
    BY <2>0 DEF Inv, BehindInv
  <2>2. ~OfferRequest
    <3> SUFFICES ASSUME OfferRequest PROVE FALSE
      OBVIOUS
    <3>1. behind' \in StaysBehind
      BY DEF OfferRequest, Offer
    <3>2. behind = NoRequest /\ behind' = Previous /\ Current(chain) # {}
      BY <2>1, <3>1 DEF StaysBehind
    <3>3. chain.kind # None
      BY <3>2 DEF Current, Inv, ChainInv
    <3> QED BY <2>0, <3>2, <3>3 DEF Previous
  <2>3. TransactBehind
    <3>1. ~(ControlEnds \/ Install \/ CommandSent \/ DataReceived \/ RequestFails \/ StatusInvalid \/ SectorRead)
      BY DEF ControlEnds, Answered, Configured, Refused, Install, CommandSent, DataReceived, RequestFails,
             StatusInvalid, SectorRead, GiveBack
    <3>2. ~HostStep /\ ~FirmwareLetsGo /\ ~ResetEnds /\ ~ScheduleStops /\ ~Transact /\ ~MovesOn
      BY <2>1 DEF HostStep, PollAgain, CheckVersions, ReadCapability, Stop, TestPort, Probed, FirmwareLetsGo,
             ResetEnds, ScheduleStops, Transact, MovesOn, host, start
    <3>3. ~(\E s \in Sectors, n \in 1 .. MaxCount : Read(s, n)) /\ ~UNCHANGED vars
      BY DEF Read, host, vars, ehciVars
    <3> QED BY <2>2, <3>1, <3>2, <3>3 DEF Next, Driver, External
  <2>4. PICK i \in Current(behind) : \E o \in Outcomes(behind, behind.td[i], device) :
                 behind' = [behind EXCEPT !.td[i].state = o.state]
    BY <2>3 DEF TransactBehind
  <2>5. i \in DOMAIN behind.td /\ behind.td[i].state = "active"
    BY DEF Current
  <2>6. behind # NoRequest
    BY <2>5 DEF NoRequest
  <2>7. behind.kind = "out" /\ i # 1
    BY <2>0, <2>5, <2>6 DEF Inv, BehindInv
  <2> QED BY <2>0, <2>4, <2>7 DEF Requests
<1> QED BY <1>1, <1>2, Invariant, PTL DEF Spec, GivenBackIsLeftAlone

(* What a sector costs in pages, however its three requests end. *)
THEOREM PagesCorrect == Spec => SectorKeepsPages
<1>1. Inv /\ [Next]_vars =>
        (polls > 0 /\ polls' = 0 /\ pc \in Bulk /\ pc' \notin {"in", "csw"} =>
           taken' - before = Cost(pc, buffer' # buffer))
  <2> SUFFICES ASSUME Inv, [Next]_vars, polls > 0, polls' = 0, pc \in Bulk, pc' \notin {"in", "csw"}
               PROVE  taken' - before = Cost(pc, buffer' # buffer)
    OBVIOUS
  <2>1. /\ taken \in Int /\ before \in Int /\ FreedAfter(pc) = 3
        /\ taken - before = IF pc = "out" THEN 5 ELSE IF pc = "in" THEN 7 ELSE 9
    BY BulkEnds
  <2>2. RequestFails \/ StatusInvalid \/ SectorRead
    <3>1. ~OfferRequest /\ ~ControlEnds /\ ~Install /\ ~CommandSent /\ ~DataReceived
      BY DEF OfferRequest, Offer, ControlEnds, Answered, Configured, Refused, AfterControl, Install, CommandSent,
             DataReceived, Bulk, Control
    <3>2. ~HostStep /\ ~External
      BY Bounds DEF HostStep, PollAgain, CheckVersions, ReadCapability, Stop, TestPort, Probed, External,
             FirmwareLetsGo, ResetEnds, Transact, TransactBehind, MovesOn, ScheduleStops, host, start
    <3>3. ~(\E s \in Sectors, n \in 1 .. MaxCount : Read(s, n)) /\ ~UNCHANGED vars
      BY DEF Read, Bulk, vars, ehciVars, host
    <3> QED BY <3>1, <3>2, <3>3 DEF Next, Driver
  <2>3. CASE RequestFails \/ StatusInvalid
    <3>1. buffer' = buffer /\ taken' = taken - 3 - 1
      BY <2>1, <2>3 DEF RequestFails, StatusInvalid, Freed
    <3> QED BY <2>1, <3>1 DEF Cost, Bulk
  <2>4. CASE SectorRead
    <3>1. buffer' = Append(buffer, data) /\ taken' = taken - 3 - 2 /\ pc = "csw"
      BY <2>1, <2>4 DEF SectorRead, Freed
    <3>2. buffer' # buffer
      BY <3>1 DEF Inv, TypeInv
    <3> QED BY <2>1, <3>1, <3>2 DEF Cost
  <2> QED BY <2>2, <2>3, <2>4
<1> QED BY <1>1, Invariant, PTL DEF Spec, SectorKeepsPages

-----------------------------------------------------------------------------
(* The XHCI host: the events of the requests. *)

BlockRecords == X!AllRings \X Nat
Events == [block : {None} \cup BlockRecords, code : Nat, slot : Nat]
Works == [block : BlockRecords, told : {0, 1}]

XTypeInv ==
  /\ portid \in Nat
  /\ step \in 0 .. 11
  /\ phase = "ports" => portid >= 1
  /\ phase \in {"start", "legacy", "stop", "reset"} => step = 0
  /\ target # None => step > 0
  /\ step > 0 => portid \in 1 .. XhciPorts
  /\ devices \in [1 .. XhciPorts -> XhciDevices \cup {None}]
  /\ step > 0 => devices[portid] # None
  /\ filled \in [X!AllRings -> Nat]
  /\ work \in Seq(Works)
  /\ events \in Seq(Events)
  /\ slots \in Nat
  /\ silent \subseteq 1 .. XhciPorts
  /\ since \in Nat /\ since <= Len(events)

(* Every block of the past lies before the place where its ring goes on. *)
Past(b) == b[2] <= filled[b[1]]

PastInv ==
  /\ \A i \in 1 .. Len(work) : Past(work[i].block)
  /\ \A i \in 1 .. Len(events) : events[i].block # None => Past(events[i].block)

(* The block that is waited for is new to the events before its bell. *)
OwnInv ==
  target # None => \A i \in 1 .. Len(events) : i <= since => events[i].block # target

XInv == XTypeInv /\ PastInv /\ OwnInv

-----------------------------------------------------------------------------
LEMMA RequestsType ==
  ASSUME NEW s \in 1 .. 11
  PROVE  X!Requests[s].ring \in X!RingNames
BY DEF X!Requests, X!RingNames

LEMMA LastType ==
  ASSUME NEW d
  PROVE  X!LastFor(d) \in 1 .. 11
BY DEF X!LastFor, X!Requests

BlockLists == {<<0, 0, 1>>, <<1, 1, 1>>, <<0, 1>>, <<1>>}

LEMMA BlocksType ==
  ASSUME NEW k
  PROVE  /\ Len(X!Blocks(k)) \in 1 .. 3
         /\ DOMAIN X!Blocks(k) = 1 .. Len(X!Blocks(k))
         /\ \A i \in 1 .. Len(X!Blocks(k)) : X!Blocks(k)[i] \in {0, 1}
<1>1. X!Blocks(k) \in BlockLists
  BY DEF X!Blocks, BlockLists
<1>2. ASSUME NEW s \in BlockLists
      PROVE  Len(s) \in 1 .. 3 /\ DOMAIN s = 1 .. Len(s) /\ \A i \in 1 .. Len(s) : s[i] \in {0, 1}
  BY DEF BlockLists
<1>. QED BY <1>1, <1>2

LEMMA RingType ==
  ASSUME NEW name \in X!RingNames, NEW p \in 1 .. XhciPorts
  PROVE  X!Ring(name, p) \in X!AllRings
BY DEF X!AllRings

LEMMA XInitInv == X!Init => XInv
<1>. SUFFICES ASSUME X!Init PROVE XInv
  OBVIOUS
<1>1. <<>> \in Seq(Works) /\ <<>> \in Seq(Events) /\ Len(<<>>) = 0
  BY EmptySeq
<1>. QED BY <1>1 DEF X!Init, XInv, XTypeInv, PastInv, OwnInv

-----------------------------------------------------------------------------
(* What only moves the driver on leaves the rings alone. *)
LEMMA XMoves ==
  ASSUME XTypeInv, UNCHANGED <<filled, work, events, slots, silent, since>>,
         target' = None \/ target' = target,
         PastInv, OwnInv
  PROVE  PastInv' /\ OwnInv'
BY DEF PastInv, OwnInv, Past

LEMMA PostInv == X!ConstantsAssumption /\ XInv /\ X!Post => XInv'
<1>. SUFFICES ASSUME X!ConstantsAssumption, XInv, X!Post PROVE XInv'
  OBVIOUS
<1>. DEFINE told == X!Blocks(X!Requests[step].kind)
            ring == X!Ring(X!Requests[step].ring, portid)
<1>1. /\ Len(told) \in 1 .. 3 /\ DOMAIN told = 1 .. Len(told)
      /\ \A i \in 1 .. Len(told) : told[i] \in {0, 1}
  BY BlocksType
<1>2. ring \in X!AllRings /\ filled[ring] \in Nat
  <2>1. step \in 1 .. 11 /\ portid \in 1 .. XhciPorts
    BY DEF XInv, XTypeInv, X!Post
  <2>2. X!Requests[step].ring \in X!RingNames
    BY <2>1, RequestsType
  <2>3. ring \in X!AllRings
    BY <2>1, <2>2, RingType
  <2>. QED BY <2>3 DEF XInv, XTypeInv
<1>. HIDE DEF told, ring
<1>3. /\ work' = [i \in 1 .. Len(told) |-> [block |-> <<ring, filled[ring] + i>>, told |-> told[i]]]
      /\ target' = <<ring, filled[ring] + Len(told)>>
      /\ filled' = [filled EXCEPT ![ring] = @ + Len(told)]
      /\ since' = Len(events) /\ events' = events
      /\ UNCHANGED <<phase, slots, silent, devices, portid, step>>
  BY <1>1 DEF X!Post, X!PlaceAfter, told, ring
<1>4. /\ work' \in [1 .. Len(told) -> Works] /\ work' \in Seq(Works) /\ Len(work') = Len(told)
      /\ filled' \in [X!AllRings -> Nat] /\ filled'[ring] = filled[ring] + Len(told)
      /\ \A r \in X!AllRings : filled[r] <= filled'[r]
  <2>1. ASSUME NEW i \in 1 .. Len(told)
        PROVE  [block |-> <<ring, filled[ring] + i>>, told |-> told[i]] \in Works
    BY <1>1, <1>2 DEF Works, BlockRecords
  <2>2. work' \in [1 .. Len(told) -> Works]
    BY <1>3, <2>1
  <2>3. work' \in Seq(Works) /\ Len(work') = Len(told)
    BY <1>1, <1>3, <2>2, SeqDef
  <2>4. filled' \in [X!AllRings -> Nat]
    BY <1>1, <1>2, <1>3 DEF XInv, XTypeInv
  <2>. QED BY <1>1, <1>2, <1>3, <2>2, <2>3, <2>4 DEF XInv, XTypeInv
<1>5. XTypeInv'
  <2>1. step > 0 /\ phase = "ports" /\ Len(events) \in Nat
    BY LenProperties DEF X!Post, XInv, XTypeInv
  <2>. QED BY <1>3, <1>4, <2>1 DEF XInv, XTypeInv
<1>6. PastInv'
  <2>1. ASSUME NEW i \in 1 .. Len(work') PROVE Past(work[i].block)'
    <3>1. i \in 1 .. Len(told) /\ work'[i].block = <<ring, filled[ring] + i>>
      BY <1>3, <1>4, <2>1
    <3>2. filled[ring] + i <= filled'[ring]
      BY <1>1, <1>2, <1>4, <3>1
    <3>. QED BY <3>1, <3>2 DEF Past
  <2>2. ASSUME NEW i \in 1 .. Len(events), events[i].block # None PROVE Past(events[i].block)'
    <3>1. events[i].block \in BlockRecords /\ Past(events[i].block)
      <4>1. events[i] \in Events
        BY DEF XInv, XTypeInv
      <4>2. events[i].block \in BlockRecords
        BY <2>2, <4>1 DEF Events
      <4>. QED BY <2>2, <4>2 DEF XInv, PastInv
    <3>. QED BY <1>3, <1>4, <3>1 DEF Past, BlockRecords, XInv, XTypeInv
  <2>. QED BY <1>3, <2>1, <2>2 DEF PastInv
<1>7. OwnInv'
  <2>1. ASSUME NEW i \in 1 .. Len(events), events[i].block = target', target' # None PROVE FALSE
    BY <1>1, <1>2, <1>3, <2>1 DEF XInv, PastInv, Past
  <2>. QED BY <1>3, <2>1 DEF OwnInv
<1>. QED BY <1>5, <1>6, <1>7 DEF XInv

LEMMA CardinalityIs ==
  ASSUME NEW S
  PROVE  X!Cardinality(S) = Cardinality(S)
BY Zenon DEF X!Cardinality, Cardinality

(* The events of the ports that changed are appended. *)
LEMMA ChangesTold ==
  ASSUME X!ConstantsAssumption, XTypeInv, X!PortChanges
  PROVE  /\ events' \in Seq(Events) /\ Len(events') = Len(events) + Cardinality(silent)
         /\ Len(events) \in Nat /\ Cardinality(silent) \in Nat
         /\ \A i \in 1 .. Len(events') :
              (i \in 1 .. Len(events) /\ events'[i] = events[i])
                \/ (i > Len(events) /\ events'[i].block = None)
<1>. DEFINE n == Cardinality(silent)
            told == [i \in 1 .. n |-> [block |-> None, code |-> 1, slot |-> 0]]
<1>1. n \in Nat
  <2>1. IsFiniteSet(1 .. XhciPorts)
    BY FS_Interval DEF X!ConstantsAssumption
  <2>. QED BY <2>1, FS_Subset, FS_CardinalityType DEF XTypeInv
<1>2. told \in Seq(Events) /\ Len(told) = n /\ \A i \in 1 .. n : told[i].block = None
  <2>1. told \in [1 .. n -> Events]
    BY DEF Events
  <2>. QED BY <1>1, <2>1, SeqDef
<1>3. events' = events \o told
  BY CardinalityIs DEF X!PortChanges, told, n
<1>. HIDE DEF told, n
<1>4. /\ events' \in Seq(Events) /\ Len(events') = Len(events) + n /\ Len(events) \in Nat
      /\ \A i \in 1 .. Len(events') :
           (i \in 1 .. Len(events) /\ events'[i] = events[i])
             \/ (i > Len(events) /\ events'[i].block = None)
  <2>1. events \in Seq(Events) /\ Len(events) \in Nat
    BY LenProperties DEF XTypeInv
  <2>2. events' \in Seq(Events) /\ Len(events') = Len(events) + n
    BY <1>2, <1>3, <2>1, ConcatProperties
  <2>3. ASSUME NEW i \in 1 .. Len(events')
        PROVE  (i \in 1 .. Len(events) /\ events'[i] = events[i])
                 \/ (i > Len(events) /\ events'[i].block = None)
    <3>1. CASE i <= Len(events)
      BY <1>1, <1>2, <1>3, <2>1, <2>2, <2>3, <3>1, ConcatProperties
    <3>2. CASE i > Len(events)
      <4>1. i - Len(events) \in 1 .. n
        BY <1>1, <2>1, <2>2, <2>3, <3>2
      <4>2. events'[i] = told[i - Len(events)]
        BY <1>1, <1>2, <1>3, <2>1, <2>2, <2>3, <3>2, ConcatProperties
      <4>. QED BY <1>2, <3>2, <4>1, <4>2
    <3>. QED BY <2>1, <3>1, <3>2
  <2>. QED BY <2>1, <2>2, <2>3
<1>. QED BY <1>1, <1>4 DEF n

LEMMA PortChangesInv == X!ConstantsAssumption /\ XInv /\ X!PortChanges => XInv'
<1>. SUFFICES ASSUME X!ConstantsAssumption, XInv, X!PortChanges PROVE XInv'
  OBVIOUS
<1>. DEFINE n == Cardinality(silent)
<1>1. n \in Nat
  BY ChangesTold DEF XInv
<1>2. /\ events' \in Seq(Events) /\ Len(events') = Len(events) + n /\ Len(events) \in Nat
      /\ \A i \in 1 .. Len(events') :
           (i \in 1 .. Len(events) /\ events'[i] = events[i])
             \/ (i > Len(events) /\ events'[i].block = None)
  BY ChangesTold DEF XInv
<1>. HIDE DEF n
<1>3. XTypeInv'
  <2>1. since \in Nat /\ since <= Len(events) /\ since' = since
    BY DEF X!PortChanges, XInv, XTypeInv, X!install
  <2>2. Len(events') = Len(events) + n /\ Len(events) \in Nat
    BY <1>2
  <2>3. since' \in Nat /\ since' <= Len(events')
    BY <1>1, <2>1, <2>2
  <2>. QED BY <1>2, <2>3 DEF X!PortChanges, XInv, XTypeInv, X!install
<1>4. PastInv'
  BY <1>2 DEF X!PortChanges, XInv, PastInv, Past
<1>5. OwnInv'
  BY <1>2 DEF X!PortChanges, XInv, OwnInv, X!install
<1>. QED BY <1>3, <1>4, <1>5 DEF XInv

(* An event that is appended is of a block of the past, or no block's. *)
LEMMA EventAppended ==
  ASSUME XInv, NEW e \in Events, e.block # None => Past(e.block),
         events' = Append(events, e),
         UNCHANGED <<filled, target, since>>
  PROVE  events' \in Seq(Events) /\ OwnInv' /\
         \A i \in 1 .. Len(events') : events'[i].block # None => Past(events'[i].block)
<1>1. /\ events' \in Seq(Events) /\ Len(events') = Len(events) + 1 /\ Len(events) \in Nat
      /\ \A i \in 1 .. Len(events) : events'[i] = events[i]
      /\ events'[Len(events) + 1] = e
  BY AppendProperties DEF XInv, XTypeInv
<1>2. ASSUME NEW i \in 1 .. Len(events'), events'[i].block # None PROVE Past(events'[i].block)
  <2>1. CASE i \in 1 .. Len(events)
    BY <1>1, <1>2, <2>1 DEF XInv, PastInv
  <2>2. CASE i = Len(events) + 1
    BY <1>1, <1>2, <2>2
  <2>. QED BY <1>1, <2>1, <2>2
<1>3. OwnInv'
  <2>. SUFFICES ASSUME target # None, NEW i \in 1 .. Len(events'), i <= since
               PROVE  events'[i].block # target
    BY DEF OwnInv
  <2>1. i \in 1 .. Len(events)
    BY <1>1 DEF XInv, XTypeInv
  <2>. QED BY <1>1, <2>1 DEF XInv, OwnInv
<1>. QED BY <1>1, <1>2, <1>3

(* The controller does a block, or fails at it. *)
LEMMA DoBlockInv == XInv /\ X!DoBlock => XInv'
<1>. SUFFICES ASSUME XInv, X!DoBlock PROVE XInv'
  OBVIOUS
<1>. DEFINE first == Head(work)
            enabled == IF first.block[1][1] = "command" /\ step = 1 THEN slots + 1 ELSE slots
<1>1. /\ first \in Works /\ Past(first.block)
      /\ first.block \in BlockRecords
      /\ Tail(work) \in Seq(Works)
      /\ \A i \in 1 .. Len(Tail(work)) : Past(Tail(work)[i].block)
  <2>1. work \in Seq(Works) /\ work # <<>> /\ Len(work) \in Nat
    BY LenProperties DEF XInv, XTypeInv, X!DoBlock
  <2>2. /\ first = work[1] /\ first \in Works
        /\ Tail(work) \in Seq(Works) /\ Len(Tail(work)) = Len(work) - 1
        /\ \A i \in 1 .. Len(Tail(work)) : Tail(work)[i] = work[i + 1]
    BY <2>1, HeadTailProperties
  <2>3. Len(work) >= 1
    BY <2>1, EmptySeq
  <2>4. Past(first.block)
    BY <2>1, <2>2, <2>3 DEF XInv, PastInv
  <2>5. ASSUME NEW i \in 1 .. Len(Tail(work)) PROVE Past(Tail(work)[i].block)
    BY <2>1, <2>2, <2>5 DEF XInv, PastInv
  <2>. QED BY <2>2, <2>4, <2>5 DEF Works
<1>2. enabled \in Nat /\ slots \in Nat
  BY DEF XInv, XTypeInv
<1>3. UNCHANGED <<phase, filled, target, silent, devices, portid, step, since>>
  BY DEF X!DoBlock, X!install
<1>4. /\ work' \in Seq(Works) /\ slots' \in Nat
      /\ \A i \in 1 .. Len(work') : Past(work'[i].block)
  <2>1. (work' = Tail(work) /\ slots' = enabled) \/ (work' = <<>> /\ slots' = slots)
    BY DEF X!DoBlock
  <2>2. <<>> \in Seq(Works) /\ Len(<<>>) = 0
    BY EmptySeq
  <2>3. CASE work' = Tail(work) /\ slots' = enabled
    BY <1>1, <1>2, <2>3
  <2>4. CASE work' = <<>> /\ slots' = slots
    BY <1>2, <2>2, <2>4
  <2>. HIDE DEF enabled, first
  <2>. QED BY <2>1, <2>3, <2>4
<1>5. ASSUME NEW c \in {1, 6}, NEW s \in Nat,
             events' = Append(events, [block |-> first.block, code |-> c, slot |-> s])
      PROVE  XInv'
  <2>. DEFINE e == [block |-> first.block, code |-> c, slot |-> s]
  <2>1. e \in Events /\ (e.block # None => Past(e.block))
    BY <1>1 DEF Events
  <2>2. events' = Append(events, e)
    BY <1>5
  <2>. HIDE DEF e, first, enabled
  <2>3. /\ events' \in Seq(Events) /\ OwnInv'
        /\ \A i \in 1 .. Len(events') : events'[i].block # None => Past(events'[i].block)
    BY <1>3, <2>1, <2>2, EventAppended
  <2>4. Len(events') = Len(events) + 1 /\ Len(events) \in Nat
    BY <2>1, <2>2, AppendProperties DEF XInv, XTypeInv
  <2>5. XTypeInv'
    BY <1>3, <1>4, <2>3, <2>4 DEF XInv, XTypeInv
  <2>6. PastInv'
    BY <1>3, <1>4, <2>3 DEF PastInv, Past
  <2>. QED BY <2>3, <2>5, <2>6 DEF XInv
<1>6. CASE events' = events
  <2>. HIDE DEF first, enabled
  <2>1. XTypeInv'
    BY <1>3, <1>4, <1>6 DEF XInv, XTypeInv
  <2>2. PastInv'
    BY <1>3, <1>4, <1>6 DEF XInv, PastInv, Past
  <2>3. OwnInv'
    BY <1>3, <1>6 DEF XInv, OwnInv
  <2>. QED BY <2>1, <2>2, <2>3 DEF XInv
<1>7. \/ events' = events
      \/ events' = Append(events, [block |-> first.block, code |-> 1, slot |-> enabled])
      \/ events' = Append(events, [block |-> first.block, code |-> 6, slot |-> slots])
  BY DEF X!DoBlock
<1>. HIDE DEF first, enabled
<1>. QED BY <1>2, <1>5, <1>6, <1>7

-----------------------------------------------------------------------------
(* What a request that succeeded, and one that failed, move. *)
LEMMA ContinueType == X!ConstantsAssumption /\ XInv /\ X!Continue => XTypeInv'
<1>. SUFFICES ASSUME X!ConstantsAssumption, XInv, X!Continue PROVE XTypeInv'
  OBVIOUS
<1>1. UNCHANGED <<filled, work, events, slots, silent, since, devices>> /\ phase = "ports"
  BY DEF X!Continue, X!Answered, X!Looking
<1>2. X!LastFor(devices[portid]) \in 1 .. 11
  BY LastType
<1>3. step = X!LastFor(devices[portid]) => X!Kind \in {"configuration", "setconfig", "out"}
  BY DEF X!LastFor, X!Kind, X!Requests
<1>4. \/ step' = step + 1 /\ step < X!LastFor(devices[portid]) /\ phase' = phase /\ portid' = portid
      \/ step' = step /\ phase' \in {"stopped", "stub"} /\ portid' = portid
      \/ step' = 0 /\ phase' = phase /\ portid' = portid + 1
  <2>1. CASE step < X!LastFor(devices[portid]) /\ step # X!LastFor(devices[portid])
    BY <1>2, <2>1 DEF X!Continue
  <2>2. CASE step = X!LastFor(devices[portid])
    <3>1. CASE X!Kind = "configuration"
      BY <1>2, <2>2, <3>1 DEF X!Continue
    <3>2. CASE X!Kind = "setconfig"
      BY <1>2, <2>2, <3>2 DEF X!Continue, X!NextPort
    <3>3. CASE X!Kind = "out"
      BY <1>2, <2>2, <3>3 DEF X!Continue
    <3>. QED BY <1>3, <2>2, <3>1, <3>2, <3>3
  <2>3. step \in Nat /\ (step < X!LastFor(devices[portid]) \/ step = X!LastFor(devices[portid]))
    <3>1. step < X!LastFor(devices[portid]) \/ step = X!LastFor(devices[portid])
      BY DEF X!Continue
    <3>. QED BY <3>1 DEF XInv, XTypeInv
  <2>. QED BY <1>2, <2>1, <2>2, <2>3
<1>5. target' = None /\ step \in 1 .. 11 /\ portid \in 1 .. XhciPorts
  BY DEF X!Continue, X!Answered, X!Looking, XInv, XTypeInv
<1>6. CASE step' = step + 1 /\ step < X!LastFor(devices[portid]) /\ phase' = phase /\ portid' = portid
  <2>1. step' \in 1 .. 11
    BY <1>2, <1>5, <1>6
  <2>. QED BY <1>1, <1>5, <1>6, <2>1 DEF XInv, XTypeInv
<1>7. CASE step' = step /\ phase' \in {"stopped", "stub"} /\ portid' = portid
  BY <1>1, <1>5, <1>7 DEF XInv, XTypeInv
<1>8. CASE step' = 0 /\ phase' = phase /\ portid' = portid + 1
  BY <1>1, <1>5, <1>8 DEF XInv, XTypeInv
<1>. QED BY <1>4, <1>6, <1>7, <1>8

LEMMA FailType == X!ConstantsAssumption /\ XInv /\ X!Fail => XTypeInv'
<1>. SUFFICES ASSUME X!ConstantsAssumption, XInv, X!Fail PROVE XTypeInv'
  OBVIOUS
<1>1. UNCHANGED <<filled, work, events, slots, silent, since, devices>> /\ phase = "ports"
  BY DEF X!Fail, X!Answered, X!Looking
<1>2. \/ step' = step /\ phase' = "stopped" /\ portid' = portid
      \/ step' = 7 /\ phase' = phase /\ portid' = portid
      \/ step' = 0 /\ phase' = phase /\ portid' = portid + 1
  BY DEF X!Fail, X!NextPort
<1>3. target' = None /\ step \in 1 .. 11 /\ portid \in 1 .. XhciPorts
  BY DEF X!Fail, X!Answered, X!Looking, XInv, XTypeInv
<1>. QED BY <1>1, <1>2, <1>3 DEF XInv, XTypeInv

LEMMA XNextInv == X!ConstantsAssumption /\ XInv /\ [X!Next]_X!vars => XInv'
<1>. SUFFICES ASSUME X!ConstantsAssumption, XInv, [X!Next]_X!vars PROVE XInv'
  OBVIOUS
<1>. USE DEF XInv
<1>1. CASE X!CheckVersion
  BY <1>1, XMoves DEF X!CheckVersion, XTypeInv, X!rings, X!install
<1>2. CASE X!AskAgain
  BY <1>2, XMoves DEF X!AskAgain, XTypeInv, X!rings, X!install
<1>3. CASE X!NextCapability
  BY <1>3, XMoves DEF X!NextCapability, XTypeInv, X!rings, X!install
<1>4. CASE X!Halted
  BY <1>4, XMoves DEF X!Halted, XTypeInv, X!rings, X!install
<1>5. CASE X!ResetFails
  BY <1>5, XMoves DEF X!ResetFails, XTypeInv, X!rings, X!install
<1>6. CASE X!ResetEnds
  BY <1>6, XMoves DEF X!ResetEnds, XTypeInv, X!rings
<1>7. CASE X!SkipPort
  BY <1>7, XMoves DEF X!SkipPort, X!NextPort, XTypeInv, X!rings
<1>8. CASE X!LastPort
  BY <1>8, XMoves DEF X!LastPort, XTypeInv, X!rings, X!install
<1>9. CASE X!StartPort
  BY <1>9, XMoves DEF X!StartPort, XTypeInv, X!rings, X!ConstantsAssumption
<1>10. CASE X!Post
  BY <1>10, PostInv
<1>11. CASE X!Continue
  <2>1. UNCHANGED <<filled, work, events, slots, silent, since>> /\ target' = None
    BY <1>11 DEF X!Continue, X!Answered
  <2>. QED BY <1>11, <2>1, XMoves, ContinueType
<1>12. CASE X!Fail
  <2>1. UNCHANGED <<filled, work, events, slots, silent, since>> /\ target' = None
    BY <1>12 DEF X!Fail, X!Answered
  <2>. QED BY <1>12, <2>1, XMoves, FailType
<1>13. CASE X!FirmwareLetsGo
  BY <1>13, XMoves DEF X!FirmwareLetsGo, XTypeInv, X!rings, X!install
<1>14. CASE X!ControllerHalts
  BY <1>14, XMoves DEF X!ControllerHalts, XTypeInv, X!rings, X!install
<1>15. CASE X!PortChanges
  BY <1>15, PortChangesInv
<1>16. CASE X!DoBlock
  BY <1>16, DoBlockInv
<1>17. CASE UNCHANGED X!vars
  BY <1>17, XMoves DEF X!vars, XTypeInv, X!rings, X!install
<1>. QED BY <1>1, <1>2, <1>3, <1>4, <1>5, <1>6, <1>7, <1>8, <1>9, <1>10, <1>11, <1>12, <1>13,
            <1>14, <1>15, <1>16, <1>17 DEF X!Next, X!Driver

(* A set of numbers that is not empty has a least element. *)
LEMMA LeastOf ==
  ASSUME NEW S, S \subseteq Nat, S # {}
  PROVE  \E x \in S : \A y \in S : x <= y
<1>1. IsWellFoundedOn(OpToRel(<, Nat), Nat)
  BY NatLessThanWellFounded
<1>2. PICK x \in S : \A y \in S : ~ (<<y, x>> \in OpToRel(<, Nat))
  BY <1>1, WFMin
<1>3. \A y \in S : ~ (y < x)
  BY <1>2 DEF OpToRel
<1>. QED BY <1>3

(* The event that ends a request is the request's own: the first in the ring that names  *)
(* its block was stored after the bell was rung, however many devices were installed     *)
(* before and whatever they and their ports left in the event ring, which nobody empties. *)
THEOREM EventsCorrect == X!ConstantsAssumption => (X!Spec => EventsAreOwn)
<1>1. ASSUME XInv
      PROVE  target # None /\ X!Matches # {} => X!FirstMatch > since
  <2>. SUFFICES ASSUME target # None, X!Matches # {} PROVE X!FirstMatch > since
    OBVIOUS
  <2>1. X!Matches \subseteq Nat
    BY <1>1 DEF X!Matches, XInv, XTypeInv
  <2>2. X!FirstMatch \in X!Matches
    BY <2>1, LeastOf DEF X!FirstMatch
  <2>3. X!FirstMatch \in 1 .. Len(events) /\ events[X!FirstMatch].block = target
    BY <1>1, <2>2 DEF X!Matches, XInv, XTypeInv
  <2>. QED BY <1>1, <2>3 DEF XInv, XTypeInv, OwnInv
<1>2. X!ConstantsAssumption /\ X!Init => XInv
  BY XInitInv
<1>3. ASSUME X!ConstantsAssumption PROVE X!Spec => EventsAreOwn
  <2>1. XInv /\ [X!Next]_X!vars => XInv'
    BY <1>3, XNextInv
  <2>2. XInv => [target # None /\ target' = None /\ X!Matches # {} => X!FirstMatch > since]_X!vars
    BY <1>1
  <2>3. X!Init => XInv
    BY XInitInv
  <2>. QED BY <2>1, <2>2, <2>3, PTL DEF X!Spec, X!EventsAreOwn, EventsAreOwn
<1>. QED BY <1>3

-----------------------------------------------------------------------------
(* The events that may still come from the blocks of a request: one for each of them, or *)
(* one for all.                                                                          *)
Left(w) == IF \A i \in 1 .. Len(w) : w[i].told = 1 THEN Len(w) ELSE 1

WorkShape(w) ==
  /\ w # <<>> => w[Len(w)].told = 1
  /\ (\A i \in 1 .. Len(w) : w[i].told = 1) \/ (\A i \in 1 .. Len(w) - 1 : w[i].told = 0)

Expected == Len(events) + Cardinality(silent) + Left(work)

(* The requests that have been made at a port, how many of them were commands, and how *)
(* many events they make.                                                              *)
Begun == IF step = 0 \/ target # None THEN step ELSE step - 1
Commanded(s) == IF s <= 1 THEN s ELSE IF s <= 4 THEN 2 ELSE IF s <= 6 THEN 3 ELSE 4
ToldBy(s) == IF s <= 3 THEN s ELSE IF s <= 9 THEN s + 2 ELSE s + 4

CommandRing == <<"command", 0>>

(* An installation before which there were so many commands, events and slots. *)
Installing(commands, told, enabled) ==
  /\ filled[CommandRing] = commands + Commanded(Begun)
  /\ Expected <= XhciPorts + told + ToldBy(Begun)
  /\ \/ step > 1 /\ slots = enabled + 1
     \/ step <= 1 /\ slots = enabled /\ (target # None => \A i \in X!Matches : events[i].code # 1)
     \/ step = 1 /\ slots = enabled + 1 /\ target # None /\ work = <<>>

(* The second device gets slot 2, with which neither of its endpoints is set up. *)
Second ==
  /\ Installing(4, 14, 1)
  /\ step <= 5 \/ step = 7
  /\ step = 7 => Expected < XhciPorts + 14 + ToldBy(Begun)

(* The block that is waited for is the last one of its request; it is done once, or not. *)
MatchInv ==
  target # None =>
    /\ target[1] = X!Ring(X!Requests[step].ring, portid)
    /\ step = 1 => Len(work) <= 1
    /\ \A i \in 1 .. Len(work) : work[i].block[1] = target[1] /\ (work[i].block = target <=> i = Len(work))
    /\ work # <<>> => X!Matches = {}
    /\ \A i, j \in X!Matches : i = j
    /\ step > 1 => \A i \in X!Matches : events[i].slot = slots

CountInv ==
  /\ Expected <= XhciPorts + 22
  /\ phase = "ports" => Installing(0, 0, 0) \/ Second
  /\ phase = "ports" /\ step <= 1 /\ target = None => \A i \in 1 .. Len(work) : work[i].block[1] # CommandRing
  /\ phase \in {"start", "legacy", "stop", "reset"} =>
       /\ target = None /\ work = <<>> /\ slots = 0 /\ filled[CommandRing] = 0
       /\ Expected <= XhciPorts

FitInv == XInv /\ WorkShape(work) /\ MatchInv /\ CountInv

LEMMA EmptyWork == <<>> \in Seq(Works) /\ Len(<<>>) = 0 /\ Left(<<>>) = 0 /\ WorkShape(<<>>)
<1>1. <<>> \in Seq(Works) /\ Len(<<>>) = 0
  BY EmptySeq
<1>. QED BY <1>1 DEF Left, WorkShape

LEMMA LeftType ==
  ASSUME NEW w \in Seq(Works)
  PROVE  Left(w) \in Nat /\ Len(w) \in Nat /\ (w # <<>> => Left(w) >= 1 /\ Len(w) >= 1)
<1>1. Len(w) \in Nat /\ (w # <<>> => Len(w) >= 1)
  BY EmptySeq, LenProperties
<1>. QED BY <1>1 DEF Left

(* The controller does the first block of a request. *)
LEMMA LeftTail ==
  ASSUME NEW w \in Seq(Works), w # <<>>, WorkShape(w)
  PROVE  /\ Tail(w) \in Seq(Works) /\ Head(w) \in Works /\ Head(w) = w[1]
         /\ Len(Tail(w)) = Len(w) - 1
         /\ \A i \in 1 .. Len(w) - 1 : Tail(w)[i] = w[i + 1]
         /\ WorkShape(Tail(w))
         /\ Left(Tail(w)) + Head(w).told <= Left(w)
<1>1. /\ Head(w) = w[1] /\ Head(w) \in Works
      /\ Tail(w) \in Seq(Works) /\ Len(Tail(w)) = Len(w) - 1
      /\ \A i \in 1 .. Len(w) - 1 : Tail(w)[i] = w[i + 1]
  BY HeadTailProperties
<1>2. Len(w) \in Nat /\ Len(w) >= 1
  BY LeftType
<1>3. Tail(w) # <<>> => Len(Tail(w)) >= 1
  BY <1>1, LeftType
<1>4. WorkShape(Tail(w))
  <2>1. Tail(w) # <<>> => Tail(w)[Len(Tail(w))].told = 1
    <3>1. CASE Tail(w) # <<>>
      <4>1. Len(w) - 1 \in 1 .. Len(w) - 1 /\ (Len(w) - 1) + 1 = Len(w)
        BY <1>1, <1>2, <1>3, <3>1
      <4>2. Tail(w)[Len(w) - 1] = w[Len(w)]
        BY <1>1, <4>1
      <4>. QED BY <1>1, <4>2 DEF WorkShape
    <3>. QED BY <3>1
  <2>2. ASSUME \A i \in 1 .. Len(w) : w[i].told = 1
        PROVE  \A i \in 1 .. Len(Tail(w)) : Tail(w)[i].told = 1
    BY <1>1, <1>2, <2>2
  <2>3. ASSUME \A i \in 1 .. Len(w) - 1 : w[i].told = 0
        PROVE  \A i \in 1 .. Len(Tail(w)) - 1 : Tail(w)[i].told = 0
    BY <1>1, <1>2, <2>3
  <2>. QED BY <2>1, <2>2, <2>3 DEF WorkShape
<1>5. Left(Tail(w)) + Head(w).told <= Left(w)
  <2>1. CASE \A i \in 1 .. Len(w) : w[i].told = 1
    <3>1. \A i \in 1 .. Len(Tail(w)) : Tail(w)[i].told = 1
      BY <1>1, <1>2, <2>1
    <3>2. Left(Tail(w)) = Len(w) - 1 /\ Left(w) = Len(w) /\ Head(w).told = 1
      BY <1>1, <1>2, <2>1, <3>1 DEF Left
    <3>. QED BY <1>2, <3>2
  <2>2. CASE ~(\A i \in 1 .. Len(w) : w[i].told = 1)
    <3>1. \A i \in 1 .. Len(w) - 1 : w[i].told = 0
      BY <2>2 DEF WorkShape
    <3>2. Len(w) > 1
      <4>1. PICK i \in 1 .. Len(w) : w[i].told # 1
        BY <2>2
      <4>2. i # Len(w)
        BY <4>1 DEF WorkShape
      <4>. QED BY <1>2, <4>1, <4>2
    <3>3. Head(w).told = 0 /\ Left(w) = 1
      BY <1>1, <1>2, <2>2, <3>1, <3>2 DEF Left
    <3>4. Left(Tail(w)) = 1
      <4>1. CASE \A i \in 1 .. Len(Tail(w)) : Tail(w)[i].told = 1
        <5>1. Len(w) = 2
          <6>. SUFFICES ASSUME Len(w) # 2 PROVE FALSE
            OBVIOUS
          <6>1. 1 \in 1 .. Len(w) - 1 /\ 2 \in 1 .. Len(w) - 1
            <7>1. \A n \in Nat : n > 1 /\ n # 2 => 1 \in 1 .. n - 1 /\ 2 \in 1 .. n - 1
              OBVIOUS
            <7>. QED BY <1>2, <3>2, <7>1
          <6>2. Tail(w)[1] = w[2]
            BY <1>1, <6>1
          <6>3. 1 \in 1 .. Len(Tail(w))
            BY <1>1, <6>1
          <6>. QED BY <3>1, <4>1, <6>1, <6>2, <6>3
        <5>. QED BY <1>1, <4>1, <5>1 DEF Left
      <4>2. CASE ~(\A i \in 1 .. Len(Tail(w)) : Tail(w)[i].told = 1)
        BY <4>2 DEF Left
      <4>. QED BY <4>1, <4>2
    <3>. QED BY <3>3, <3>4
  <2>. QED BY <2>1, <2>2
<1>. QED BY <1>1, <1>4, <1>5

KindOf(s) ==
  IF s = 1 THEN "slot" ELSE IF s = 2 THEN "address" ELSE IF s = 3 THEN "descriptor" ELSE
  IF s = 4 THEN "configuration" ELSE IF s \in {5, 7} THEN "endpoint" ELSE IF s \in {6, 8} THEN "noop" ELSE
  IF s = 9 THEN "setconfig" ELSE IF s = 10 THEN "lun" ELSE "out"

(* The requests one by one: what they are, and what their blocks make of events. *)
LEMMA RequestIs ==
  ASSUME NEW s \in 1 .. 11
  PROVE  /\ X!Requests[s].kind = KindOf(s)
         /\ X!Requests[s].ring = "command" <=> s \in {1, 2, 5, 7}
BY DEF X!Requests, KindOf

LEMMA BlocksOf ==
  ASSUME NEW s \in 1 .. 11
  PROVE  /\ s = 3 => X!Blocks(KindOf(s)) = <<0, 0, 1>>
         /\ s \in {4, 10} => X!Blocks(KindOf(s)) = <<1, 1, 1>>
         /\ s = 9 => X!Blocks(KindOf(s)) = <<0, 1>>
         /\ s \notin {3, 4, 9, 10} => X!Blocks(KindOf(s)) = <<1>>
BY DEF X!Blocks, KindOf

LEMMA Counts ==
  ASSUME NEW s \in 1 .. 11
  PROVE  /\ ToldBy(s) - ToldBy(s - 1) = IF s \in {4, 10} THEN 3 ELSE 1
         /\ Commanded(s) - Commanded(s - 1) = IF s \in {1, 2, 5, 7} THEN 1 ELSE 0
BY DEF ToldBy, Commanded

(* The blocks of a request when they have been posted. *)
LEMMA Posted ==
  ASSUME NEW s \in 1 .. 11, NEW told, told = X!Blocks(X!Requests[s].kind),
         NEW w \in Seq(Works), Len(w) = Len(told), \A i \in 1 .. Len(told) : w[i].told = told[i]
  PROVE  /\ WorkShape(w)
         /\ Left(w) = ToldBy(s) - ToldBy(s - 1)
         /\ s \in {1, 2, 5, 7} => Len(told) = 1
<1>1. told = X!Blocks(KindOf(s))
  BY RequestIs
<1>2. CASE s = 3
  <2>0. told = <<0, 0, 1>>
    BY <1>1, <1>2, BlocksOf
  <2>1. Len(w) = 3 /\ w[1].told = 0 /\ w[2].told = 0 /\ w[3].told = 1
    BY <2>0
  <2>2. Left(w) = 1
    BY <2>1 DEF Left
  <2>3. \A i \in 1 .. Len(w) - 1 : w[i].told = 0
    BY <2>1
  <2>4. WorkShape(w)
    BY <2>1, <2>3 DEF WorkShape
  <2>. QED BY <1>2, <2>2, <2>4, Counts
<1>3. CASE s \in {4, 10}
  <2>0. told = <<1, 1, 1>>
    BY <1>1, <1>3, BlocksOf
  <2>1. Len(w) = 3 /\ w[1].told = 1 /\ w[2].told = 1 /\ w[3].told = 1
    BY <2>0
  <2>2. \A i \in 1 .. Len(w) : w[i].told = 1
    BY <2>1
  <2>3. WorkShape(w) /\ Left(w) = 3
    BY <2>1, <2>2 DEF WorkShape, Left
  <2>. QED BY <1>3, <2>3, Counts
<1>4. CASE s = 9
  <2>0. told = <<0, 1>>
    BY <1>1, <1>4, BlocksOf
  <2>1. Len(w) = 2 /\ w[1].told = 0 /\ w[2].told = 1
    BY <2>0
  <2>2. Left(w) = 1
    BY <2>1 DEF Left
  <2>3. \A i \in 1 .. Len(w) - 1 : w[i].told = 0
    BY <2>1
  <2>4. WorkShape(w)
    BY <2>1, <2>3 DEF WorkShape
  <2>. QED BY <1>4, <2>2, <2>4, Counts
<1>5. CASE s \notin {3, 4, 9, 10}
  <2>0. told = <<1>>
    BY <1>1, <1>5, BlocksOf
  <2>1. Len(told) = 1 /\ Len(w) = 1 /\ w[1].told = 1
    BY <2>0
  <2>2. \A i \in 1 .. Len(w) : w[i].told = 1
    BY <2>1
  <2>3. WorkShape(w) /\ Left(w) = 1
    BY <2>1, <2>2 DEF WorkShape, Left
  <2>. QED BY <1>5, <2>1, <2>3, Counts
<1>. QED BY <1>2, <1>3, <1>4, <1>5

LEMMA CommandRingIs ==
  ASSUME X!ConstantsAssumption
  PROVE  /\ CommandRing \in X!AllRings
         /\ \A s \in 1 .. 11, p \in 1 .. XhciPorts :
              /\ X!Ring(X!Requests[s].ring, p) \in X!AllRings
              /\ X!Ring(X!Requests[s].ring, p) = CommandRing <=> s \in {1, 2, 5, 7}
              /\ X!Ring(X!Requests[s].ring, p)[1] = "command" <=> s \in {1, 2, 5, 7}
<1>1. CommandRing \in X!AllRings
  <2>1. 1 \in 1 .. XhciPorts /\ "command" \in X!RingNames
    BY DEF X!ConstantsAssumption, X!RingNames
  <2>2. CommandRing = X!Ring("command", 1)
    BY DEF X!Ring, CommandRing
  <2>. QED BY <2>1, <2>2, RingType
<1>2. ASSUME NEW s \in 1 .. 11, NEW p \in 1 .. XhciPorts
      PROVE  /\ X!Ring(X!Requests[s].ring, p) \in X!AllRings
             /\ X!Ring(X!Requests[s].ring, p) = CommandRing <=> s \in {1, 2, 5, 7}
             /\ X!Ring(X!Requests[s].ring, p)[1] = "command" <=> s \in {1, 2, 5, 7}
  <2>1. X!Requests[s].ring \in X!RingNames
    BY RequestsType
  <2>2. X!Requests[s].ring = "command" <=> s \in {1, 2, 5, 7}
    BY RequestIs
  <2>. QED BY <2>1, <2>2, RingType DEF X!Ring, CommandRing
<1>. QED BY <1>1, <1>2

LEMMA ExpectedType ==
  ASSUME X!ConstantsAssumption, XTypeInv
  PROVE  /\ IsFiniteSet(silent) /\ Cardinality(silent) \in Nat /\ Cardinality(silent) <= XhciPorts
         /\ Len(events) \in Nat /\ Left(work) \in Nat /\ Expected \in Nat
<1>1. IsFiniteSet(1 .. XhciPorts) /\ Cardinality(1 .. XhciPorts) = XhciPorts
  BY FS_Interval DEF X!ConstantsAssumption
<1>2. IsFiniteSet(silent) /\ Cardinality(silent) \in Nat /\ Cardinality(silent) <= XhciPorts
  <2>1. silent \subseteq 1 .. XhciPorts
    BY DEF XTypeInv
  <2>2. IsFiniteSet(silent) /\ Cardinality(silent) <= Cardinality(1 .. XhciPorts)
    BY <1>1, <2>1, FS_Subset
  <2>3. Cardinality(silent) \in Nat
    BY <2>2, FS_CardinalityType
  <2>. QED BY <1>1, <2>2, <2>3
<1>3. Len(events) \in Nat /\ Left(work) \in Nat
  BY LenProperties, LeftType DEF XTypeInv
<1>. QED BY <1>2, <1>3 DEF Expected

LEMMA FitInit == X!ConstantsAssumption /\ X!Init => FitInv
<1>. SUFFICES ASSUME X!ConstantsAssumption, X!Init PROVE FitInv
  OBVIOUS
<1>1. XInv
  BY XInitInv
<1>2. Cardinality(silent) \in Nat /\ Cardinality(silent) <= XhciPorts
  BY <1>1, ExpectedType DEF XInv
<1>3. work = <<>> /\ Left(work) = 0 /\ WorkShape(work) /\ Len(events) = 0
  BY EmptyWork DEF X!Init
<1>4. Expected <= XhciPorts /\ Expected <= XhciPorts + 22
  BY <1>2, <1>3 DEF Expected, X!ConstantsAssumption
<1>5. filled[CommandRing] = 0
  BY CommandRingIs DEF X!Init
<1>6. CountInv
  BY <1>3, <1>4, <1>5 DEF CountInv, X!Init
<1>. QED BY <1>1, <1>3, <1>6 DEF FitInv, MatchInv, X!Init

-----------------------------------------------------------------------------
(* Steps that leave the rings alone. *)
LEMMA Resting ==
  ASSUME FitInv, XInv', UNCHANGED <<filled, work, events, slots, silent>>, phase' # "ports",
         phase' \in {"start", "legacy", "stop", "reset"} => phase \in {"start", "legacy", "stop", "reset"},
         target' = None \/ UNCHANGED <<target, step, portid>>
  PROVE  FitInv'
<1>1. MatchInv'
  BY DEF FitInv, MatchInv, X!Matches
<1>2. CountInv'
  BY DEF FitInv, CountInv, Expected
<1>. QED BY <1>1, <1>2 DEF FitInv

LEMMA Unmoved ==
  ASSUME FitInv, XInv', UNCHANGED <<phase, filled, work, target, events, slots, silent, portid, step>>
  PROVE  FitInv'
<1>1. MatchInv'
  BY DEF FitInv, MatchInv, X!Matches
<1>2. CountInv'
  BY DEF FitInv, CountInv, Expected, Installing, Second, Begun, X!Matches
<1>. QED BY <1>1, <1>2 DEF FitInv

LEMMA Between ==
  ASSUME X!ConstantsAssumption, FitInv, XInv', UNCHANGED <<filled, work, target, events, slots, silent>>,
         \/ phase = "ports"
         \/ phase = "reset",
         phase' = "ports", step = 0, step' \in {0, 1}
  PROVE  FitInv'
<1>1. target = None /\ target' = None
  BY DEF FitInv, XInv, XTypeInv
<1>2. Begun = 0 /\ Begun' = 0
  BY <1>1 DEF Begun
<1>3. Expected' = Expected
  BY DEF Expected
<1>4. CountInv'
  <2>1. ASSUME NEW c, NEW n, NEW e, Installing(c, n, e)
        PROVE  Installing(c, n, e)'
    BY <1>1, <1>2, <1>3, <2>1 DEF Installing
  <2>2. Commanded(0) = 0 /\ ToldBy(0) = 0
    BY DEF Commanded, ToldBy
  <2>3. CASE phase = "ports"
    <3>1. Installing(0, 0, 0) => Installing(0, 0, 0)'
      BY <2>1
    <3>2. Second => Second'
      BY <2>1 DEF Second
    <3>. QED BY <1>1, <1>3, <2>3, <3>1, <3>2 DEF FitInv, CountInv
  <2>4. CASE phase = "reset"
    <3>1. Installing(0, 0, 0)'
      BY <1>1, <1>2, <1>3, <2>2, <2>4 DEF Installing, FitInv, CountInv, X!ConstantsAssumption
    <3>2. \A i \in 1 .. Len(work') : FALSE
      BY <2>4, EmptyWork DEF FitInv, CountInv
    <3>. QED BY <1>3, <3>1, <3>2 DEF FitInv, CountInv
  <2>. QED BY <2>3, <2>4
<1>5. MatchInv'
  BY <1>1 DEF MatchInv
<1>. QED BY <1>4, <1>5 DEF FitInv

(* What is found in the event ring. *)
LEMMA AnswerIs ==
  ASSUME FitInv, target # None, X!Matches # {}
  PROVE  /\ X!Answer \in {events[i] : i \in X!Matches}
         /\ work = <<>>
<1>1. PICK i \in X!Matches : TRUE
  OBVIOUS
<1>2. X!Matches = {i}
  BY <1>1 DEF FitInv, MatchInv
<1>3. i \in Nat
  BY <1>1 DEF X!Matches, FitInv, XInv, XTypeInv
<1>4. (CHOOSE k \in X!Matches : \A j \in X!Matches : k <= j) = i
  BY <1>2, <1>3
<1>. QED BY <1>2, <1>4 DEF X!Answer, X!FirstMatch, FitInv, MatchInv

(* The driver turns to another request at the same port. *)
LEMMA AnotherRequest ==
  ASSUME X!ConstantsAssumption, FitInv, XInv', phase = "ports", phase' = "ports", target # None, target' = None,
         UNCHANGED <<filled, work, events, slots, silent>>,
         \/ step' = step + 1 /\ X!Succeeded
         \/ step \in {5, 6} /\ step' = 7
  PROVE  FitInv'
<1>1. step \in 1 .. 11 /\ step' \in 1 .. 11 /\ step' > 1
  BY DEF FitInv, XInv, XTypeInv
<1>2. /\ Begun = step /\ Begun' = step' - 1
      /\ Begun' = Begun \/ (Begun = 5 /\ Begun' = 6)
  <2>1. Begun = step
    BY DEF Begun
  <2>2. step' # 0
    BY <1>1
  <2>3. Begun' = step' - 1
    BY <2>2 DEF Begun
  <2>4. step' = step + 1 \/ (step \in {5, 6} /\ step' = 7)
    OBVIOUS
  <2>. HIDE DEF Begun
  <2>5. CASE step' = step + 1
    BY <1>1, <2>1, <2>3, <2>5
  <2>6. CASE step \in {5, 6} /\ step' = 7
    BY <1>1, <2>1, <2>3, <2>6
  <2>. QED BY <2>4, <2>5, <2>6
<1>3. Expected' = Expected /\ Expected \in Nat
  BY ExpectedType DEF Expected, FitInv, XInv
<1>4. X!Succeeded => X!Matches # {} /\ (step = 1 => \E i \in X!Matches : events[i].code = 1)
                       /\ (step \in {5, 7} => \E i \in X!Matches : events[i].slot = 1)
  <2>1. X!Kind = KindOf(step)
    BY <1>1, RequestIs DEF X!Kind
  <2>2. step = 1 => X!Kind # "out"
    BY <2>1 DEF KindOf
  <2>3. step \in {5, 7} => X!Kind = "endpoint"
    BY <2>1 DEF KindOf
  <2>. QED BY <2>2, <2>3, AnswerIs DEF X!Succeeded
<1>5. ASSUME NEW c \in Nat, NEW n \in Nat, NEW e \in Nat, Installing(c, n, e)
      PROVE  Installing(c, n, e)'
  <2>1. filled'[CommandRing] = c + Commanded(Begun')
    <3>1. Commanded(Begun') = Commanded(Begun)
      <4>1. Commanded(5) = 3 /\ Commanded(6) = 3
        BY DEF Commanded
      <4>. QED BY <1>2, <4>1
    <3>. QED BY <1>5, <3>1 DEF Installing
  <2>2. ToldBy(Begun) <= ToldBy(Begun') /\ ToldBy(Begun) \in Nat /\ ToldBy(Begun') \in Nat
    <3>1. ToldBy(5) = 7 /\ ToldBy(6) = 8
      BY DEF ToldBy
    <3>2. ToldBy(step) \in Nat
      BY <1>1 DEF ToldBy
    <3>. QED BY <1>1, <1>2, <3>1, <3>2
  <2>3. Expected' <= XhciPorts + n + ToldBy(Begun')
    BY <1>3, <1>5, <2>2 DEF Installing, X!ConstantsAssumption
  <2>4. slots' = e + 1
    BY <1>1, <1>4, <1>5 DEF Installing
  <2>. QED BY <1>1, <2>1, <2>3, <2>4 DEF Installing
<1>6. Installing(0, 0, 0) => Installing(0, 0, 0)'
  BY <1>5
<1>7. ASSUME Second PROVE Second'
  <2>1. Installing(4, 14, 1)'
    BY <1>5, <1>7 DEF Second
  <2>2. ~(step \in {5, 7} /\ X!Succeeded)
    <3>. SUFFICES ASSUME step \in {5, 7}, X!Succeeded PROVE FALSE
      OBVIOUS
    <3>1. slots = 2
      BY <1>7 DEF Second, Installing
    <3>. QED BY <1>4, <3>1 DEF FitInv, MatchInv
  <2>3. step' <= 5 \/ (step = 5 /\ step' = 7)
    BY <1>1, <1>7, <2>2 DEF Second
  <2>4. step' = 7 => Expected' < XhciPorts + 14 + ToldBy(Begun')
    <3>. SUFFICES ASSUME step' = 7 PROVE Expected' < XhciPorts + 14 + ToldBy(Begun')
      OBVIOUS
    <3>1. ToldBy(Begun) = 7 /\ ToldBy(Begun') = 8
      BY <1>2, <2>3 DEF ToldBy
    <3>. QED BY <1>3, <1>7, <3>1 DEF Second, Installing, X!ConstantsAssumption
  <2>. QED BY <1>1, <2>1, <2>3, <2>4 DEF Second
<1>8. CountInv'
  BY <1>1, <1>3, <1>6, <1>7 DEF FitInv, CountInv
<1>. QED BY <1>8 DEF FitInv, MatchInv

(* The driver turns to the next port after the first device. *)
LEMMA NextDevice ==
  ASSUME X!ConstantsAssumption, FitInv, XInv', phase = "ports", phase' = "ports", target # None, target' = None,
         UNCHANGED <<filled, work, events, slots, silent>>, step \in {9, 10}, step' = 0
  PROVE  FitInv'
<1>1. Begun = step /\ Begun' = 0
  BY DEF Begun
<1>2. Expected' = Expected /\ Expected \in Nat
  BY ExpectedType DEF Expected, FitInv, XInv
<1>3. Installing(0, 0, 0)
  BY DEF FitInv, CountInv, Second
<1>4. Commanded(Begun) = 4 /\ Commanded(Begun') = 0 /\ ToldBy(Begun) <= 14 /\ ToldBy(Begun) \in Nat /\ ToldBy(Begun') = 0
  BY <1>1 DEF Commanded, ToldBy
<1>5. Second'
  <2>1. filled'[CommandRing] = 4 /\ Expected' <= XhciPorts + 14 /\ slots' = 1
    BY <1>2, <1>3, <1>4 DEF Installing, X!ConstantsAssumption
  <2>. QED BY <1>4, <2>1 DEF Second, Installing, X!ConstantsAssumption
<1>6. \A i \in 1 .. Len(work') : work'[i].block[1] # CommandRing
  <2>1. target[1] # CommandRing
    <3>1. portid \in 1 .. XhciPorts /\ step \in 1 .. 11 /\ step \notin {1, 2, 5, 7}
      BY DEF FitInv, XInv, XTypeInv
    <3>. QED BY <3>1, CommandRingIs DEF FitInv, MatchInv
  <2>. QED BY <2>1 DEF FitInv, MatchInv
<1>7. CountInv'
  BY <1>2, <1>5, <1>6 DEF FitInv, CountInv
<1>. QED BY <1>7 DEF FitInv, MatchInv

LEMMA ContinueFit == X!ConstantsAssumption /\ FitInv /\ X!Continue => FitInv'
<1>. SUFFICES ASSUME X!ConstantsAssumption, FitInv, X!Continue PROVE FitInv'
  OBVIOUS
<1>1. XInv'
  BY XNextInv DEF FitInv, X!Next, X!Driver
<1>2. /\ UNCHANGED <<filled, work, events, slots, silent>> /\ phase = "ports"
      /\ target # None /\ target' = None /\ X!Succeeded
      /\ step \in 1 .. 11
  BY DEF X!Continue, X!Answered, X!Looking, FitInv, XInv, XTypeInv
<1>3. \/ step' = step + 1 /\ phase' = phase
      \/ phase' \in {"stopped", "stub"}
      \/ step' = 0 /\ phase' = phase /\ step = 9
  <2>1. X!LastFor(devices[portid]) \in {4, 9, 11}
    BY DEF X!LastFor, X!Requests
  <2>2. CASE step < X!LastFor(devices[portid]) /\ step # X!LastFor(devices[portid])
    BY <2>1, <2>2 DEF X!Continue
  <2>3. CASE step = X!LastFor(devices[portid])
    <3>1. X!Kind = IF step = 4 THEN "configuration" ELSE IF step = 9 THEN "setconfig" ELSE "out"
      BY <1>2, <2>1, <2>3, RequestIs DEF KindOf, X!Kind
    <3>2. CASE step = 4
      BY <2>3, <3>1, <3>2 DEF X!Continue
    <3>3. CASE step = 9
      BY <2>3, <3>1, <3>3 DEF X!Continue, X!NextPort
    <3>4. CASE step = 11
      BY <2>3, <3>1, <3>4 DEF X!Continue
    <3>. QED BY <2>1, <2>3, <3>2, <3>3, <3>4
  <2>4. step < X!LastFor(devices[portid]) \/ step = X!LastFor(devices[portid])
    BY DEF X!Continue
  <2>. QED BY <1>2, <2>1, <2>2, <2>3, <2>4
<1>4. CASE step' = step + 1 /\ phase' = phase
  BY <1>1, <1>2, <1>4, AnotherRequest
<1>5. CASE phase' \in {"stopped", "stub"}
  BY <1>1, <1>2, <1>5, Resting
<1>6. CASE step' = 0 /\ phase' = phase /\ step = 9
  BY <1>1, <1>2, <1>6, NextDevice
<1>. QED BY <1>3, <1>4, <1>5, <1>6

LEMMA FailFit == X!ConstantsAssumption /\ FitInv /\ X!Fail => FitInv'
<1>. SUFFICES ASSUME X!ConstantsAssumption, FitInv, X!Fail PROVE FitInv'
  OBVIOUS
<1>1. XInv'
  BY XNextInv DEF FitInv, X!Next, X!Driver
<1>2. /\ UNCHANGED <<filled, work, events, slots, silent>> /\ phase = "ports"
      /\ target # None /\ target' = None /\ ~X!Succeeded
      /\ step \in 1 .. 11
  BY DEF X!Fail, X!Answered, X!Looking, FitInv, XInv, XTypeInv
<1>3. CASE X!Stops
  <2>1. phase' = "stopped"
    BY <1>3 DEF X!Fail
  <2>. QED BY <1>1, <1>2, <2>1, Resting
<1>4. CASE ~X!Stops /\ step \in {5, 6}
  <2>1. step' = 7 /\ phase' = phase
    BY <1>4 DEF X!Fail
  <2>. QED BY <1>1, <1>2, <1>4, <2>1, AnotherRequest
<1>5. CASE ~X!Stops /\ step \notin {5, 6}
  <2>1. step' = 0 /\ phase' = phase
    BY <1>5 DEF X!Fail, X!NextPort
  <2>2. step = 10
    <3>1. X!Kind = KindOf(step)
      BY <1>2, RequestIs DEF X!Kind
    <3>. QED BY <1>2, <1>5, <3>1 DEF X!Stops, KindOf
  <2>. QED BY <1>1, <1>2, <2>1, <2>2, NextDevice
<1>. QED BY <1>3, <1>4, <1>5

LEMMA PostFit == X!ConstantsAssumption /\ None \notin BlockRecords /\ FitInv /\ X!Post => FitInv'
<1>. SUFFICES ASSUME X!ConstantsAssumption, None \notin BlockRecords, FitInv, X!Post PROVE FitInv'
  OBVIOUS
<1>1. XInv' /\ XInv
  BY XNextInv DEF FitInv, X!Next, X!Driver
<1>. DEFINE told == X!Blocks(X!Requests[step].kind)
            ring == X!Ring(X!Requests[step].ring, portid)
<1>2. step \in 1 .. 11 /\ portid \in 1 .. XhciPorts /\ target = None /\ phase = "ports"
  BY DEF X!Post, FitInv, XInv, XTypeInv
<1>3. /\ Len(told) \in 1 .. 3 /\ DOMAIN told = 1 .. Len(told)
  BY BlocksType
<1>4. ring \in X!AllRings /\ (ring = CommandRing <=> step \in {1, 2, 5, 7})
  BY <1>2, CommandRingIs
<1>5. told = X!Blocks(X!Requests[step].kind)
  OBVIOUS
<1>6. ring = X!Ring(X!Requests[step].ring, portid)
  OBVIOUS
<1>. HIDE DEF told, ring
<1>7. /\ work' = [i \in 1 .. Len(told) |-> [block |-> <<ring, filled[ring] + i>>, told |-> told[i]]]
      /\ target' = <<ring, filled[ring] + Len(told)>>
      /\ filled' = [filled EXCEPT ![ring] = @ + Len(told)]
      /\ UNCHANGED <<phase, events, slots, silent, portid, step>>
  BY <1>3 DEF X!Post, X!PlaceAfter, told, ring
<1>8. filled \in [X!AllRings -> Nat] /\ filled[ring] \in Nat /\ CommandRing \in X!AllRings
  BY <1>4, CommandRingIs DEF FitInv, XInv, XTypeInv
<1>9. work' \in Seq(Works) /\ Len(work') = Len(told)
      /\ \A i \in 1 .. Len(told) : work'[i].told = told[i] /\ work'[i].block = <<ring, filled[ring] + i>>
  <2>1. work' \in Seq(Works)
    BY <1>1 DEF XInv, XTypeInv
  <2>2. DOMAIN work' = 1 .. Len(told) /\ DOMAIN work' = 1 .. Len(work') /\ Len(work') \in Nat
    BY <1>7, <2>1, LenProperties
  <2>3. Len(work') = Len(told)
    BY <1>3, <2>2
  <2>. QED BY <1>7, <2>1, <2>3
<1>10. /\ WorkShape(work') /\ Left(work') = ToldBy(step) - ToldBy(step - 1)
       /\ step \in {1, 2, 5, 7} => Len(told) = 1
  BY <1>2, <1>5, <1>9, Posted
<1>11. target' \in BlockRecords /\ target' # None /\ target'[1] = ring
  BY <1>3, <1>4, <1>7, <1>8 DEF BlockRecords
<1>12. X!Matches' = {}
  <2>0. DOMAIN events = 1 .. Len(events) /\ events' = events
    BY <1>1, <1>7 DEF XInv, XTypeInv
  <2>. SUFFICES ASSUME NEW i \in 1 .. Len(events), events[i].block = target' PROVE FALSE
    BY <2>0 DEF X!Matches
  <2>1. Past(target')
    BY <1>1, <1>11 DEF XInv, PastInv
  <2>. QED BY <1>3, <1>7, <1>8, <2>1 DEF Past
<1>13. MatchInv'
  <2>1. step = 1 => Len(work') <= 1
    BY <1>9, <1>10
  <2>2. ASSUME NEW i \in 1 .. Len(work')
        PROVE  work'[i].block[1] = target'[1] /\ (work'[i].block = target' <=> i = Len(work'))
    <3>1. i \in 1 .. Len(told) /\ work'[i].block = <<ring, filled[ring] + i>>
      BY <1>9, <2>2
    <3>2. filled[ring] + i = filled[ring] + Len(told) <=> i = Len(told)
      <4>1. \A f, k, l \in Nat : f + k = f + l <=> k = l
        OBVIOUS
      <4>2. filled[ring] \in Nat /\ i \in Nat /\ Len(told) \in Nat
        BY <1>3, <1>8, <3>1
      <4>. QED BY <4>1, <4>2
    <3>. QED BY <1>7, <1>9, <3>1, <3>2
  <2>. QED BY <1>6, <1>7, <1>11, <1>12, <2>1, <2>2 DEF MatchInv
<1>14. Begun = step - 1 /\ Begun' = step
  BY <1>2, <1>7, <1>11 DEF Begun
<1>15. /\ Expected \in Nat /\ Expected' \in Nat /\ XhciPorts \in Nat
       /\ Expected' <= Expected + (ToldBy(Begun') - ToldBy(Begun))
  <2>1. Len(events) \in Nat /\ Cardinality(silent) \in Nat /\ Left(work) \in Nat
    BY <1>1, ExpectedType DEF XInv
  <2>2. ToldBy(step) - ToldBy(step - 1) \in Nat
    BY <1>2, Counts
  <2>3. Expected' = Len(events) + Cardinality(silent) + (ToldBy(step) - ToldBy(step - 1))
    BY <1>7, <1>10 DEF Expected
  <2>. QED BY <1>14, <2>1, <2>2, <2>3 DEF Expected, X!ConstantsAssumption
<1>16. filled'[CommandRing] = filled[CommandRing] + (Commanded(Begun') - Commanded(Begun))
  <2>1. Commanded(step) - Commanded(step - 1) = IF step \in {1, 2, 5, 7} THEN 1 ELSE 0
    BY <1>2, Counts
  <2>2. filled[CommandRing] \in Nat
    BY <1>8
  <2>3. CASE step \in {1, 2, 5, 7}
    BY <1>4, <1>7, <1>8, <1>10, <1>14, <2>1, <2>3
  <2>4. CASE step \notin {1, 2, 5, 7}
    BY <1>4, <1>7, <1>8, <1>14, <2>1, <2>2, <2>4
  <2>. QED BY <2>3, <2>4
<1>17. /\ ToldBy(Begun) \in Nat /\ ToldBy(Begun') \in Nat
       /\ Commanded(Begun) \in Nat /\ Commanded(Begun') \in Nat
  BY <1>2, <1>14 DEF ToldBy, Commanded
<1>18. ASSUME NEW c \in Nat, NEW n \in Nat, NEW e \in Nat, Installing(c, n, e)
       PROVE  Installing(c, n, e)'
  <2>1. filled'[CommandRing] = c + Commanded(Begun')
    BY <1>16, <1>17, <1>18 DEF Installing
  <2>2. Expected' <= XhciPorts + n + ToldBy(Begun')
    BY <1>15, <1>17, <1>18 DEF Installing
  <2>3. (step > 1 /\ slots = e + 1) \/ (step <= 1 /\ slots = e)
    BY <1>2, <1>18 DEF Installing
  <2>. QED BY <1>7, <1>12, <2>1, <2>2, <2>3 DEF Installing
<1>19. Second => Second'
  BY <1>7, <1>15, <1>17, <1>18 DEF Second
<1>20. Expected' <= XhciPorts + 22
  <2>1. Installing(0, 0, 0)' \/ Second'
    BY <1>2, <1>18, <1>19 DEF FitInv, CountInv
  <2>2. ToldBy(Begun') <= 15 /\ (step <= 5 => ToldBy(Begun') <= 7) /\ (step = 7 => ToldBy(Begun') = 9)
    BY <1>2, <1>14 DEF ToldBy
  <2>3. CASE Installing(0, 0, 0)'
    BY <1>15, <1>17, <2>2, <2>3 DEF Installing
  <2>4. CASE Second'
    <3>1. step' = step
      BY <1>7
    <3>. QED BY <1>15, <1>17, <2>2, <2>4, <3>1 DEF Second, Installing
  <2>. QED BY <2>1, <2>3, <2>4
<1>21. CountInv'
  BY <1>2, <1>7, <1>11, <1>18, <1>19, <1>20 DEF FitInv, CountInv
<1>. QED BY <1>1, <1>10, <1>13, <1>21 DEF FitInv

LEMMA PortChangesFit == X!ConstantsAssumption /\ FitInv /\ X!PortChanges => FitInv'
<1>. SUFFICES ASSUME X!ConstantsAssumption, FitInv, X!PortChanges PROVE FitInv'
  OBVIOUS
<1>1. XInv' /\ XInv
  BY XNextInv DEF FitInv, X!Next, X!Driver
<1>2. UNCHANGED <<phase, filled, work, target, slots, portid, step>> /\ silent' = {}
  BY DEF X!PortChanges, X!install
<1>3. /\ Len(events') = Len(events) + Cardinality(silent) /\ Len(events) \in Nat
      /\ \A i \in 1 .. Len(events') :
           (i \in 1 .. Len(events) /\ events'[i] = events[i])
             \/ (i > Len(events) /\ events'[i].block = None)
  BY <1>1, ChangesTold DEF XInv
<1>4. Cardinality(silent) \in Nat /\ Left(work) \in Nat
  BY <1>1, ExpectedType DEF XInv
<1>5. Expected' = Expected
  <2>1. Cardinality(silent') = 0
    BY <1>2, FS_EmptySet
  <2>. QED BY <1>2, <1>3, <1>4, <2>1 DEF Expected
<1>6. ASSUME target # None
      PROVE  X!Matches' = X!Matches /\ \A i \in X!Matches : events'[i] = events[i]
  <2>1. DOMAIN events = 1 .. Len(events) /\ DOMAIN events' = 1 .. Len(events')
    BY <1>1 DEF XInv, XTypeInv
  <2>2. \A i \in 1 .. Len(events) : i \in 1 .. Len(events') /\ events'[i] = events[i]
    BY <1>3, <1>4
  <2>3. \A i \in 1 .. Len(events') : events'[i].block = target => i \in 1 .. Len(events) /\ events'[i] = events[i]
    BY <1>3, <1>6
  <2>. QED BY <1>2, <2>1, <2>2, <2>3 DEF X!Matches
<1>7. MatchInv'
  BY <1>2, <1>6 DEF FitInv, MatchInv
<1>8. Begun' = Begun
  BY <1>2 DEF Begun
<1>9. CountInv'
  <2>1. ASSUME NEW c, NEW n, NEW e, Installing(c, n, e) PROVE Installing(c, n, e)'
    BY <1>2, <1>5, <1>6, <1>8, <2>1 DEF Installing
  <2>2. Second => Second'
    BY <1>2, <1>5, <1>8, <2>1 DEF Second
  <2>3. phase' \notin {"start", "legacy", "stop", "reset"}
    BY <1>2 DEF X!PortChanges
  <2>. QED BY <1>2, <1>5, <2>1, <2>2, <2>3 DEF FitInv, CountInv
<1>. QED BY <1>1, <1>2, <1>7, <1>9 DEF FitInv

(* The first block of the controller's work, and the event of it when it is done or failed at. *)
Foremost == work[1]
Enabled == IF Foremost.block[1][1] = "command" /\ step = 1 THEN slots + 1 ELSE slots
DoneEvent == [block |-> Foremost.block, code |-> 1, slot |-> Enabled]
MissedEvent == [block |-> Foremost.block, code |-> 6, slot |-> slots]

LEMMA DoBlockIs ==
  ASSUME FitInv, X!DoBlock
  PROVE  /\ UNCHANGED <<phase, filled, target, silent, portid, step>>
         /\ work # <<>>
         /\ \/ /\ work' = Tail(work) /\ slots' = Enabled
               /\ \/ Foremost.told = 1 /\ events' = Append(events, DoneEvent)
                  \/ Foremost.told = 0 /\ events' = events
            \/ work' = <<>> /\ slots' = slots /\ events' = Append(events, MissedEvent)
<1>1. work # <<>>
  BY DEF X!DoBlock
<1>2. Head(work) = Foremost /\ Foremost.told \in {0, 1}
  BY <1>1, LeftTail DEF FitInv, XInv, XTypeInv, Works, Foremost
<1>3. \/ /\ work' = Tail(work) /\ slots' = Enabled
         /\ \/ Foremost.told = 1 /\ events' = Append(events, DoneEvent)
            \/ Foremost.told # 1 /\ events' = events
      \/ work' = <<>> /\ slots' = slots /\ events' = Append(events, MissedEvent)
  BY <1>1, <1>2 DEF X!DoBlock, Enabled, DoneEvent, MissedEvent
<1>. QED BY <1>1, <1>2, <1>3 DEF X!DoBlock, X!install

LEMMA CommandRings == \A r \in X!AllRings : r[1] = "command" <=> r = CommandRing
BY DEF X!AllRings, X!Ring, CommandRing

LEMMA DoBlockFit == X!ConstantsAssumption /\ FitInv /\ X!DoBlock => FitInv'
<1>. SUFFICES ASSUME X!ConstantsAssumption, FitInv, X!DoBlock PROVE FitInv'
  OBVIOUS
<1>1. XInv' /\ XInv
  BY XNextInv DEF FitInv, X!Next
<1>2. UNCHANGED <<phase, filled, target, silent, portid, step>> /\ work # <<>>
  BY DoBlockIs
<1>3. \/ /\ work' = Tail(work) /\ slots' = Enabled
         /\ \/ Foremost.told = 1 /\ events' = Append(events, DoneEvent)
            \/ Foremost.told = 0 /\ events' = events
      \/ work' = <<>> /\ slots' = slots /\ events' = Append(events, MissedEvent)
  BY DoBlockIs
<1>4. /\ work \in Seq(Works) /\ work' \in Seq(Works) /\ slots \in Nat
      /\ events \in Seq(Events) /\ events' \in Seq(Events) /\ Foremost \in Works
      /\ Len(work) \in Nat /\ Len(work) >= 1 /\ Left(work) \in Nat /\ Left(work) >= 1 /\ Left(work') \in Nat
  <2>1. /\ work \in Seq(Works) /\ work' \in Seq(Works) /\ slots \in Nat
        /\ events \in Seq(Events) /\ events' \in Seq(Events)
    BY <1>1 DEF XInv, XTypeInv
  <2>2. Foremost \in Works
    BY <1>2, <2>1, LeftTail DEF FitInv, Foremost
  <2>. QED BY <1>2, <2>1, <2>2, LeftType
<1>5. WorkShape(work') /\ (work' = Tail(work) => Left(work') + Foremost.told <= Left(work))
  <2>1. CASE work' = <<>>
    <3>1. work' = Tail(work) => Left(work') + Foremost.told <= Left(work)
      BY <1>2, <1>4, LeftTail DEF FitInv, Foremost
    <3>. QED BY <2>1, <3>1, EmptyWork
  <2>2. CASE work' = Tail(work)
    BY <1>2, <1>4, <2>2, LeftTail DEF FitInv, Foremost
  <2>. QED BY <1>3, <2>1, <2>2
<1>6. \/ work' = <<>> /\ Len(work') = 0
      \/ Len(work') = Len(work) - 1 /\ \A i \in 1 .. Len(work') : work'[i] = work[i + 1]
  <2>1. CASE work' = <<>>
    BY <2>1, EmptyWork
  <2>2. CASE work' = Tail(work)
    BY <1>2, <1>4, <2>2, LeftTail DEF FitInv
  <2>. QED BY <1>3, <2>1, <2>2
<1>7. ASSUME NEW e, e = DoneEvent \/ e = MissedEvent, events' = Append(events, e)
      PROVE  /\ Len(events') = Len(events) + 1 /\ Len(events) \in Nat
             /\ \A i \in 1 .. Len(events) : events'[i] = events[i]
             /\ events'[Len(events) + 1] = e
  <2>1. e \in Events
    <3>1. Enabled \in Nat
      BY <1>4 DEF Enabled
    <3>2. DoneEvent \in Events /\ MissedEvent \in Events
      BY <1>4, <3>1 DEF Events, Works, DoneEvent, MissedEvent
    <3>. QED BY <1>7, <3>2
  <2>. QED BY <1>4, <1>7, <2>1, AppendProperties, LenProperties
(* What the controller may store next to what the driver waits for. *)
<1>8. ASSUME target # None
      PROVE  /\ X!Matches = {} /\ target[1] = Foremost.block[1] /\ (Foremost.block = target <=> Len(work) = 1)
             /\ \A i \in X!Matches' : i = Len(events) + 1 /\ events' # events /\ Len(work) = 1
  <2>1. X!Matches = {} /\ target[1] = Foremost.block[1] /\ (Foremost.block = target <=> Len(work) = 1)
    <3>1. 1 \in 1 .. Len(work)
      BY <1>4
    <3>. QED BY <1>2, <1>8, <3>1 DEF FitInv, MatchInv, Foremost
  <2>2. CASE events' = events
    <3>1. X!Matches' = X!Matches
      BY <1>2, <2>2 DEF X!Matches
    <3>. QED BY <2>1, <3>1
  <2>3. ASSUME NEW e, e = DoneEvent \/ e = MissedEvent, events' = Append(events, e),
               NEW i \in X!Matches'
        PROVE  i = Len(events) + 1 /\ events' # events /\ Len(work) = 1
    <3>1. i \in 1 .. Len(events') /\ events'[i].block = target
      BY <1>2, <1>4, <2>3 DEF X!Matches
    <3>2. /\ Len(events') = Len(events) + 1 /\ Len(events) \in Nat
          /\ \A j \in 1 .. Len(events) : events'[j] = events[j]
          /\ events'[Len(events) + 1] = e
      BY <1>7, <2>3
    <3>3. i \notin 1 .. Len(events)
      <4>. SUFFICES ASSUME i \in 1 .. Len(events) PROVE FALSE
        OBVIOUS
      <4>1. i \in DOMAIN events /\ events[i].block = target
        BY <1>4, <3>1, <3>2
      <4>. QED BY <2>1, <4>1 DEF X!Matches
    <3>4. i = Len(events) + 1
      BY <3>1, <3>2, <3>3
    <3>5. e.block = Foremost.block
      BY <2>3 DEF DoneEvent, MissedEvent
    <3>. QED BY <2>1, <3>1, <3>2, <3>4, <3>5
  <2>. QED BY <1>3, <2>1, <2>2, <2>3
<1>9. Begun' = Begun
  BY <1>2 DEF Begun
<1>10. Expected' <= Expected /\ Expected \in Nat /\ Expected' \in Nat
  <2>1. Len(events) \in Nat /\ Cardinality(silent) \in Nat /\ Cardinality(silent') = Cardinality(silent)
    BY <1>1, <1>2, ExpectedType DEF XInv
  <2>2. Len(events') + Left(work') <= Len(events) + Left(work)
    <3>1. CASE work' = Tail(work) /\ Foremost.told = 0 /\ events' = events
      BY <1>4, <1>5, <2>1, <3>1
    <3>2. CASE work' = Tail(work) /\ Foremost.told = 1 /\ events' = Append(events, DoneEvent)
      BY <1>4, <1>5, <1>7, <2>1, <3>2
    <3>3. CASE work' = <<>> /\ events' = Append(events, MissedEvent)
      BY <1>4, <1>7, <2>1, <3>3, EmptyWork
    <3>. QED BY <1>3, <3>1, <3>2, <3>3
  <2>3. Len(events') \in Nat
    BY <1>4, LenProperties
  <2>. QED BY <1>4, <2>1, <2>2, <2>3 DEF Expected
(* A slot is given only for the command of the first request. *)
<1>11. ASSUME step # 1 \/ (phase = "ports" /\ target = None)
       PROVE  Enabled = slots /\ slots' = slots
  <2>1. CASE step # 1
    BY <1>3, <2>1 DEF Enabled
  <2>2. CASE step = 1
    <3>1. Foremost.block[1] # CommandRing
      <4>1. 1 \in 1 .. Len(work)
        BY <1>4
      <4>. QED BY <1>11, <2>2, <4>1 DEF FitInv, CountInv, Foremost
    <3>2. Foremost.block[1] \in X!AllRings
      BY <1>4 DEF Works, BlockRecords
    <3>3. Enabled = slots
      BY <3>1, <3>2, CommandRings DEF Enabled
    <3>. QED BY <1>3, <3>3
  <2>. QED BY <2>1, <2>2
<1>12. step \in 0 .. 11 /\ (target # None => step >= 1)
  BY <1>1 DEF XInv, XTypeInv
<1>13. MatchInv'
  <2>. SUFFICES ASSUME target # None PROVE MatchInv'
    BY <1>2 DEF MatchInv
  <2>1. step = 1 => Len(work') <= 1
    <3>1. step = 1 => Len(work) <= 1
      BY <1>2 DEF FitInv, MatchInv
    <3>. QED BY <1>4, <1>6, <3>1
  <2>2. ASSUME NEW i \in 1 .. Len(work')
        PROVE  work'[i].block[1] = target[1] /\ (work'[i].block = target <=> i = Len(work'))
    <3>1. Len(work') = Len(work) - 1 /\ work'[i] = work[i + 1]
      BY <1>4, <1>6, <2>2
    <3>2. i + 1 \in 1 .. Len(work) /\ (i + 1 = Len(work) <=> i = Len(work'))
      BY <1>4, <2>2, <3>1
    <3>. QED BY <3>1, <3>2 DEF FitInv, MatchInv
  <2>3. work' # <<>> => X!Matches' = {}
    <3>. SUFFICES ASSUME work' # <<>>, X!Matches' # {} PROVE FALSE
      OBVIOUS
    <3>1. Len(work) = 1
      BY <1>8
    <3>2. Len(work') = 0
      BY <1>4, <1>6, <3>1
    <3>3. Len(work') >= 1
      BY <1>4, LeftType
    <3>. QED BY <3>2, <3>3
  <2>4. \A i, j \in X!Matches' : i = j
    BY <1>8
  <2>5. step > 1 => \A i \in X!Matches' : events'[i].slot = slots'
    <3>. SUFFICES ASSUME step > 1, NEW i \in X!Matches' PROVE events'[i].slot = slots'
      OBVIOUS
    <3>1. Enabled = slots /\ slots' = slots
      BY <1>11, <1>12
    <3>2. PICK e : (e = DoneEvent \/ e = MissedEvent) /\ events' = Append(events, e)
      BY <1>3, <1>8
    <3>3. events'[i] = e
      BY <1>7, <1>8, <3>2
    <3>. QED BY <3>1, <3>2, <3>3 DEF DoneEvent, MissedEvent
  <2>. QED BY <1>2, <2>1, <2>2, <2>3, <2>4, <2>5 DEF FitInv, MatchInv
<1>14. ASSUME NEW c \in Nat, NEW n \in Nat, NEW e \in Nat, phase = "ports", Installing(c, n, e)
       PROVE  Installing(c, n, e)'
  <2>1. filled'[CommandRing] = c + Commanded(Begun')
    BY <1>2, <1>9, <1>14 DEF Installing
  <2>2. Expected' <= XhciPorts + n + ToldBy(Begun')
    <3>2. Begun \in 0 .. 11
      BY <1>12 DEF Begun
    <3>3. ToldBy(Begun) \in Nat
      BY <3>2 DEF ToldBy
    <3>4. Expected <= XhciPorts + n + ToldBy(Begun) /\ XhciPorts \in Nat
      BY <1>14 DEF Installing, X!ConstantsAssumption
    <3>. QED BY <1>9, <1>10, <3>3, <3>4
  <2>3. CASE step > 1
    <3>1. slots' = slots
      BY <1>11, <2>3
    <3>2. slots = e + 1
      BY <1>12, <1>14, <2>3 DEF Installing
    <3>. QED BY <1>2, <2>1, <2>2, <2>3, <3>1, <3>2 DEF Installing
  <2>4. CASE step <= 1 /\ target = None
    BY <1>2, <1>11, <1>14, <2>1, <2>2, <2>4 DEF Installing
  <2>5. CASE step <= 1 /\ target # None
    <3>1. step = 1 /\ slots = e /\ Len(work) = 1
      <4>1. step = 1
        BY <1>12, <2>5
      <4>2. slots = e
        <5>1. work # <<>> /\ ~(step > 1)
          BY <1>2, <4>1
        <5>. QED BY <1>14, <5>1 DEF Installing
      <4>3. Len(work) = 1
        <5>1. Len(work) <= 1
          BY <2>5, <4>1 DEF FitInv, MatchInv
        <5>2. \A m \in Nat : m >= 1 /\ m <= 1 => m = 1
          OBVIOUS
        <5>. QED BY <1>4, <5>1, <5>2
      <4>. QED BY <4>1, <4>2, <4>3
    <3>2. Foremost.block[1][1] = "command" /\ Foremost.told = 1
      <4>1. Foremost.block[1] = X!Ring(X!Requests[1].ring, portid)
        BY <1>8, <2>5, <3>1 DEF FitInv, MatchInv
      <4>2. portid \in 1 .. XhciPorts
        BY <1>1, <3>1 DEF XInv, XTypeInv
      <4>. QED BY <1>2, <3>1, <4>1, <4>2, CommandRingIs DEF FitInv, WorkShape, Foremost
    <3>3. CASE work' = Tail(work) /\ slots' = Enabled
      <4>1. slots' = e + 1
        BY <3>1, <3>2, <3>3 DEF Enabled
      <4>2. work' = <<>>
        BY <1>4, <1>6, <3>1, EmptySeq
      <4>. QED BY <1>2, <2>1, <2>2, <2>5, <3>1, <4>1, <4>2 DEF Installing
    <3>4. CASE slots' = slots /\ events' = Append(events, MissedEvent)
      <4>1. \A i \in X!Matches' : events'[i].code # 1
        BY <1>7, <1>8, <2>5, <3>4 DEF MissedEvent
      <4>. QED BY <1>2, <2>1, <2>2, <2>5, <3>1, <3>4, <4>1 DEF Installing
    <3>. QED BY <1>3, <3>3, <3>4
  <2>6. step \in Nat
    BY <1>1 DEF XInv, XTypeInv
  <2>. QED BY <2>3, <2>4, <2>5, <2>6
<1>15. ASSUME phase = "ports", Second PROVE Second'
  <2>1. Installing(4, 14, 1)'
    BY <1>14, <1>15 DEF Second
  <2>2. ASSUME step = 7 PROVE Expected' < XhciPorts + 14 + ToldBy(Begun')
    <3>1. ToldBy(Begun) \in Nat
      <4>1. Begun \in 6 .. 7
        BY <2>2 DEF Begun
      <4>. QED BY <4>1 DEF ToldBy
    <3>2. Expected < XhciPorts + 14 + ToldBy(Begun) /\ XhciPorts \in Nat
      BY <1>15, <2>2 DEF Second, X!ConstantsAssumption
    <3>. QED BY <1>9, <1>10, <3>1, <3>2
  <2>. QED BY <1>2, <1>15, <2>1, <2>2 DEF Second
<1>16. Expected' <= XhciPorts + 22
  <2>1. Expected <= XhciPorts + 22 /\ XhciPorts \in Nat
    BY DEF FitInv, CountInv, X!ConstantsAssumption
  <2>. QED BY <1>10, <2>1
<1>17. CountInv'
  <2>1. phase \notin {"start", "legacy", "stop", "reset"}
    BY <1>2 DEF FitInv, CountInv
  <2>2. ASSUME phase = "ports", step <= 1, target = None, NEW i \in 1 .. Len(work')
        PROVE  work'[i].block[1] # CommandRing
    <3>1. Len(work') = Len(work) - 1 /\ work'[i] = work[i + 1]
      BY <1>4, <1>6, <2>2
    <3>2. i + 1 \in 1 .. Len(work)
      BY <1>4, <2>2, <3>1
    <3>. QED BY <2>2, <3>1, <3>2 DEF FitInv, CountInv
  <2>. QED BY <1>2, <1>14, <1>15, <1>16, <2>1, <2>2 DEF FitInv, CountInv
<1>. QED BY <1>1, <1>5, <1>13, <1>17 DEF FitInv

LEMMA FitNext == X!ConstantsAssumption /\ None \notin BlockRecords /\ FitInv /\ [X!Next]_X!vars => FitInv'
<1>. SUFFICES ASSUME X!ConstantsAssumption, None \notin BlockRecords, FitInv, [X!Next]_X!vars PROVE FitInv'
  OBVIOUS
<1>0. XInv /\ XInv'
  BY XNextInv DEF FitInv
<1>1. CASE X!CheckVersion
  BY <1>0, <1>1, Resting DEF X!CheckVersion, X!rings, X!install
<1>2. CASE X!AskAgain
  BY <1>0, <1>2, Resting DEF X!AskAgain, X!rings, X!install
<1>3. CASE X!NextCapability
  BY <1>0, <1>3, Resting DEF X!NextCapability, X!rings, X!install
<1>4. CASE X!Halted
  BY <1>0, <1>4, Resting DEF X!Halted, X!rings, X!install
<1>5. CASE X!ResetFails
  BY <1>0, <1>5, Resting DEF X!ResetFails, X!rings, X!install
<1>6. CASE X!ResetEnds
  <2>1. step = 0
    BY <1>6 DEF X!ResetEnds, XInv, XTypeInv, FitInv
  <2>. QED BY <1>0, <1>6, <2>1, Between DEF X!ResetEnds, X!rings
<1>7. CASE X!SkipPort
  BY <1>0, <1>7, Between DEF X!SkipPort, X!NextPort, X!rings
<1>8. CASE X!LastPort
  BY <1>0, <1>8, Resting DEF X!LastPort, X!rings, X!install
<1>9. CASE X!StartPort
  BY <1>0, <1>9, Between DEF X!StartPort, X!rings
<1>10. CASE X!Post
  BY <1>10, PostFit
<1>11. CASE X!Continue
  BY <1>11, ContinueFit
<1>12. CASE X!Fail
  BY <1>12, FailFit
<1>13. CASE X!FirmwareLetsGo
  BY <1>0, <1>13, Unmoved DEF X!FirmwareLetsGo, X!rings, X!install
<1>14. CASE X!ControllerHalts
  BY <1>0, <1>14, Unmoved DEF X!ControllerHalts, X!rings, X!install
<1>15. CASE X!PortChanges
  BY <1>15, PortChangesFit
<1>16. CASE X!DoBlock
  BY <1>16, DoBlockFit
<1>17. CASE UNCHANGED X!vars
  BY <1>0, <1>17, Unmoved DEF X!vars, X!rings, X!install
<1>. QED BY <1>1, <1>2, <1>3, <1>4, <1>5, <1>6, <1>7, <1>8, <1>9, <1>10, <1>11, <1>12, <1>13,
            <1>14, <1>15, <1>16, <1>17 DEF X!Next, X!Driver

(* Twenty-two events and one for each port are room enough: the first device makes up to *)
(* 14 of them before the driver goes on to another port, the second one 8, and there it  *)
(* stops.  So the 32 places of the code do for nine ports.                               *)
THEOREM EventsFitCorrect ==
  X!ConstantsAssumption /\ None \notin BlockRecords /\ RingSize > XhciPorts + 22 => (X!Spec => []EventsFit)
<1>1. ASSUME X!ConstantsAssumption, RingSize > XhciPorts + 22, FitInv
      PROVE  EventsFit
  <2>1. /\ Len(events) \in Nat /\ Cardinality(silent) \in Nat /\ Left(work) \in Nat
        /\ XhciPorts \in Nat /\ RingSize \in Nat
    BY <1>1, ExpectedType DEF FitInv, XInv, X!ConstantsAssumption
  <2>2. Expected <= XhciPorts + 22
    BY <1>1 DEF FitInv, CountInv
  <2>. QED BY <1>1, <2>1, <2>2 DEF Expected, X!EventsFit, EventsFit
<1>2. ASSUME X!ConstantsAssumption, None \notin BlockRecords, RingSize > XhciPorts + 22
      PROVE  X!Spec => []EventsFit
  <2>1. X!Init => FitInv
    BY <1>2, FitInit
  <2>2. FitInv /\ [X!Next]_X!vars => FitInv'
    BY <1>2, FitNext
  <2>3. FitInv => EventsFit
    BY <1>1, <1>2
  <2>. QED BY <2>1, <2>2, <2>3, PTL DEF X!Spec
<1>. QED BY <1>2
=============================================================================
