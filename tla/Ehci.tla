--------------------------------- MODULE Ehci ---------------------------------
(***************************************************************************)
(* The EHCI host driver (kernel/drivers/ehci.c): its start, the walk over  *)
(* the ports, and requests, each a queue of transfer descriptors that is   *)
(* offered to the controller, polled a bounded number of times and given   *)
(* back.  UsbStick runs the requests one after the other.                  *)
(*                                                                         *)
(* The controller and the one device are external: the controller tries    *)
(* the first active descriptor and stores what came of it, also after the  *)
(* driver has told it to stop, until it does.  If it has not by the time   *)
(* the next request is offered, it may first go on with the one before.    *)
(* A device that does not answer yet is a controller that takes no step;   *)
(* an answer or an acknowledgement may be lost, and a halted endpoint      *)
(* stays halted, as nothing clears it.  Outside the model: what else lies  *)
(* in the pages of a request that were given back and taken again while    *)
(* the controller reads them.                                              *)
(***************************************************************************)
EXTENDS Integers, Sequences

CONSTANTS
  Ports,        \* the number of ports the controller tells
  Polls,        \* how often the driver looks at a request (25)
  Width,        \* addresses of the configuration space (256)
  Spaces,       \* the configuration spaces considered: [0 .. Width - 1 -> capabilities]
  First,        \* where the list of capabilities begins
  None

ASSUME PortAssumption == Ports \in Nat \ {0} /\ Polls \in Nat \ {0}
ASSUME SpaceAssumption ==
  /\ Width \in Nat \ {0} /\ First \in 1 .. Width - 1
  /\ Spaces \subseteq [0 .. Width - 1 -> [legacy : {0, 1}, next : 0 .. Width - 1]]

Control == {"address", "device", "configuration", "setconfig", "lun"}
Bulk == {"out", "in", "csw"}
Starting == {"start", "legacy", "stop", "reset"}
Places == Starting \cup {"hang", "probe", "ready"} \cup Control \cup Bulk

VARIABLES
  pc,
  space,        \* the configuration space
  capreg,
  firmware,     \* who owns the controller: "owns", "asked" to let go, "free"
  port,         \* the port that is looked at
  connected,    \* the port the device is on
  count,        \* ehci_address_count, and the number of classes handed out
  chain,        \* the request that was offered last: its kind, address and descriptors
  polls,        \* looks left; 0: no request is under way
  behind,       \* the request before it that the controller is still at, or NoRequest
  async,        \* the asynchronous schedule: "off", "on", "stopping"
  device,       \* what the device knows
  arrived,      \* the packet in the buffer of the request
  expired       \* ghost: 1 if the last request was given up

start == <<space, capreg, firmware>>
host == <<chain, behind, polls, async, arrived, expired>>
ehciVars == <<pc, start, port, connected, count, host, device>>

-----------------------------------------------------------------------------
(* Descriptors. *)
Td(pid, toggle, load) == [pid |-> pid, toggle |-> toggle, load |-> load, state |-> "active"]
Setup == Td("setup", 0, None)
Status == Td("status", 1, None)

(* The chain of each kind of request; a command is followed by an empty packet. *)
Descriptors(kind, load) ==
  CASE kind \in {"address", "setconfig"} -> <<Setup, Status>>
    [] kind \in {"device", "configuration", "lun"} -> <<Setup, Td("answer", 1, None), Status>>
    [] kind = "out" -> <<Td("out", 0, load), Td("out", 1, None)>>
    [] kind = "in" -> <<Td("in", 0, None)>>
    [] kind = "csw" -> <<Td("in", 1, None)>>

WatchedFirst(c) ==   \* faulty variant of Watched: the first descriptor of every request
  c.td[1]

(* The descriptor that is polled: the status of a control request, the first one of others. *)
Watched(c) == IF c.kind \in Control THEN c.td[Len(c.td)] ELSE c.td[1]

(* The descriptor the controller works on. *)
Current(c) == {i \in DOMAIN c.td : c.td[i].state = "active" /\ \A j \in 1 .. i - 1 : c.td[j].state = "done"}

NoRequest == [kind |-> None, address |-> 0, td |-> <<>>, expired |-> 0]
Previous == [kind |-> chain.kind, address |-> chain.address, td |-> chain.td, expired |-> expired]

(* A controller that has not stopped may be at the previous request, or one before it. *)
StaysBehind ==
  IF async = "off" THEN {NoRequest}
  ELSE IF behind # NoRequest THEN {behind}
  ELSE IF Current(chain) # {} THEN {NoRequest, Previous} ELSE {NoRequest}

Offer(load) ==
  /\ pc \in Control \cup Bulk
  /\ polls = 0
  /\ behind' \in StaysBehind
  /\ chain' = [kind |-> pc, td |-> Descriptors(pc, load),
               address |-> IF pc = "address" THEN 0 ELSE count - 1]
  /\ polls' = Polls
  /\ async' = "on"
  /\ arrived' = None
  /\ expired' = 0
  /\ UNCHANGED <<pc, start, port, connected, count, device>>

PollAgainForever ==   \* faulty variant of PollAgain: the time-out is not counted
  /\ polls > 0
  /\ Watched(chain).state = "active"
  /\ UNCHANGED ehciVars

PollAgain ==
  /\ polls > 1
  /\ Watched(chain).state = "active"
  /\ polls' = polls - 1
  /\ UNCHANGED <<pc, start, port, connected, count, chain, behind, async, arrived, expired, device>>

Done == polls > 0 /\ Watched(chain).state = "done"
Failed == polls > 0 /\ (Watched(chain).state = "error" \/ (Watched(chain).state = "active" /\ polls = 1))

(* The schedule is switched off, without waiting until it is, and the pages are given back. *)
GiveBack ==
  /\ polls' = 0
  /\ async' = "stopping"
  /\ expired' = IF Watched(chain).state = "active" THEN 1 ELSE 0
  /\ UNCHANGED <<start, connected, count, chain, behind, arrived, device>>

-----------------------------------------------------------------------------
(* The start: the firmware is asked to let go of the controller, in the first entry of *)
(* the list that is its own; the link of an entry is added to its address.             *)
CheckVersions ==
  /\ pc = "start"
  /\ pc' \in {"hang", "legacy", "stop"}     \* another version; a list of capabilities; none
  /\ UNCHANGED <<start, port, connected, count, host, device>>

ReadCapability ==
  /\ pc = "legacy"
  /\ \/ /\ space[capreg].legacy = 1 /\ firmware # "free"
        /\ firmware' = "asked"
        /\ UNCHANGED <<pc, capreg>>
     \/ /\ space[capreg].legacy = 0 \/ firmware = "free"
        /\ IF space[capreg].next # 0
             THEN capreg' = (capreg + space[capreg].next) % Width /\ UNCHANGED pc
             ELSE pc' = "stop" /\ UNCHANGED capreg
        /\ UNCHANGED firmware
  /\ UNCHANGED <<space, port, connected, count, host, device>>

FirmwareLetsGo ==
  /\ firmware = "asked"
  /\ firmware' = "free"
  /\ UNCHANGED <<pc, space, capreg, port, connected, count, host, device>>

(* The run bit that is polled is the driver's own. *)
Stop ==
  /\ pc = "stop"
  /\ pc' = "reset"
  /\ UNCHANGED <<start, port, connected, count, host, device>>

ResetEnds ==
  /\ pc = "reset"
  /\ pc' = "probe"
  /\ port' = 1
  /\ async' = "off"
  /\ UNCHANGED <<start, connected, count, chain, behind, polls, arrived, expired, device>>

-----------------------------------------------------------------------------
(* ehci_test_port, and the loop over the ports, which leaves out the last one. *)
TestPort ==
  /\ pc = "probe"
  /\ port < Ports
  /\ IF port = connected THEN pc' = "address" /\ count' = count + 1 /\ UNCHANGED port
                         ELSE port' = port + 1 /\ UNCHANGED <<pc, count>>
  /\ UNCHANGED <<start, connected, host, device>>

Probed ==
  /\ pc = "probe"
  /\ port >= Ports
  /\ pc' = "ready"
  /\ UNCHANGED <<start, port, connected, count, host, device>>

NextPort == pc' = "probe" /\ port' = port + 1

AfterControl ==
  [address |-> "device", device |-> "configuration", configuration |-> "setconfig"]

(* A control request of the set-up succeeds or fails; a port that fails is left as it is. *)
Answered ==
  /\ pc \in DOMAIN AfterControl
  /\ Done
  /\ pc' = AfterControl[pc]
  /\ GiveBack
  /\ UNCHANGED port

(* install_usb_device: a mass storage device with SCSI commands is asked for its units. *)
Configured ==
  /\ pc = "setconfig"
  /\ Done
  /\ IF device.class = "storage" THEN pc' = "lun" /\ UNCHANGED port ELSE NextPort
  /\ GiveBack

Refused ==
  /\ pc \in Control
  /\ Failed
  /\ NextPort
  /\ GiveBack

-----------------------------------------------------------------------------
(* External: the device.  A command carries its sector and tag; the device is given it  *)
(* in its phase "cbw", sends a packet of data and then its status.  It may hold one more *)
(* command back while it is busy, or halt the endpoint.                                   *)
Busy(d) == d.phase # "cbw"
Commands(c) == {[c EXCEPT !.good = g] : g \in {0, 1}}    \* carried out, or not

Advance(d) ==
  LET flipped == [d EXCEPT !.in = 1 - @]
  IN IF d.phase = "data" THEN [flipped EXCEPT !.phase = "csw"]
     ELSE IF d.next = None THEN [flipped EXCEPT !.phase = "cbw"]
     ELSE [flipped EXCEPT !.phase = "data", !.command = d.next, !.next = None]

Outcome(state, d, packet) == [state |-> state, device |-> d, packet |-> packet]

ControlOutcomes(c, td, d) ==
  IF c.address # d.address THEN {}
  ELSE IF c.kind = "address" /\ td.pid = "status"
    THEN {Outcome(s, [d EXCEPT !.address = count - 1], None) : s \in {"done", "active"}}
  ELSE {Outcome("done", d, None)}

Flipped(d) == [d EXCEPT !.out = 1 - @]
Takes(d, k) == [Flipped(d) EXCEPT !.phase = "data", !.command = k]
Keeps(d, k) == [Flipped(d) EXCEPT !.next = k]
Stall(d) == Outcome("error", [d EXCEPT !.halted = @ \cup {"out"}], None)

OutOutcomes(td, d) ==
  IF "out" \in d.halted THEN {}
  ELSE IF td.toggle # d.out THEN {Outcome("done", d, None)}       \* taken for a repetition
  ELSE IF td.load = None THEN {Outcome("done", Flipped(d), None), Stall(d)}
  ELSE IF ~Busy(d) THEN {Outcome(s, Takes(d, k), None) : s \in {"done", "active"}, k \in Commands(td.load)}
  ELSE {Stall(d)} \cup
       IF d.next = None THEN {Outcome("done", Keeps(d, k), None) : k \in Commands(td.load)} ELSE {}

InOutcomes(c, td, d) ==
  LET packet == [phase |-> d.phase, command |-> d.command]
  IN IF ~Busy(d) THEN {}
     ELSE IF td.toggle # d.in THEN {Outcome("active", Advance(d), None)}
     ELSE IF c.kind = "csw" /\ d.phase = "data" THEN {}                 \* babble
     ELSE {Outcome("done", Advance(d), packet), Outcome("done", d, packet)}

Outcomes(c, td, d) ==
  {Outcome("error", d, None)} \cup
  CASE td.pid = "out" -> OutOutcomes(td, d)
    [] td.pid = "in" -> InOutcomes(c, td, d)
    [] OTHER -> ControlOutcomes(c, td, d)

Transact ==
  /\ async # "off"
  /\ behind = NoRequest
  /\ \E i \in Current(chain) : \E o \in Outcomes(chain, chain.td[i], device) :
       /\ chain' = [chain EXCEPT !.td[i].state = o.state]
       /\ device' = o.device
       /\ arrived' = IF o.packet = None THEN arrived ELSE o.packet
  /\ UNCHANGED <<pc, start, port, connected, count, behind, polls, async, expired>>

(* The controller is still at a request that was given back, and what it gets goes there; *)
(* or it comes to the one that was offered.                                               *)
TransactBehind ==
  /\ async # "off"
  /\ \E i \in Current(behind) : \E o \in Outcomes(behind, behind.td[i], device) :
       /\ behind' = [behind EXCEPT !.td[i].state = o.state]
       /\ device' = o.device
  /\ UNCHANGED <<pc, start, port, connected, count, chain, polls, async, arrived, expired>>

MovesOn ==
  /\ behind # NoRequest
  /\ polls > 0
  /\ behind' = NoRequest
  /\ UNCHANGED <<pc, start, port, connected, count, chain, polls, async, arrived, expired, device>>

ScheduleStops ==
  /\ async = "stopping"
  /\ async' = "off"
  /\ behind' = NoRequest
  /\ UNCHANGED <<pc, start, port, connected, count, chain, polls, arrived, expired, device>>

-----------------------------------------------------------------------------
EhciInit ==
  /\ pc = "start"
  /\ space \in Spaces
  /\ capreg = First
  /\ firmware \in {"owns", "free"}
  /\ port = 0
  /\ connected \in 1 .. Ports
  /\ count = 1
  /\ chain = [kind |-> None, address |-> 0, td |-> <<>>]
  /\ behind = NoRequest
  /\ polls = 0
  /\ async = "off"
  /\ device \in [address : {0}, class : {"storage", "other"}, phase : {"cbw"}, command : {None},
                 next : {None}, in : {0}, out : {0}, halted : {{}}]
  /\ arrived = None
  /\ expired = 0

HostStep ==
  \/ PollAgain
  \/ CheckVersions
  \/ ReadCapability
  \/ Stop
  \/ TestPort
  \/ Probed

External ==
  \/ FirmwareLetsGo
  \/ ResetEnds
  \/ Transact
  \/ TransactBehind
  \/ MovesOn
  \/ ScheduleStops
=============================================================================
