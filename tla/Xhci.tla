--------------------------------- MODULE Xhci ---------------------------------
(***************************************************************************)
(* The XHCI host driver (kernel/drivers/xhci.c) as it is built, without    *)
(* interrupts: its start, and the installation of the device at each port, *)
(* up to the command that it sends to a stick; the receiving of bulk data  *)
(* is a stub that stops the machine, as any failure of a port does.        *)
(*                                                                         *)
(* A request puts blocks (TRBs) into a ring, rings a bell, waits and then  *)
(* looks once through the event ring for the block it waits for.  The      *)
(* pending bit of the interrupter is never cleared and the event ring's    *)
(* dequeue pointer never moved: only the first request waits for an event, *)
(* the others wait a fixed time.  A block is its ring and its place there. *)
(*                                                                         *)
(* The controller, the firmware and the devices are external.              *)
(***************************************************************************)
EXTENDS Integers, Sequences, FiniteSets

CONSTANTS
  Ports,        \* the number of ports the controller tells
  RingSize,     \* XHCI_EVENT_RING_SIZE
  Patience,     \* looks at the firmware's bit (100)
  Capabilities, \* the lists of extended capabilities considered
  Devices,      \* what may be at a port
  None

(* What is assumed of the constants; a device fits that has two endpoints of one interface, *)
(* and storage is a stick.                                                                  *)
ConstantsAssumption ==
  /\ Ports \in Nat \ {0} /\ RingSize \in Nat \ {0} /\ Patience \in Nat \ {0}
  /\ Capabilities \subseteq Seq([legacy : {0, 1}])
  /\ Devices \subseteq [fits : {0, 1}, storage : {0, 1}]

(* The requests of an installation in their order, with the ring each uses. *)
Requests ==
  <<[kind |-> "slot", ring |-> "command"], [kind |-> "address", ring |-> "command"],
    [kind |-> "descriptor", ring |-> "control"], [kind |-> "configuration", ring |-> "control"],
    [kind |-> "endpoint", ring |-> "command"], [kind |-> "noop", ring |-> "first"],
    [kind |-> "endpoint", ring |-> "command"], [kind |-> "noop", ring |-> "second"],
    [kind |-> "setconfig", ring |-> "control"], [kind |-> "lun", ring |-> "control"],
    [kind |-> "out", ring |-> "first"]>>

(* The last step of the set-up of each kind of device. *)
LastFor(d) == IF d.fits = 0 THEN 4 ELSE IF d.storage = 0 THEN 9 ELSE Len(Requests)

BlocksAllTold(kind) ==   \* faulty variant of Blocks: every stage of a descriptor's is told
  CASE kind \in {"descriptor", "configuration", "lun"} -> <<1, 1, 1>>
    [] kind = "setconfig" -> <<0, 1>>
    [] OTHER -> <<1>>

(* For each block of a request whether its completion is an event. *)
Blocks(kind) ==
  CASE kind = "descriptor" -> <<0, 0, 1>>
    [] kind \in {"configuration", "lun"} -> <<1, 1, 1>>
    [] kind = "setconfig" -> <<0, 1>>
    [] OTHER -> <<1>>

VARIABLES
  phase,
  list,         \* the extended capabilities
  place,        \* in the list
  patience,
  owner,        \* 1: the firmware owns the controller
  halted,       \* 1: the controller has stopped
  pending,      \* the interrupter's pending bit
  devices,      \* at each port, or None
  portid,
  step,         \* the request under way, 0 before one
  filled,       \* per ring and slot: blocks that were put into it
  work,         \* blocks the controller has not done
  target,       \* the block whose event is waited for, or None
  events,       \* the event ring
  slots,        \* slots that were enabled
  failed,       \* the number of endpoints of the device that were not set up
  silent,       \* ports whose change the controller has not told yet
  since         \* ghost: the number of events when the bell was rung

start == <<list, place, patience, owner, halted>>
rings == <<filled, work, target, events, slots, pending, silent>>
install == <<devices, portid, step, failed, since>>
vars == <<phase, start, rings, install>>

(* The rings are fresh for every device, but for the command ring. *)
Ring(name, p) == IF name = "command" THEN <<name, 0>> ELSE <<name, p>>
RingNames == {"command", "control", "first", "second"}
AllRings == {Ring(r, p) : r \in RingNames, p \in 1 .. Ports}

-----------------------------------------------------------------------------
(* The start.  The firmware is asked a bounded number of times. *)
CheckVersion ==
  /\ phase = "start"
  /\ phase' \in {"returned", "legacy"}
  /\ UNCHANGED <<start, rings, install>>

Owned == list[place].legacy = 1 /\ owner = 1

AskAgain ==
  /\ phase = "legacy" /\ place <= Len(list) /\ Owned
  /\ patience' = patience - 1
  /\ phase' = IF patience = 1 THEN "stop" ELSE phase
  /\ UNCHANGED <<list, place, owner, halted, rings, install>>

NextCapability ==
  /\ phase = "legacy"
  /\ IF place < Len(list) THEN ~Owned /\ place' = place + 1 /\ UNCHANGED phase
     ELSE (place <= Len(list) => ~Owned) /\ phase' = "stop" /\ UNCHANGED place
  /\ UNCHANGED <<list, patience, owner, halted, rings, install>>

FirmwareLetsGo ==
  /\ owner = 1 /\ patience # Patience
  /\ owner' = 0
  /\ UNCHANGED <<phase, list, place, patience, halted, rings, install>>

ControllerHalts ==
  /\ phase = "stop"
  /\ halted' = 1
  /\ UNCHANGED <<phase, list, place, patience, owner, rings, install>>

Halted ==
  /\ phase = "stop" /\ halted = 1
  /\ phase' = "reset"
  /\ UNCHANGED <<start, rings, install>>

(* A register is not what it should be after the reset, or the rings are set up and the *)
(* controller is started.                                                              *)
ResetFails ==
  /\ phase = "reset"
  /\ phase' = "returned"
  /\ UNCHANGED <<start, rings, install>>

ResetEnds ==
  /\ phase = "reset"
  /\ phase' = "ports"
  /\ portid' = 1
  /\ halted' = 0
  /\ UNCHANGED <<list, place, patience, owner, rings, devices, step, failed, since>>

-----------------------------------------------------------------------------
(* The installation of a device.  The last port is left out; after the others, as after *)
(* any failure, the driver stays in an endless loop.                                    *)
NextPort == portid' = portid + 1 /\ step' = 0 /\ failed' = 0

SkipPort ==
  /\ phase = "ports" /\ portid < Ports /\ step = 0
  /\ devices[portid] = None
  /\ NextPort
  /\ UNCHANGED <<phase, start, rings, devices, since>>

LastPort ==
  /\ phase = "ports" /\ portid >= Ports
  /\ phase' = "stopped"
  /\ UNCHANGED <<start, rings, install>>

StartPort ==
  /\ phase = "ports" /\ portid < Ports /\ step = 0
  /\ devices[portid] # None
  /\ step' = 1
  /\ UNCHANGED <<phase, start, rings, devices, portid, failed, since>>

PlaceIgnored(ring, n) ==   \* faulty variant of PlaceAfter: command_ring_pointer stays where it is
  IF ring[1] = "command" THEN filled[ring] ELSE filled[ring] + n

PlaceAfter(ring, n) == filled[ring] + n

(* The blocks of a request are put into its ring, and the bell is rung; the last block *)
(* is the one that is waited for.  Blocks of a request that was given up are dropped   *)
(* here: nobody waits for one, and done in time it would give its one event as well.   *)
Post ==
  /\ phase = "ports" /\ step > 0 /\ target = None
  /\ LET told == Blocks(Requests[step].kind)
         ring == Ring(Requests[step].ring, portid)
     IN /\ work' = [i \in DOMAIN told |-> [block |-> <<ring, filled[ring] + i>>, told |-> told[i]]]
        /\ target' = <<ring, filled[ring] + Len(told)>>
        /\ filled' = [filled EXCEPT ![ring] = PlaceAfter(ring, Len(told))]
  /\ since' = Len(events)
  /\ UNCHANGED <<phase, start, events, slots, pending, silent, devices, portid, step, failed>>

-----------------------------------------------------------------------------
(* The one look through the event ring, some time after the pending bit was set: the first *)
(* event that names the block is taken.                                                    *)
Kind == Requests[step].kind
Matches == {i \in DOMAIN events : events[i].block = target}
FirstMatch == CHOOSE i \in Matches : \A j \in Matches : i <= j
Answer == events[FirstMatch]
Looking == phase = "ports" /\ target # None /\ pending = 1

(* A command for an endpoint must come back with slot 1; the command of a stick may fail. *)
Succeeded ==
  /\ Matches # {}
  /\ Kind = "out" \/ Answer.code = 1
  /\ Kind = "endpoint" => Answer.slot = 1

Answered ==
  /\ Looking
  /\ target' = None
  /\ UNCHANGED <<start, filled, work, events, slots, pending, silent, devices, since>>

(* After a failure: of an endpoint when both were tried, of the units not at all. *)
Stops == Kind \notin {"endpoint", "noop", "lun"} \/ step = 8 \/ (step = 7 /\ ~Succeeded)

Continue ==
  /\ Answered
  /\ Succeeded
  /\ \/ /\ step < LastFor(devices[portid])
        /\ IF step = 8 /\ failed > 0 THEN phase' = "stopped" /\ UNCHANGED step
                                     ELSE step' = step + 1 /\ UNCHANGED phase
        /\ UNCHANGED <<portid, failed>>
     \/ /\ step = LastFor(devices[portid])
        /\ CASE Kind = "configuration" -> phase' = "stopped" /\ UNCHANGED <<portid, step, failed>>
             [] Kind = "setconfig" -> NextPort /\ UNCHANGED phase
             [] Kind = "out" -> phase' = "stub" /\ UNCHANGED <<portid, step, failed>>

Fail ==
  /\ Answered
  /\ ~Succeeded
  /\ CASE Stops -> phase' = "stopped" /\ UNCHANGED <<portid, step, failed>>
       [] ~Stops /\ step \in {5, 6} -> step' = 7 /\ failed' = failed + 1 /\ UNCHANGED <<phase, portid>>
       [] OTHER -> NextPort /\ UNCHANGED phase

-----------------------------------------------------------------------------
(* External: the controller.  It tells of the ports that changed with its reset. *)
PortChanges ==
  /\ phase = "ports"
  /\ silent # {}
  /\ silent' = {}
  /\ events' = events \o [i \in 1 .. Cardinality(silent) |-> [block |-> None, code |-> 1, slot |-> 0]]
  /\ pending' = 1
  /\ UNCHANGED <<phase, start, filled, work, target, slots, install>>

(* It does a block, or fails at it and leaves the rest. *)
DoBlock ==
  /\ work # <<>>
  /\ LET first == Head(work)
         enabled == IF first.block[1][1] = "command" /\ step = 1 THEN slots + 1 ELSE slots
     IN \/ /\ work' = Tail(work)
           /\ slots' = enabled
           /\ IF first.told = 1
                THEN /\ events' = Append(events, [block |-> first.block, code |-> 1, slot |-> enabled])
                     /\ pending' = 1
                ELSE UNCHANGED <<events, pending>>
        \/ /\ work' = <<>>
           /\ events' = Append(events, [block |-> first.block, code |-> 6, slot |-> slots])
           /\ pending' = 1
           /\ UNCHANGED slots
  /\ UNCHANGED <<phase, start, filled, target, silent, install>>

-----------------------------------------------------------------------------
Init ==
  /\ phase = "start"
  /\ list \in Capabilities
  /\ place = 1
  /\ patience = Patience
  /\ owner \in {0, 1}
  /\ halted \in {0, 1}
  /\ pending = 0
  /\ devices \in [1 .. Ports -> Devices \cup {None}]
  /\ portid = 0
  /\ step = 0
  /\ filled = [r \in AllRings |-> 0]
  /\ work = <<>>
  /\ target = None
  /\ events = <<>>
  /\ slots = 0
  /\ failed = 0
  /\ silent = {p \in 1 .. Ports : devices[p] # None}
  /\ since = 0

Driver ==
  \/ CheckVersion
  \/ AskAgain
  \/ NextCapability
  \/ Halted
  \/ ResetFails
  \/ ResetEnds
  \/ SkipPort
  \/ LastPort
  \/ StartPort
  \/ Post
  \/ Continue
  \/ Fail

Next ==
  \/ Driver
  \/ FirmwareLetsGo
  \/ ControllerHalts
  \/ PortChanges
  \/ DoBlock

(* The boot task runs; a controller that is told to stop stops, and it tells of the *)
(* changes at its ports.  Nothing is assumed of the firmware or of the devices.     *)
Fairness == WF_vars(Driver) /\ WF_vars(ControllerHalts) /\ WF_vars(PortChanges)

Spec == Init /\ [][Next]_vars /\ Fairness

-----------------------------------------------------------------------------
(* The event that a request is answered with, the first in the ring that names the block *)
(* it waits for, was stored after its bell was rung: events are never taken out of the   *)
(* ring, but none of an earlier request comes before this one's.                         *)
EventsAreOwn ==
  [][target # None /\ target' = None /\ Matches # {} => FirstMatch > since]_vars

(* The events of all installations fit into the ring, which nobody empties: after the *)
(* first device no other one gets past the set-up of its endpoints.                   *)
EventsFit == Len(events) < RingSize

(* The driver comes to rest: it gives up on the firmware, and waits for events that do *)
(* not come only if no port has a device.                                                *)
XhciEnds == phase = "start" ~> phase \in {"returned", "stopped", "stub"}
=============================================================================
