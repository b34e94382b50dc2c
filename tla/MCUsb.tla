-------------------------------- MODULE MCUsb --------------------------------
(***************************************************************************)
(* Small instances of the USB host drivers: a machine with an EHCI host    *)
(* and a stick, or one with an XHCI host.                                  *)
(***************************************************************************)
EXTENDS UsbHosts, TLC

VARIABLE machine       \* which host the machine has

Entry(legacy, next) == [legacy |-> legacy, next |-> next]

(* One entry; two, the second at the address 3, which the driver takes for 2 + 3. *)
MCSpaces ==
  {[a \in 0 .. 5 |-> Entry(IF a = 2 THEN 1 ELSE 0, IF a = 5 THEN 3 ELSE 0)],
   [a \in 0 .. 5 |-> Entry(IF a = 3 THEN 1 ELSE 0, IF a = 2 THEN 3 ELSE IF a = 5 THEN 3 ELSE 0)]}

(* A stick, another device, and one with other endpoints. *)
MCDevices == {[fits |-> 1, storage |-> 1], [fits |-> 1, storage |-> 0], [fits |-> 0, storage |-> 0]}
MCLists == {<<>>, <<[legacy |-> 1]>>, <<[legacy |-> 0], [legacy |-> 1]>>}

ASSUME XhciConstants == X!ConstantsAssumption

MCInit ==
  \/ /\ machine = "ehci"
     /\ Init
     /\ phase = "start" /\ list = <<>> /\ place = 1 /\ patience = 1 /\ owner = 0 /\ halted = 0
     /\ pending = 0 /\ devices = <<>> /\ portid = 0 /\ step = 0 /\ filled = <<>> /\ work = <<>>
     /\ target = None /\ events = <<>> /\ slots = 0 /\ failed = 0 /\ silent = {} /\ since = 0
  \/ /\ machine = "xhci"
     /\ X!Init
     /\ list = <<>> \/ devices = [p \in 1 .. XhciPorts |-> None]     \* the start, or the ports
     /\ pc = "start" /\ space = <<>> /\ capreg = First /\ firmware = "free" /\ port = 0
     /\ connected = 1 /\ count = 1 /\ chain = [kind |-> None, address |-> 0, td |-> <<>>] /\ behind = NoRequest
     /\ polls = 0 /\ async = "off" /\ device = None /\ arrived = None /\ expired = 0
     /\ tag = 1 /\ job = NoJob /\ data = None /\ buffer = <<>> /\ result = 0 /\ reads = 0
     /\ taken = 0 /\ before = 0

MCNext ==
  \/ machine = "ehci" /\ Next /\ UNCHANGED <<machine, xvars>>
  \/ machine = "xhci" /\ X!Next /\ UNCHANGED <<machine, vars>>

MCvars == <<machine, vars, xvars>>

MCFairness ==
  /\ WF_MCvars(machine = "ehci" /\ Driver /\ UNCHANGED <<machine, xvars>>)
  /\ WF_MCvars(machine = "ehci" /\ pc \in Starting /\ External /\ Others /\ UNCHANGED <<machine, xvars>>)
  /\ WF_MCvars(machine = "xhci" /\ X!Driver /\ UNCHANGED <<machine, vars>>)
  /\ WF_MCvars(machine = "xhci" /\ X!ControllerHalts /\ UNCHANGED <<machine, vars>>)
  /\ WF_MCvars(machine = "xhci" /\ X!PortChanges /\ UNCHANGED <<machine, vars>>)

MCSpec == MCInit /\ [][MCNext]_MCvars /\ MCFairness

(* The start of EHCI ends in the ports being probed and the stick being installed, or in *)
(* the version refused, if the list of capabilities has one entry (a link that is        *)
(* followed is added to the address, so the end of a longer list may be missed); a read  *)
(* ends, whatever the device does; and so does the start of xHCI (see Xhci).             *)
HostsEnd ==
  /\ machine = "ehci" /\ pc = "start" /\ space[First].next = 0 ~> pc \in {"ready", "hang"}
  /\ pc \in Bulk ~> pc \in {"ready", "probe"}
  /\ machine = "xhci" => X!XhciEnds
=============================================================================
