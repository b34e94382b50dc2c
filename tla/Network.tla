-------------------------------- MODULE Network --------------------------------
(***************************************************************************)
(* What a task does with the network that waits for an answer (kernel/     *)
(* drivers/ethernet.c): getMACFromIp, getIPFromName and, at boot,          *)
(* getIpAddressFromDHCPServer with initialise_ethernet.                    *)
(*                                                                         *)
(* All of them poll the one ring of the card, take the lowest descriptor   *)
(* that is filled and leave it to the card again before they look at it;   *)
(* what is not for them is gone.  What they return or go on with is a      *)
(* pointer into the buffer.  A poll is one step here (its own races are    *)
(* E1000's), and so is what the interrupt handler does with a packet that  *)
(* it drops.  getIPFromName hands a packet that is not its answer to       *)
(* ethernet_handle_package: for whoever waits for it it is gone as well;   *)
(* that a request or a segment in it is answered is left to E1000 and Tcp. *)
(*                                                                         *)
(* The servers and the other machines are external.  Broadcast answers to  *)
(* others arrive too, some of them to a machine that runs the same system: *)
(* the identifiers of its requests are the same constants.  Outside the    *)
(* model: that other bytes look like the number of a query, the page of    *)
(* the offer that is freed while the card uses it, and sends that fail     *)
(* (no card's do).                                                         *)
(***************************************************************************)
EXTENDS Integers

CONSTANTS
  Tasks,
  Jobs,         \* the jobs considered: per task "dhcp", "dns", "mac" or "none"
  RxSize,       \* descriptors of the ring
  MaxStrays,    \* bound: packets that nobody asked for
  None

(* What is assumed of the constants: one task of a machine asks for its address, at boot. *)
ConstantsAssumption ==
  /\ RxSize \in Nat \ {0}
  /\ None \notin Tasks
  /\ Jobs \subseteq [Tasks -> {"dhcp", "dns", "mac", "none"}]
  /\ \A j \in Jobs : \A t, u \in Tasks : j[t] = "dhcp" /\ j[u] = "dhcp" => t = u

Ring == 0 .. RxSize - 1

VARIABLES
  job,
  slots, number,   \* the packet in each buffer; ghost: the how manieth to arrive it was
  unread,          \* the descriptors that are filled
  head, tail,      \* the card's next descriptor, and the one it stops at
  air,             \* answers on their way
  arrived, strays, \* ghosts: packets that have arrived, and those of them nobody asked for
  at,
  pointer,         \* per task: the buffer its pointer points into
  took,            \* ghost: the number of the packet that it was taken for
  dnstid, id,      \* the next number of a query; per task its own
  leased,          \* what the offer said when it was read: the address and the servers
  answer,          \* per task: what it has found
  late,            \* ghost, per task: 1 if the ring had gone round when it looked
  gone,            \* ghost: 1 if a request or an answer was lost
  stolen           \* ghost: 1 if a task has polled a packet that was for another one

ring == <<slots, number, unread, head, tail>>
client == <<at, pointer, took, dnstid, id, leased, answer, late>>
networkVars == <<job, ring, air, arrived, strays, client, gone, stolen>>

Packet(kind, n, value, to) == [kind |-> kind, id |-> n, value |-> value, to |-> to]
NoPacket == Packet("none", 0, None, None)

(* The identifiers of the two requests for an address, and those of other systems. *)
DiscoverXid == 100
RequestXid == 101
OtherXid == 102

(* Packets that nobody here asked for: the handler drops notices.  (Those of the other *)
(* kinds are alike when no address is asked for.)                                      *)
Strays ==
  {Packet("notice", 0, None, None), Packet("offer", OtherXid, "theirs", None)} \cup
  IF \E t \in Tasks : job[t] = "dhcp"
  THEN {Packet("ack", OtherXid, "theirs", None), Packet("offer", DiscoverXid, "twin's", None)}
  ELSE {}

Asked(t) == IF job[t] = "mac" THEN "neighbour" ELSE "server"

Goto(t, place) == at' = [at EXCEPT ![t] = place]

(* A request is answered, or it is lost, or its answer is. *)
Ask(p) ==
  \/ air' = air \cup {p} /\ UNCHANGED gone
  \/ gone' = 1 /\ UNCHANGED air

-----------------------------------------------------------------------------
(* getEthernetPackage. *)
Polled == CHOOSE i \in unread : \A j \in unread : i <= j
InRing == {slots[i] : i \in unread}

Poll(t) ==
  /\ unread # {}
  /\ unread' = unread \ {Polled}
  /\ tail' = Polled
  /\ stolen' = IF slots[Polled].to \in {t, None} THEN stolen ELSE 1
  /\ UNCHANGED <<job, slots, number, head, air, arrived, strays, dnstid, id, leased, answer, late, gone>>

(* The poll is repeated until it gives one of the wanted packets; then place is next. *)
AwaitPacket(t, wanted, place) ==
  /\ Poll(t)
  /\ IF slots[Polled] \in wanted
       THEN /\ pointer' = [pointer EXCEPT ![t] = Polled]
            /\ took' = [took EXCEPT ![t] = number[Polled]]
            /\ Goto(t, place)
       ELSE UNCHANGED <<at, pointer, took>>

(* getMACFromIp: whose address an answer holds is not compared. *)
IsMac(p) == p.kind = "arp"

AskMac(t) ==
  /\ at[t] = "start" /\ job[t] \in {"dns", "mac"}
  /\ Ask(Packet("arp", 0, Asked(t), t))
  /\ Goto(t, "mac")
  /\ UNCHANGED <<job, ring, arrived, strays, pointer, took, dnstid, id, leased, answer, late, stolen>>

AwaitMac(t) ==
  /\ at[t] = "mac"
  /\ AwaitPacket(t, {p \in InRing : IsMac(p)}, IF job[t] = "dns" THEN "number" ELSE "read")

(* getIPFromName: dnstid++ is a load and a store. *)
LoadNumber(t) ==
  /\ at[t] = "number"
  /\ id' = [id EXCEPT ![t] = dnstid]
  /\ Goto(t, "count")
  /\ UNCHANGED <<job, ring, air, arrived, strays, pointer, took, dnstid, leased, answer, late, gone, stolen>>

StoreNumber(t) ==
  /\ at[t] = "count"
  /\ dnstid' = id[t] + 1
  /\ Goto(t, "query")
  /\ UNCHANGED <<job, ring, air, arrived, strays, pointer, took, id, leased, answer, late, gone, stolen>>

(* The address of the server is read from the buffer now. *)
Query(t) ==
  /\ at[t] = "query"
  /\ IF slots[pointer[t]].value = "server"
       THEN \E found \in {t, "unknown"} : Ask(Packet("dns", id[t], found, t))
       ELSE gone' = 1 /\ UNCHANGED air
  /\ Goto(t, "answer")
  /\ UNCHANGED <<job, ring, arrived, strays, pointer, took, dnstid, id, leased, answer, late, stolen>>

IsAnyAnswer(t, p) == p.kind = "dns"   \* faulty variant of IsAnswer: the number is not compared

IsAnswer(t, p) == p.kind = "dns" /\ p.id = id[t]

AwaitAnswer(t) ==
  /\ at[t] = "answer"
  /\ AwaitPacket(t, {p \in InRing : IsAnswer(t, p)}, "read")

-----------------------------------------------------------------------------
(* getIpAddressFromDHCPServer. *)
Discover(t) ==
  /\ at[t] = "start" /\ job[t] = "dhcp"
  /\ Ask(Packet("offer", DiscoverXid, "ours", t))
  /\ Goto(t, "offer")
  /\ UNCHANGED <<job, ring, arrived, strays, pointer, took, dnstid, id, leased, answer, late, stolen>>

IsOffer(p) == p.kind = "offer" /\ p.id = DiscoverXid

AwaitOffer(t) ==
  /\ at[t] = "offer"
  /\ AwaitPacket(t, {p \in InRing : IsOffer(p)}, "request")

(* The servers are copied from the offer, and the address into the request. *)
RequestAddress(t) ==
  /\ at[t] = "request"
  /\ leased' = slots[pointer[t]].value
  /\ IF leased' \in {"ours", "twin's"}
       THEN Ask(Packet("ack", RequestXid, leased', t))
       ELSE gone' = 1 /\ UNCHANGED air
  /\ Goto(t, "approval")
  /\ UNCHANGED <<job, ring, arrived, strays, pointer, took, dnstid, id, answer, late, stolen>>

IsApprovalOfDiscover(p) == p.kind = "ack" /\ p.id = DiscoverXid   \* faulty variant of IsApproval: the identifier of the first request

IsApproval(p) == p.kind = "ack" /\ p.id = RequestXid

(* The pointer is still the offer's. *)
AwaitApproval(t) ==
  /\ at[t] = "approval"
  /\ Poll(t)
  /\ IF IsApproval(slots[Polled]) THEN Goto(t, "read") ELSE UNCHANGED at
  /\ UNCHANGED <<pointer, took>>

(* What the buffer says now: the address of the name, our own (initialise_ethernet), or *)
(* the hardware address that a caller of getMACFromIp copies.                           *)
Read(t) ==
  /\ at[t] = "read"
  /\ answer' = [answer EXCEPT ![t] = slots[pointer[t]].value]
  /\ late' = [late EXCEPT ![t] = IF arrived - took[t] < RxSize THEN 0 ELSE 1]
  /\ Goto(t, "done")
  /\ UNCHANGED <<job, ring, air, arrived, strays, pointer, took, dnstid, id, leased, gone, stolen>>

-----------------------------------------------------------------------------
(* ethernet_handle_package, called by the card's handler. *)
Drop(i) ==
  /\ i \in unread
  /\ slots[i].kind = "notice"
  /\ unread' = unread \ {i}
  /\ tail' = i
  /\ UNCHANGED <<job, slots, number, head, air, arrived, strays, client, gone, stolen>>

(* The card; a packet that finds it stopped is lost, and so is one that is stored over  *)
(* because descriptors were given back in another order (see E1000).                    *)
Lost(p) == gone' = IF p.to = None THEN gone ELSE 1

Arrive(p) ==
  IF head = tail
    THEN Lost(p) /\ UNCHANGED <<ring, arrived>>
    ELSE /\ slots' = [slots EXCEPT ![head] = p]
         /\ number' = [number EXCEPT ![head] = arrived]
         /\ unread' = unread \cup {head}
         /\ head' = (head + 1) % RxSize
         /\ arrived' = arrived + 1
         /\ IF head \in unread THEN Lost(slots[head]) ELSE UNCHANGED gone
         /\ UNCHANGED tail

Deliver ==
  /\ \E p \in air : air' = air \ {p} /\ Arrive(p)
  /\ UNCHANGED <<job, strays, client, stolen>>

Disturb ==
  /\ strays < MaxStrays
  /\ strays' = strays + 1
  /\ \E p \in Strays : Arrive(p)
  /\ UNCHANGED <<job, air, client, stolen>>

-----------------------------------------------------------------------------
Init ==
  /\ job \in Jobs
  /\ slots = [i \in Ring |-> NoPacket]
  /\ number = [i \in Ring |-> 0]
  /\ unread = {}
  /\ head = 0
  /\ tail = RxSize - 1
  /\ air = {}
  /\ arrived = 0
  /\ strays = 0
  /\ at = [t \in Tasks |-> "start"]
  /\ pointer = [t \in Tasks |-> 0]
  /\ took = [t \in Tasks |-> 0]
  /\ dnstid = 0
  /\ id = [t \in Tasks |-> -1]
  /\ leased = None
  /\ answer = [t \in Tasks |-> None]
  /\ late = [t \in Tasks |-> 0]
  /\ gone = 0
  /\ stolen = 0

TaskStep(t) ==
  \/ AskMac(t)
  \/ AwaitMac(t)
  \/ LoadNumber(t)
  \/ StoreNumber(t)
  \/ Query(t)
  \/ AwaitAnswer(t)
  \/ Discover(t)
  \/ AwaitOffer(t)
  \/ RequestAddress(t)
  \/ AwaitApproval(t)
  \/ Read(t)

Next ==
  \/ \E t \in Tasks : TaskStep(t)
  \/ \E i \in Ring : Drop(i)
  \/ Deliver
  \/ Disturb

(* Tasks run, and what is not lost arrives. *)
Fairness == (\A t \in Tasks : WF_networkVars(TaskStep(t))) /\ WF_networkVars(Deliver)

Spec == Init /\ [][Next]_networkVars /\ Fairness

-----------------------------------------------------------------------------
(* As long as the ring has not gone round since its packet arrived, a task finds what   *)
(* it asked for: the address of its own name, if no other query has its number; its     *)
(* neighbour's hardware address, if no task has taken another's packet; and the address *)
(* that it has requested from the server whose name server and router it uses.          *)
AnswersAreOwn ==
  \A t \in Tasks :
    at[t] = "done" /\ late[t] = 0 =>
      \/ job[t] = "dns" /\ answer[t] \in {t, "unknown"}
      \/ job[t] = "dns" /\ \E u \in Tasks \ {t} : id[u] = id[t]
      \/ job[t] = "mac" /\ (answer[t] = "neighbour" \/ stolen = 1)
      \/ job[t] = "dhcp" /\ answer[t] = leased

(* And it finds it, unless a packet was lost or polled by another task: there is no     *)
(* time-out and nothing is sent again.                                                  *)
AnswersCome == \A t \in Tasks : job[t] # "none" ~> at[t] = "done" \/ gone = 1 \/ stolen = 1
=============================================================================
