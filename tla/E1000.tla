-------------------------------- MODULE E1000 --------------------------------
(***************************************************************************)
(* The rings of the network card (kernel/drivers/e1000.c) in the 32-bit    *)
(* build, the one in which the descriptors have the card's layout:         *)
(* e1000_send_package and e1000_recieve_package of tasks, irq_e1000 with   *)
(* what ethernet_handle_package answers, and the card, which is external.  *)
(*                                                                         *)
(* The handler runs with interrupts off; a task may be left between any    *)
(* two of its loads and stores.  tx_cur is read again by each statement of *)
(* a send, so a statement is a load of tx_cur and a store.  A packet that  *)
(* is received is one of three kinds: a request is answered and a notice   *)
(* dropped by the handler, any other is left in the ring for a poller.     *)
(***************************************************************************)
EXTENDS Naturals

CONSTANTS
  Senders, Pollers,   \* the tasks that send, and those that poll
  Handler,
  Nobody,      \* whose packet a descriptor names that holds no command yet
  Stale,       \* whose packet it names after the send has returned
  RxSize,      \* E1000_NUM_RX_DESC
  TxSize,      \* E1000_NUM_TX_DESC
  Arriving     \* the kinds of packets that the network brings

Kinds == {"request", "notice", "other"}

Tasks == Senders \cup Pollers

ASSUME SizeAssumption == RxSize \in Nat \ {0, 1} /\ TxSize \in Nat \ {0, 1}
ASSUME KindAssumption == Arriving \subseteq Kinds
ASSUME ActorAssumption == Handler \notin Tasks /\ Nobody \notin Tasks \cup {Handler}
ASSUME StaleAssumption == Stale \notin Tasks \cup {Handler, Nobody}

Actors == Tasks \cup {Handler}
RxRing == 0 .. RxSize - 1
TxRing == 0 .. TxSize - 1
Unloaded == TxSize       \* tx_cur has not been loaded for the next store

RxNext(i) == IF i = RxSize - 1 THEN 0 ELSE i + 1
TxNext(i) == IF i = TxSize - 1 THEN 0 ELSE i + 1

(* Where an actor is: at the next store or the loop of a send, or at the next *)
(* step of a look at the receive ring.                                        *)
Stores == {"address", "command", "status", "advance", "tail"}
SendPlaces == Stores \cup {"wait"}
Places == {"idle", "scan", "clear", "give"} \cup SendPlaces

VARIABLES
  rxDone,      \* the DD bit of each receive descriptor
  rxKind,      \* the packet in its buffer
  rxHead,      \* the card's next descriptor
  rxTail,      \* RDT: the descriptor the card stops at
  txAddress, txLength,   \* whose packet each transmit descriptor names, and whose length
  txDone,
  txHead, txTail,
  tx_cur,
  fragment,    \* 1: the card holds the beginning of a frame that has not been given its end
  cause,       \* ICR: what the card has to tell
  pc,
  index,       \* per actor: i of its loop
  old, loaded, \* per actor: the descriptor it waits for, and tx_cur as it loaded it
  inOrder,     \* ghost: 1 while every receive descriptor given back was the oldest unread one
  merged,      \* ghost: 1 if an interrupt since the last look told of a packet and of a send
               \* or a link change
  mixed,       \* ghost: sends that another one cut into, or found in its descriptor, or that
               \* found the ring not ready
  behind,      \* ghost: sends that found a beginning of a frame in front of their packet
  sent         \* ghost: how often the packet of the present send has gone out as a frame of
               \* its own (2: more than once, or in a longer frame)

rx == <<rxDone, rxKind, rxHead, rxTail, inOrder>>
tx == <<txAddress, txLength, txDone, txHead, txTail, tx_cur, fragment, sent>>
ghosts == <<merged, mixed, behind>>
local == <<pc, index, old, loaded>>
vars == <<rx, tx, cause, local, ghosts>>

Sending(a) == pc[a] \in SendPlaces
Goto(a, place) == pc' = [pc EXCEPT ![a] = place]

(* A task runs only while the handler does not. *)
Runs(a) == a = Handler \/ pc[Handler] = "idle"

(* The slots of a ring from one up to another, which is not among them. *)
Span(size, from, to) ==
  IF from <= to THEN from .. to - 1 ELSE (from .. size - 1) \cup (0 .. to - 1)

(* The card is not at work on the descriptors from tx_cur on, and comes to tx_cur *)
(* when the tail is moved past it.                                                *)
TxReady == tx_cur \notin Span(TxSize, txHead, txTail) /\ txHead # TxNext(tx_cur)

(* A descriptor without a command ends no frame: what it names goes out in front of the *)
(* next packet.  The card holds one, or comes to one before it comes to tx_cur.         *)
Unended ==
  fragment = 1 \/ \E i \in Span(TxSize, txHead, tx_cur) : txLength[i] = Nobody

(* The sends whose packet the card has not come to and the next send overwrites: the *)
(* ring is not looked at for room.                                                   *)
Overtaken == {b \in Actors : pc[b] = "wait" /\ old[b] = tx_cur /\ sent[b] = 0}

-----------------------------------------------------------------------------
(* After e1000_driver_start: the transmit tail is not 0, so the card takes the     *)
(* descriptors before it, which hold no command, and the first send comes behind  *)
(* them and the last one.  The link comes up when interrupts are enabled already. *)
Init ==
  /\ rxDone = [i \in RxRing |-> 0]
  /\ rxKind \in [RxRing -> {"other"}]
  /\ rxHead = 0
  /\ rxTail = RxSize - 1
  /\ txAddress = [i \in TxRing |-> Nobody]
  /\ txLength = [i \in TxRing |-> Nobody]
  /\ txDone = [i \in TxRing |-> 1]
  /\ txHead = 0
  /\ txTail = TxSize - 1
  /\ tx_cur = 0
  /\ cause = {}
  /\ pc = [a \in Actors |-> "idle"]
  /\ index = [a \in Actors |-> 0]
  /\ old = [a \in Actors |-> 0]
  /\ loaded = [a \in Actors |-> Unloaded]
  /\ inOrder = 1
  /\ merged = 0
  /\ mixed = {}
  /\ behind = {}
  /\ fragment = 0
  /\ sent = [a \in Actors |-> 0]

-----------------------------------------------------------------------------
(* e1000_send_package.  Its packet is named by its sender. *)
Begin(a) ==
  /\ Goto(a, "address")
  /\ old' = [old EXCEPT ![a] = tx_cur]
  /\ mixed' = IF \E b \in Actors : pc[b] \in Stores
              THEN mixed \cup {a} \cup {b \in Actors : Sending(b)}
              ELSE (IF TxReady THEN mixed ELSE mixed \cup {a}) \cup Overtaken
  /\ behind' = IF Unended THEN behind \cup {a} ELSE behind
  /\ UNCHANGED <<rx, tx, cause, index, loaded, merged>>

Send(t) == Runs(t) /\ pc[t] = "idle" /\ Begin(t)

LoadCounter(a) ==
  /\ Runs(a)
  /\ pc[a] \in Stores
  /\ loaded[a] = Unloaded
  /\ loaded' = [loaded EXCEPT ![a] = tx_cur]
  /\ UNCHANGED <<rx, tx, cause, pc, index, old, ghosts>>

(* The next store of a, which uses what it loaded. *)
Store(a, place, next) ==
  /\ Runs(a)
  /\ pc[a] = place
  /\ loaded[a] # Unloaded
  /\ loaded' = [loaded EXCEPT ![a] = Unloaded]
  /\ Goto(a, next)
  /\ UNCHANGED <<rx, txHead, fragment, sent, cause, index, old, ghosts>>

StoreAddress(a) ==
  /\ Store(a, "address", "command")
  /\ txAddress' = [txAddress EXCEPT ![loaded[a]] = a]
  /\ UNCHANGED <<txLength, txDone, txTail, tx_cur>>

StoreCommand(a) ==
  /\ Store(a, "command", "status")
  /\ txLength' = [txLength EXCEPT ![loaded[a]] = a]
  /\ UNCHANGED <<txAddress, txDone, txTail, tx_cur>>

StoreStatusDone(a) ==   \* faulty variant of StoreStatus: the bit is left as the last send found it
  /\ Store(a, "status", "advance")
  /\ UNCHANGED <<txAddress, txLength, txDone, txTail, tx_cur>>

StoreStatus(a) ==
  /\ Store(a, "status", "advance")
  /\ txDone' = [txDone EXCEPT ![loaded[a]] = 0]
  /\ UNCHANGED <<txAddress, txLength, txTail, tx_cur>>

StoreCounter(a) ==
  /\ Store(a, "advance", "tail")
  /\ tx_cur' = TxNext(loaded[a])
  /\ UNCHANGED <<txAddress, txLength, txDone, txTail>>

StoreTailOld(a) ==   \* faulty variant of StoreTail: the descriptor itself, where the card stops
  /\ Store(a, "tail", "wait")
  /\ txTail' = old[a]
  /\ UNCHANGED <<txAddress, txLength, txDone, tx_cur>>

StoreTail(a) ==
  /\ Store(a, "tail", "wait")
  /\ txTail' = loaded[a]
  /\ UNCHANGED <<txAddress, txLength, txDone, tx_cur>>

Returned(f, a) == [i \in TxRing |-> IF f[i] = a THEN Stale ELSE f[i]]

(* The descriptor is done: the send returns, and the caller frees the packet's *)
(* page and sends another packet from another page later.                      *)
WaitEnds(a) ==
  /\ Runs(a)
  /\ pc[a] = "wait"
  /\ txDone[old[a]] = 1
  /\ Goto(a, IF a = Handler THEN "clear" ELSE "idle")
  /\ txAddress' = Returned(txAddress, a)
  /\ txLength' = Returned(txLength, a)
  /\ sent' = [sent EXCEPT ![a] = 0]
  /\ mixed' = mixed \ {a}
  /\ behind' = behind \ {a}
  /\ old' = [old EXCEPT ![a] = 0]
  /\ UNCHANGED <<rx, txDone, txHead, txTail, tx_cur, fragment, cause, index, loaded, merged>>

SendStep(a) ==
  \/ LoadCounter(a)
  \/ StoreAddress(a)
  \/ StoreCommand(a)
  \/ StoreStatus(a)
  \/ StoreCounter(a)
  \/ StoreTail(a)
  \/ WaitEnds(a)

-----------------------------------------------------------------------------
(* e1000_recieve_package and the loop of the handler.  A look at a descriptor: *)
(* one that is done is the poller's; the end of the ring is its beginning.     *)
Receive(t) ==
  /\ t # Handler
  /\ Runs(t)
  /\ pc[t] = "idle"
  /\ Goto(t, "scan")
  /\ UNCHANGED <<rx, tx, cause, index, old, loaded, ghosts>>

Look(t) ==
  /\ t # Handler
  /\ Runs(t)
  /\ pc[t] = "scan"
  /\ IF rxDone[index[t]] = 1
     THEN Goto(t, "clear") /\ UNCHANGED index
     ELSE index' = [index EXCEPT ![t] = RxNext(@)] /\ UNCHANGED pc
  /\ UNCHANGED <<rx, tx, cause, old, loaded, ghosts>>

ClearKeepsDone(a) ==   \* faulty variant of Clear: the bit stays set
  /\ Runs(a)
  /\ pc[a] = "clear"
  /\ inOrder' = IF index[a] = RxNext(rxTail) /\ rxDone[index[a]] = 1 THEN inOrder ELSE 0
  /\ Goto(a, "give")
  /\ UNCHANGED <<rxDone, rxKind, rxHead, rxTail, tx, cause, index, old, loaded, ghosts>>

Clear(a) ==
  /\ Runs(a)
  /\ pc[a] = "clear"
  /\ rxDone' = [rxDone EXCEPT ![index[a]] = 0]
  /\ inOrder' = IF index[a] = RxNext(rxTail) /\ rxDone[index[a]] = 1 THEN inOrder ELSE 0
  /\ Goto(a, "give")
  /\ UNCHANGED <<rxKind, rxHead, rxTail, tx, cause, index, old, loaded, ghosts>>

GiveNext(a) ==   \* faulty variant of Give: the card is given the descriptor after it, too
  /\ Runs(a)
  /\ pc[a] = "give"
  /\ rxTail' = RxNext(index[a])
  /\ index' = [index EXCEPT ![a] = IF a = Handler THEN @ + 1 ELSE 0]
  /\ Goto(a, IF a = Handler THEN "scan" ELSE "idle")
  /\ UNCHANGED <<rxDone, rxKind, rxHead, inOrder, tx, cause, old, loaded, ghosts>>

(* The tail is moved: a poller returns with the packet, the handler goes on. *)
Give(a) ==
  /\ Runs(a)
  /\ pc[a] = "give"
  /\ rxTail' = index[a]
  /\ index' = [index EXCEPT ![a] = IF a = Handler THEN @ + 1 ELSE 0]
  /\ Goto(a, IF a = Handler THEN "scan" ELSE "idle")
  /\ UNCHANGED <<rxDone, rxKind, rxHead, inOrder, tx, cause, old, loaded, ghosts>>

-----------------------------------------------------------------------------
(* irq_e1000.  To read ICR clears it, and a send or a link change that it tells of *)
(* hides a packet.                                                                  *)
OtherInterrupt ==
  /\ pc[Handler] = "idle"
  /\ cause \cap {"tx", "link"} # {}
  /\ cause' = {}
  /\ merged' = IF "rx" \in cause THEN 1 ELSE merged
  /\ UNCHANGED <<rx, tx, local, mixed, behind>>

ReceiveInterrupt ==
  /\ pc[Handler] = "idle"
  /\ cause = {"rx"}
  /\ cause' = {}
  /\ Goto(Handler, "scan")
  /\ merged' = 0
  /\ UNCHANGED <<rx, tx, index, old, loaded, mixed, behind>>

(* The next descriptor is empty, or ethernet_handle_package returns 0 for it. *)
PassOver ==
  /\ pc[Handler] = "scan"
  /\ index[Handler] < RxSize
  /\ rxDone[index[Handler]] = 0 \/ rxKind[index[Handler]] = "other"
  /\ index' = [index EXCEPT ![Handler] = @ + 1]
  /\ UNCHANGED <<rx, tx, cause, pc, old, loaded, ghosts>>

Answer ==
  /\ pc[Handler] = "scan"
  /\ index[Handler] < RxSize
  /\ rxDone[index[Handler]] = 1
  /\ rxKind[index[Handler]] = "request"
  /\ Begin(Handler)

Drop ==
  /\ pc[Handler] = "scan"
  /\ index[Handler] < RxSize
  /\ rxDone[index[Handler]] = 1
  /\ rxKind[index[Handler]] = "notice"
  /\ Goto(Handler, "clear")
  /\ UNCHANGED <<rx, tx, cause, index, old, loaded, ghosts>>

ReturnFromInterruptAcknowledged ==   \* faulty variant: ICR is read at the end
  /\ pc[Handler] = "scan"
  /\ index[Handler] = RxSize
  /\ cause' = {}
  /\ Goto(Handler, "idle")
  /\ index' = [index EXCEPT ![Handler] = 0]
  /\ UNCHANGED <<rx, tx, old, loaded, ghosts>>

ReturnFromInterrupt ==
  /\ pc[Handler] = "scan"
  /\ index[Handler] = RxSize
  /\ Goto(Handler, "idle")
  /\ index' = [index EXCEPT ![Handler] = 0]
  /\ UNCHANGED <<rx, tx, cause, old, loaded, ghosts>>

HandlerStep ==
  \/ PassOver
  \/ Answer
  \/ Drop
  \/ Clear(Handler)
  \/ Give(Handler)
  \/ SendStep(Handler)
  \/ ReturnFromInterrupt

TaskStep(t) == SendStep(t) \/ Look(t) \/ Clear(t) \/ Give(t)

-----------------------------------------------------------------------------
(* The card.  A descriptor that holds no command is kept for the next frame that has  *)
(* an end; otherwise what address and length agree on goes out, behind what was kept, *)
(* and the descriptor is done.  The card also tells when its queue is empty.          *)
Transmit ==
  /\ txHead # txTail
  /\ txHead' = TxNext(txHead)
  /\ IF txLength[txHead] = Nobody
     THEN /\ cause' = IF txHead' = txTail THEN cause \cup {"tx"} ELSE cause
          /\ fragment' = 1
          /\ UNCHANGED <<txDone, sent>>
     ELSE /\ cause' = cause \cup {"tx"}
          /\ fragment' = 0
          /\ txDone' = [txDone EXCEPT ![txHead] = 1]
          /\ sent' = [a \in Actors |->
                        IF a = txAddress[txHead] /\ a = txLength[txHead]
                        THEN IF sent[a] = 0 /\ fragment = 0 THEN 1 ELSE 2
                        ELSE sent[a]]
  /\ UNCHANGED <<rx, txAddress, txLength, txTail, tx_cur, local, ghosts>>

LinkChange ==
  /\ cause' = cause \cup {"link"}
  /\ UNCHANGED <<rx, tx, local, ghosts>>

Arrive(kind) ==
  /\ rxHead # rxTail
  /\ rxDone' = [rxDone EXCEPT ![rxHead] = 1]
  /\ rxKind' = [rxKind EXCEPT ![rxHead] = kind]
  /\ rxHead' = RxNext(rxHead)
  /\ cause' = cause \cup {"rx"}
  /\ UNCHANGED <<rxTail, inOrder, tx, local, ghosts>>

Next ==
  \/ \E t \in Senders : Send(t)
  \/ \E t \in Pollers : Receive(t)
  \/ \E t \in Tasks : TaskStep(t)
  \/ OtherInterrupt
  \/ ReceiveInterrupt
  \/ HandlerStep
  \/ Transmit
  \/ LinkChange
  \/ \E kind \in Arriving : Arrive(kind)

(* The card sends, the processor runs the handler, and every task gets steps *)
(* between interrupts again and again.                                       *)
Fairness ==
  /\ WF_vars(Transmit)
  /\ WF_vars(HandlerStep)
  /\ \A t \in Tasks : SF_vars(TaskStep(t))

Spec == Init /\ [][Next]_vars /\ Fairness

-----------------------------------------------------------------------------
TypeOK ==
  /\ rxDone \in [RxRing -> {0, 1}]
  /\ rxKind \in [RxRing -> Kinds]
  /\ rxHead \in RxRing /\ rxTail \in RxRing
  /\ txAddress \in [TxRing -> Actors \cup {Nobody, Stale}]
  /\ txLength \in [TxRing -> Actors \cup {Nobody, Stale}]
  /\ txDone \in [TxRing -> {0, 1}]
  /\ txHead \in TxRing /\ txTail \in TxRing /\ tx_cur \in TxRing
  /\ cause \subseteq {"rx", "tx", "link"}
  /\ pc \in [Actors -> Places]
  /\ index \in [Actors -> 0 .. RxSize]
  /\ old \in [Actors -> TxRing]
  /\ loaded \in [Actors -> 0 .. TxSize]
  /\ inOrder \in {0, 1}
  /\ merged \in {0, 1}
  /\ mixed \subseteq Actors /\ behind \subseteq Actors
  /\ fragment \in {0, 1}
  /\ sent \in [Actors -> 0 .. 2]

(* e1000_send_package returns only when its packet has gone out, once and as a frame *)
(* of its own, unless another send was between its stores and this one's, or took its *)
(* descriptor, or the card was not ready when it began: then it may return before, or  *)
(* send another packet; or unless a descriptor without a command lay in front of it,   *)
(* as before the first send after the start: then its packet is the end of a longer    *)
(* frame that begins with what such descriptors name.                                  *)
SendsGoOut ==
  [][\A a \in Actors \ (mixed \cup behind) :
       Sending(a) /\ pc'[a] \notin SendPlaces => sent[a] = 1]_vars

(* A send that no other cuts into, the first one included, returns.  (One that is cut *)
(* into may wait forever, and when it is the handler's, the machine with it.)         *)
SendEnds == \A a \in Actors : Sending(a) ~> ~Sending(a) \/ mixed # {}

(* A packet that is the handler's to deal with lies in the ring, and no interrupt is  *)
(* due, only if an interrupt told of it and of a send or a link change at once.       *)
ForgottenOnlyIfMerged ==
  \A i \in RxRing :
    rxDone[i] = 1 /\ rxKind[i] # "other" /\ pc[Handler] = "idle" /\ "rx" \notin cause =>
      merged = 1

(* The descriptors that the card has filled and that nobody has given back. *)
Unread == {i \in RxRing : rxDone[i] = 1} \cup {index[a] : a \in {b \in Actors : pc[b] = "give"}}

(* As long as descriptors are given back in the order they were filled, the card *)
(* stops only when all but one wait to be read.  (Given back in another order,   *)
(* it can stop with nothing to read, and nobody moves the tail again.)           *)
DeafOnlyIfFull == inOrder = 1 /\ rxHead = rxTail => Unread = RxRing \ {rxTail}

(* And it never fills a descriptor that still waits to be read. *)
NothingOverwritten == [][inOrder = 1 /\ rxHead' # rxHead => rxHead \notin Unread]_vars
=============================================================================
