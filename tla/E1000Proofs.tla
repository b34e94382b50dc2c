----------------------------- MODULE E1000Proofs -----------------------------
(***************************************************************************)
(* Theorems about E1000, for any number of tasks and of descriptors: its   *)
(* type invariant, what the order in which receive descriptors are given   *)
(* back does for the card, and that a send nobody cuts into has gone out   *)
(* when it returns.                                                        *)
(***************************************************************************)
EXTENDS E1000, TLAPS

USE DEF Actors, RxRing, TxRing, Unloaded, Stores, SendPlaces, Places, Kinds

(* The type invariant with what it takes to be inductive: an actor that holds a *)
(* descriptor holds one of the ring.                                            *)
TypeInv ==
  /\ TypeOK
  /\ \A t \in Tasks : index[t] \in RxRing
  /\ pc[Handler] \in {"clear", "give"} \cup SendPlaces => index[Handler] \in RxRing

LEMMA Sizes == /\ RxSize \in Nat /\ RxSize >= 2
               /\ TxSize \in Nat /\ TxSize >= 2
BY SizeAssumption

LEMMA Rings == /\ \A i \in RxRing : RxNext(i) \in RxRing
               /\ \A i \in TxRing : TxNext(i) \in TxRing
BY Sizes DEF RxNext, TxNext

LEMMA Distinct == Handler \in Actors /\ Tasks \subseteq Actors /\ Handler \notin Tasks
BY ActorAssumption

LEMMA InitTypes == Init => TypeInv
<1> SUFFICES ASSUME Init PROVE TypeInv
  OBVIOUS
<1>1. 0 \in RxRing /\ RxSize - 1 \in RxRing /\ 0 \in TxRing /\ TxSize - 1 \in TxRing
  BY Sizes
<1>2. 0 \in 0 .. RxSize /\ TxSize \in 0 .. TxSize
  BY Sizes
<1> QED BY <1>1, <1>2, Distinct DEF Init, TypeInv, TypeOK

LEMMA SendTypes ==
  ASSUME TypeInv, NEW a \in Actors, SendStep(a)
  PROVE  TypeInv'
<1> USE DEF TypeInv, TypeOK, Goto, rx, tx, ghosts
<1>1. ASSUME LoadCounter(a) PROVE TypeInv'
  <2>1. tx_cur \in 0 .. TxSize
    BY Sizes
  <2> QED BY <1>1, <2>1, Distinct DEF LoadCounter
<1>2. ASSUME NEW place \in Stores, NEW next \in SendPlaces, Store(a, place, next)
      PROVE  /\ loaded[a] \in TxRing
             /\ loaded' \in [Actors -> 0 .. TxSize]
             /\ pc' \in [Actors -> Places]
             /\ pc'[Handler] \in {"clear", "give"} \cup SendPlaces => index[Handler] \in RxRing
             /\ UNCHANGED <<rxDone, rxKind, rxHead, rxTail, inOrder, txHead, fragment, sent, cause, index, old,
                             merged, mixed, behind>>
  <2>1. loaded[a] \in TxRing
    BY <1>2, Sizes DEF Store
  <2>2. loaded' \in [Actors -> 0 .. TxSize]
    BY <1>2, Sizes DEF Store
  <2>3. pc' \in [Actors -> Places]
    BY <1>2 DEF Store
  <2>4. pc'[Handler] \in {"clear", "give"} \cup SendPlaces => index[Handler] \in RxRing
    BY <1>2, Distinct DEF Store
  <2> QED BY <1>2, <2>1, <2>2, <2>3, <2>4 DEF Store
<1>3. ASSUME StoreAddress(a) PROVE TypeInv'
  <2>1. Store(a, "address", "command")
    BY <1>3 DEF StoreAddress
  <2> QED BY <1>2, <1>3, <2>1 DEF StoreAddress
<1>4. ASSUME StoreCommand(a) PROVE TypeInv'
  <2>1. Store(a, "command", "status")
    BY <1>4 DEF StoreCommand
  <2> QED BY <1>2, <1>4, <2>1 DEF StoreCommand
<1>5. ASSUME StoreStatus(a) PROVE TypeInv'
  <2>1. Store(a, "status", "advance")
    BY <1>5 DEF StoreStatus
  <2> QED BY <1>2, <1>5, <2>1 DEF StoreStatus
<1>6. ASSUME StoreCounter(a) PROVE TypeInv'
  <2>1. Store(a, "advance", "tail")
    BY <1>6 DEF StoreCounter
  <2> QED BY <1>2, <1>6, <2>1, Rings DEF StoreCounter
<1>7. ASSUME StoreTail(a) PROVE TypeInv'
  <2>1. Store(a, "tail", "wait")
    BY <1>7 DEF StoreTail
  <2> QED BY <1>2, <1>7, <2>1 DEF StoreTail
<1>8. ASSUME WaitEnds(a) PROVE TypeInv'
  <2>1. 0 \in TxRing
    BY Sizes
  <2>2. txAddress' \in [TxRing -> Actors \cup {Nobody, Stale}] /\ txLength' \in [TxRing -> Actors \cup {Nobody, Stale}]
    BY <1>8 DEF WaitEnds, Returned
  <2>3. pc' \in [Actors -> Places]
    BY <1>8 DEF WaitEnds
  <2>4. pc'[Handler] \in {"clear", "give"} \cup SendPlaces => index[Handler] \in RxRing
    BY <1>8, Distinct DEF WaitEnds
  <2> QED BY <1>8, <2>1, <2>2, <2>3, <2>4 DEF WaitEnds
<1> QED BY <1>1, <1>3, <1>4, <1>5, <1>6, <1>7, <1>8 DEF SendStep

LEMMA BeginTypes ==
  ASSUME TypeInv, NEW a \in Actors, Begin(a), a = Handler => index[a] \in RxRing
  PROVE  TypeInv'
<1> USE DEF TypeInv, TypeOK, Goto, rx, tx, Begin
<1>1. mixed' \subseteq Actors /\ behind' \subseteq Actors
  BY DEF Sending, Overtaken
<1> QED BY <1>1, Distinct

LEMMA NextTypes == TypeInv /\ [Next]_vars => TypeInv'
<1> SUFFICES ASSUME TypeInv, [Next]_vars PROVE TypeInv'
  OBVIOUS
<1> USE DEF TypeInv, TypeOK, Goto, rx, tx, local, ghosts
<1>1. ASSUME NEW t \in Tasks, Send(t) PROVE TypeInv'
  BY <1>1, BeginTypes, Distinct DEF Send
<1>2. ASSUME NEW t \in Tasks, Receive(t) PROVE TypeInv'
  BY <1>2, Distinct DEF Receive
<1>3. ASSUME NEW t \in Tasks, Look(t) PROVE TypeInv'
  <2>1. RxNext(index[t]) \in RxRing /\ RxNext(index[t]) \in 0 .. RxSize
    BY Rings, Sizes
  <2>2. CASE rxDone[index[t]] = 1
    BY <1>3, <2>2, Distinct DEF Look
  <2>3. CASE rxDone[index[t]] # 1
    BY <1>3, <2>1, <2>3, Distinct DEF Look
  <2> QED BY <2>2, <2>3
<1>4. ASSUME NEW a \in Actors, Clear(a) PROVE TypeInv'
  BY <1>4, Distinct DEF Clear
<1>5. ASSUME NEW a \in Actors, Give(a) PROVE TypeInv'
  <2>1. index[a] \in RxRing
    BY <1>5, Distinct DEF Give
  <2>2. /\ index[a] + 1 \in 0 .. RxSize
        /\ 0 \in RxRing /\ 0 \in 0 .. RxSize
    BY <2>1, Sizes
  <2> QED BY <1>5, <2>1, <2>2, Distinct DEF Give
<1>6. ASSUME NEW a \in Actors, SendStep(a) PROVE TypeInv'
  BY <1>6, SendTypes
<1>7. CASE OtherInterrupt \/ ReceiveInterrupt
  BY <1>7, Distinct DEF OtherInterrupt, ReceiveInterrupt
<1>8. CASE PassOver
  <2>1. index[Handler] + 1 \in 0 .. RxSize
    BY <1>8, Sizes, Distinct DEF PassOver
  <2> QED BY <1>8, <2>1, Distinct DEF PassOver
<1>9. CASE Answer
  <2>1. index[Handler] \in RxRing
    BY <1>9, Sizes, Distinct DEF Answer
  <2> QED BY <1>9, <2>1, BeginTypes, Distinct DEF Answer
<1>10. CASE Drop
  <2>1. index[Handler] \in RxRing
    BY <1>10, Sizes, Distinct DEF Drop
  <2> QED BY <1>10, <2>1, Distinct DEF Drop
<1>11. CASE ReturnFromInterrupt
  <2>1. 0 \in 0 .. RxSize
    BY Sizes
  <2> QED BY <1>11, <2>1, Distinct DEF ReturnFromInterrupt
<1>12. CASE Transmit
  <2>1. sent' \in [Actors -> 0 .. 2]
    BY <1>12 DEF Transmit
  <2>2. txHead' \in TxRing
    BY <1>12, Rings DEF Transmit
  <2> QED BY <1>12, <2>1, <2>2 DEF Transmit
<1>17. CASE LinkChange
  BY <1>17 DEF LinkChange
<1>13. ASSUME NEW kind \in Arriving, Arrive(kind) PROVE TypeInv'
  <2>1. rxHead' \in RxRing
    BY <1>13, Rings DEF Arrive
  <2> QED BY <1>13, <2>1, KindAssumption DEF Arrive
<1>14. CASE UNCHANGED vars
  BY <1>14 DEF vars
<1>15. ASSUME NEW t \in Tasks, TaskStep(t) PROVE TypeInv'
  BY <1>15, <1>3, <1>4, <1>5, <1>6, Distinct DEF TaskStep
<1>16. CASE HandlerStep
  BY <1>16, <1>4, <1>5, <1>6, <1>8, <1>9, <1>10, <1>11, Distinct DEF HandlerStep
<1> QED BY <1>1, <1>2, <1>7, <1>12, <1>13, <1>14, <1>15, <1>16, <1>17 DEF Next, Tasks

LEMMA Types == Spec => []TypeInv
BY InitTypes, NextTypes, PTL DEF Spec

(* The rings and the loops stay inside their arrays, however tasks and the handler *)
(* cut into one another.                                                           *)
THEOREM TypeCorrect == Spec => []TypeOK
BY Types, PTL DEF TypeInv

-----------------------------------------------------------------------------
(* Receive descriptors.  While they are given back in order, the unread ones are *)
(* those between the card's tail and its head, and whoever is about to move the  *)
(* tail is alone and moves it by one.                                            *)
Done == {i \in RxRing : rxDone[i] = 1}
Filled == Span(RxSize, RxNext(rxTail), rxHead)

OrderInv ==
  inOrder = 1 =>
    /\ Unread = Filled
    /\ \A a \in Actors : pc[a] = "give" => index[a] = RxNext(rxTail) /\ rxDone[index[a]] = 0
    /\ \A a, b \in Actors : pc[a] = "give" /\ pc[b] = "give" => a = b

LEMMA SpanGrows ==
  ASSUME NEW t \in RxRing, NEW h \in RxRing, h # t
  PROVE  /\ h \notin Span(RxSize, RxNext(t), h)
         /\ Span(RxSize, RxNext(t), RxNext(h)) = Span(RxSize, RxNext(t), h) \cup {h}
BY Sizes DEF Span, RxNext

LEMMA SpanShrinks ==
  ASSUME NEW t \in RxRing, NEW h \in RxRing, RxNext(t) \in Span(RxSize, RxNext(t), h)
  PROVE  Span(RxSize, RxNext(RxNext(t)), h) = Span(RxSize, RxNext(t), h) \ {RxNext(t)}
BY Sizes DEF Span, RxNext

LEMMA SpanFull ==
  ASSUME NEW t \in RxRing
  PROVE  Span(RxSize, RxNext(t), t) = RxRing \ {t}
BY Sizes DEF Span, RxNext

LEMMA SpanEmpty ==
  ASSUME NEW t \in RxRing
  PROVE  Span(RxSize, RxNext(t), RxNext(t)) = {}
BY Sizes DEF Span, RxNext

(* A step that leaves the receive ring and those who hold a descriptor alone. *)
LEMMA OrderKept ==
  ASSUME OrderInv, UNCHANGED rx,
         \A a \in Actors : pc'[a] = "give" <=> pc[a] = "give",
         \A a \in Actors : pc[a] = "give" => index'[a] = index[a]
  PROVE  OrderInv'
<1>1. Unread' = Unread
  BY DEF Unread, rx
<1> QED BY <1>1 DEF OrderInv, Filled, rx

LEMMA SendOrder ==
  ASSUME TypeInv, OrderInv, NEW a \in Actors, SendStep(a)
  PROVE  OrderInv'
<1> USE DEF TypeInv, TypeOK, Goto, rx
<1>1. UNCHANGED <<rx, index>> /\ \A b \in Actors : pc'[b] = "give" <=> pc[b] = "give"
  <2>1. CASE LoadCounter(a)
    BY <2>1 DEF LoadCounter
  <2>2. CASE StoreAddress(a)
    BY <2>2 DEF StoreAddress, Store
  <2>3. CASE StoreCommand(a)
    BY <2>3 DEF StoreCommand, Store
  <2>4. CASE StoreStatus(a)
    BY <2>4 DEF StoreStatus, Store
  <2>5. CASE StoreCounter(a)
    BY <2>5 DEF StoreCounter, Store
  <2>6. CASE StoreTail(a)
    BY <2>6 DEF StoreTail, Store
  <2>7. CASE WaitEnds(a)
    BY <2>7 DEF WaitEnds
  <2> QED BY <2>1, <2>2, <2>3, <2>4, <2>5, <2>6, <2>7 DEF SendStep
<1> QED BY <1>1, OrderKept

LEMMA ClearOrder ==
  ASSUME TypeInv, OrderInv, NEW a \in Actors, Clear(a)
  PROVE  OrderInv'
<1> USE DEF TypeInv, TypeOK, Goto, Clear
<1> SUFFICES ASSUME inOrder' = 1 PROVE OrderInv'
  BY DEF OrderInv
<1>1. /\ inOrder = 1
      /\ index[a] = RxNext(rxTail)
      /\ rxDone[index[a]] = 1
  OBVIOUS
<1>2. index[a] \in RxRing
  BY <1>1, Rings
<1>3. \A b \in Actors : pc[b] # "give"
  BY <1>1 DEF OrderInv
<1>4. Unread = Done
  BY <1>3 DEF Unread, Done
<1>5. \A b \in Actors : pc'[b] = "give" <=> b = a
  BY <1>3
<1>6. rxDone'[index[a]] = 0
  BY <1>2
<1>7. Unread' = (Done \ {index[a]}) \cup {index[a]}
  <2>1. {i \in RxRing : rxDone'[i] = 1} = Done \ {index[a]}
    BY <1>2 DEF Done
  <2>2. {index'[b] : b \in {c \in Actors : pc'[c] = "give"}} = {index[a]}
    BY <1>5
  <2> QED BY <2>1, <2>2 DEF Unread
<1>8. Unread' = Unread
  BY <1>1, <1>2, <1>4, <1>7 DEF Done
<1> QED BY <1>1, <1>5, <1>6, <1>8 DEF OrderInv, Filled

LEMMA GiveOrder ==
  ASSUME TypeInv, OrderInv, NEW a \in Actors, Give(a)
  PROVE  OrderInv'
<1> USE DEF TypeInv, TypeOK, Goto, Give
<1> SUFFICES ASSUME inOrder = 1 PROVE OrderInv'
  BY DEF OrderInv
<1>1. index[a] = RxNext(rxTail) /\ rxDone[index[a]] = 0
  BY DEF OrderInv
<1>2. index[a] \in RxRing
  BY <1>1, Rings
<1>3. \A b \in Actors : pc[b] = "give" <=> b = a
  BY DEF OrderInv
<1>4. \A b \in Actors : pc'[b] # "give"
  BY <1>3
<1>5. Unread = Done \cup {index[a]} /\ index[a] \notin Done
  BY <1>1, <1>3 DEF Unread, Done
<1>6. Unread' = Done
  BY <1>4 DEF Unread, Done
<1>7. Done = Filled \ {RxNext(rxTail)} /\ RxNext(rxTail) \in Filled
  BY <1>1, <1>5 DEF OrderInv
<1>8. Filled' = Filled \ {RxNext(rxTail)}
  BY <1>1, <1>7, SpanShrinks DEF Filled
<1> QED BY <1>4, <1>6, <1>7, <1>8 DEF OrderInv

LEMMA ArriveOrder ==
  ASSUME TypeInv, OrderInv, NEW kind \in Arriving, Arrive(kind)
  PROVE  OrderInv'
<1> USE DEF TypeInv, TypeOK, Arrive, local
<1> SUFFICES ASSUME inOrder = 1 PROVE OrderInv'
  BY DEF OrderInv
<1>1. Unread = Filled
  BY DEF OrderInv
<1>2. rxHead \notin Filled /\ Filled' = Filled \cup {rxHead}
  BY SpanGrows DEF Filled
<1>3. Unread' = Unread \cup {rxHead}
  BY DEF Unread
<1>4. ASSUME NEW a \in Actors, pc[a] = "give" PROVE rxDone'[index[a]] = 0
  <2>1. index[a] \in Unread
    BY <1>4 DEF Unread
  <2>2. index[a] \in RxRing /\ index[a] # rxHead
    BY <1>1, <1>2, <1>4, <2>1, Rings DEF OrderInv
  <2> QED BY <1>4, <2>2 DEF OrderInv
<1> QED BY <1>1, <1>2, <1>3, <1>4 DEF OrderInv

LEMMA InitOrder == Init => OrderInv
<1> SUFFICES ASSUME Init PROVE OrderInv
  OBVIOUS
<1>1. rxTail \in RxRing /\ RxNext(rxTail) = 0 /\ rxHead = 0
  BY Sizes DEF Init, RxNext
<1>2. Filled = {}
  BY <1>1, SpanEmpty DEF Filled
<1>3. Unread = {}
  BY DEF Init, Unread
<1>4. \A a \in Actors : pc[a] # "give"
  BY DEF Init
<1> QED BY <1>2, <1>3, <1>4 DEF OrderInv

LEMMA NextOrder == TypeInv /\ OrderInv /\ [Next]_vars => OrderInv'
<1> SUFFICES ASSUME TypeInv, OrderInv, [Next]_vars PROVE OrderInv'
  OBVIOUS
<1>1. ASSUME NEW a \in Actors, Begin(a), pc[a] # "give" PROVE OrderInv'
  BY <1>1, OrderKept DEF Begin, Goto, TypeInv, TypeOK
<1>2. ASSUME NEW t \in Tasks, Send(t) PROVE OrderInv'
  BY <1>1, <1>2, Distinct DEF Send
<1>3. ASSUME NEW t \in Tasks, Receive(t) PROVE OrderInv'
  BY <1>3, OrderKept DEF Receive, Goto, TypeInv, TypeOK
<1>4. ASSUME NEW t \in Tasks, Look(t) PROVE OrderInv'
  BY <1>4, OrderKept DEF Look, Goto, TypeInv, TypeOK
<1>5. CASE OtherInterrupt \/ ReceiveInterrupt
  BY <1>5, OrderKept DEF OtherInterrupt, ReceiveInterrupt, Goto, local, TypeInv, TypeOK
<1>6. CASE PassOver
  BY <1>6, OrderKept DEF PassOver, Goto, TypeInv, TypeOK
<1>7. CASE Answer
  BY <1>1, <1>7, Distinct DEF Answer
<1>8. CASE Drop
  BY <1>8, OrderKept DEF Drop, Goto, TypeInv, TypeOK
<1>9. CASE ReturnFromInterrupt
  BY <1>9, OrderKept DEF ReturnFromInterrupt, Goto, TypeInv, TypeOK
<1>10. CASE Transmit
  BY <1>10, OrderKept DEF Transmit, local
<1>14. CASE LinkChange
  BY <1>14, OrderKept DEF LinkChange, local
<1>11. CASE UNCHANGED vars
  BY <1>11, OrderKept DEF vars, local
<1>12. ASSUME NEW t \in Tasks, TaskStep(t) PROVE OrderInv'
  BY <1>4, <1>12, SendOrder, ClearOrder, GiveOrder, Distinct DEF TaskStep
<1>13. CASE HandlerStep
  BY <1>6, <1>7, <1>8, <1>9, <1>13, SendOrder, ClearOrder, GiveOrder, Distinct DEF HandlerStep
<1> QED BY <1>2, <1>3, <1>5, <1>10, <1>11, <1>12, <1>13, <1>14, ArriveOrder DEF Next, Tasks

LEMMA Order == Spec => [](TypeInv /\ OrderInv)
BY InitTypes, InitOrder, NextTypes, NextOrder, PTL DEF Spec

(* A card that has stopped has all its buffers but one full of packets to be read, *)
(* as long as descriptors were given back in the order they were filled.           *)
THEOREM DeafCorrect == Spec => []DeafOnlyIfFull
<1>1. TypeInv /\ OrderInv => DeafOnlyIfFull
  BY SpanFull DEF TypeInv, TypeOK, OrderInv, Filled, DeafOnlyIfFull
<1> QED BY <1>1, Order, PTL

(* The card then overwrites nothing that still is to be read. *)
THEOREM OverwriteCorrect == Spec => NothingOverwritten
<1>1. TypeInv /\ OrderInv /\ [Next]_vars => (inOrder = 1 /\ rxHead' # rxHead => rxHead \notin Unread)
  <2> SUFFICES ASSUME TypeInv, OrderInv, [Next]_vars, inOrder = 1, rxHead' # rxHead
               PROVE  rxHead \notin Unread
    OBVIOUS
  <2>1. PICK kind \in Arriving : Arrive(kind)
    BY DEF Next, vars, rx, tx, local, Send, Receive, TaskStep, HandlerStep, SendStep, Begin, LoadCounter,
           StoreAddress, StoreCommand, StoreStatus, StoreCounter, StoreTail, Store, WaitEnds, Look, Clear, Give,
           OtherInterrupt, ReceiveInterrupt, PassOver, Answer, Drop, ReturnFromInterrupt, Transmit, LinkChange
  <2>2. rxHead \notin Filled
    BY <2>1, SpanGrows DEF Arrive, Filled, TypeInv, TypeOK
  <2> QED BY <2>2 DEF OrderInv
<1> QED BY <1>1, Order, PTL DEF Spec, NothingOverwritten

-----------------------------------------------------------------------------
(* What the handler has yet to see: an interrupt will tell of it, or its loop has *)
(* still to come to it, or an interrupt told of it together with something else.   *)
Awaited(i) ==
  \/ "rx" \in cause
  \/ merged = 1
  \/ pc[Handler] # "idle" /\ index[Handler] < i
  \/ pc[Handler] \notin {"idle", "give"} /\ index[Handler] = i

SeenInv ==
  /\ pc[Handler] = "idle" => index[Handler] = 0
  /\ \A i \in RxRing : rxDone[i] = 1 /\ rxKind[i] # "other" => Awaited(i)

(* A step of a task, or of the handler inside one turn of its loop. *)
LEMMA SeenKept ==
  ASSUME TypeInv, SeenInv, UNCHANGED <<rxKind, cause, merged>>,
         pc'[Handler] = "idle" <=> pc[Handler] = "idle",
         pc'[Handler] = "give" <=> pc[Handler] = "give",
         index'[Handler] = index[Handler],
         \A i \in RxRing : rxDone'[i] = 1 => rxDone[i] = 1
  PROVE  SeenInv'
BY DEF SeenInv, Awaited, TypeInv, TypeOK

LEMMA SendSeen ==
  ASSUME TypeInv, SeenInv, NEW a \in Actors, SendStep(a)
  PROVE  SeenInv'
<1> USE DEF TypeInv, TypeOK, Goto, rx, ghosts
<1>1. /\ UNCHANGED <<rx, cause, merged, index>>
      /\ pc'[Handler] = "idle" <=> pc[Handler] = "idle"
      /\ pc'[Handler] = "give" <=> pc[Handler] = "give"
  <2>1. CASE LoadCounter(a)
    BY <2>1 DEF LoadCounter
  <2>2. CASE StoreAddress(a)
    BY <2>2, Distinct DEF StoreAddress, Store
  <2>3. CASE StoreCommand(a)
    BY <2>3, Distinct DEF StoreCommand, Store
  <2>4. CASE StoreStatus(a)
    BY <2>4, Distinct DEF StoreStatus, Store
  <2>5. CASE StoreCounter(a)
    BY <2>5, Distinct DEF StoreCounter, Store
  <2>6. CASE StoreTail(a)
    BY <2>6, Distinct DEF StoreTail, Store
  <2>7. CASE WaitEnds(a)
    BY <2>7, Distinct DEF WaitEnds
  <2> QED BY <2>1, <2>2, <2>3, <2>4, <2>5, <2>6, <2>7 DEF SendStep
<1> QED BY <1>1, SeenKept

LEMMA NextSeen == TypeInv /\ SeenInv /\ [Next]_vars => SeenInv'
<1> SUFFICES ASSUME TypeInv, SeenInv, [Next]_vars PROVE SeenInv'
  OBVIOUS
<1> USE DEF Goto, rx, ghosts
<1>1. ASSUME NEW a \in Actors, Begin(a), a = Handler => pc[a] \notin {"idle", "give"} PROVE SeenInv'
  BY <1>1, SeenKept, Distinct DEF Begin, TypeInv, TypeOK
<1>2. ASSUME NEW t \in Tasks, Send(t) PROVE SeenInv'
  BY <1>1, <1>2, Distinct DEF Send
<1>3. ASSUME NEW t \in Tasks, Receive(t) PROVE SeenInv'
  BY <1>3, SeenKept, Distinct DEF Receive, TypeInv, TypeOK
<1>4. ASSUME NEW t \in Tasks, Look(t) PROVE SeenInv'
  BY <1>4, SeenKept, Distinct DEF Look, TypeInv, TypeOK
<1>5. ASSUME NEW a \in Actors, Clear(a) PROVE SeenInv'
  <2>1. CASE a # Handler
    BY <1>5, <2>1, SeenKept, Distinct DEF Clear, TypeInv, TypeOK
  <2>2. CASE a = Handler
    <3>1. /\ pc[Handler] = "clear" /\ pc'[Handler] = "give"
          /\ index[Handler] \in RxRing
          /\ rxDone' = [rxDone EXCEPT ![index[Handler]] = 0]
          /\ UNCHANGED <<index, rxKind, cause, merged>>
      BY <1>5, <2>2, Distinct DEF Clear, TypeInv, TypeOK
    <3>2. ASSUME NEW i \in RxRing, rxDone'[i] = 1, rxKind[i] # "other" PROVE Awaited(i)'
      <4>1. i # index[Handler] /\ rxDone[i] = 1
        BY <3>1, <3>2 DEF TypeInv, TypeOK
      <4> QED BY <3>1, <3>2, <4>1 DEF SeenInv, Awaited
    <3> QED BY <3>1, <3>2 DEF SeenInv
  <2> QED BY <2>1, <2>2
<1>6. ASSUME NEW t \in Tasks, Give(t) PROVE SeenInv'
  BY <1>6, SeenKept, Distinct DEF Give, TypeInv, TypeOK
<1>7. CASE Give(Handler)
  <2>1. /\ index'[Handler] = index[Handler] + 1
        /\ pc'[Handler] = "scan"
        /\ UNCHANGED <<rxDone, rxKind, cause, merged>>
    BY <1>7, Distinct DEF Give, TypeInv, TypeOK
  <2>2. index[Handler] \in Nat /\ RxRing \subseteq Nat
    BY <1>7, Sizes, Distinct DEF Give, TypeInv, TypeOK
  <2>3. ASSUME NEW i \in RxRing, rxDone[i] = 1, rxKind[i] # "other" PROVE Awaited(i)'
    <3>1. "rx" \in cause \/ merged = 1 \/ index[Handler] < i
      BY <1>7, <2>3 DEF Give, SeenInv, Awaited
    <3> QED BY <2>1, <3>1, <2>2 DEF Awaited
  <2> QED BY <2>1, <2>3 DEF SeenInv
<1>8. CASE OtherInterrupt
  BY <1>8 DEF OtherInterrupt, local, SeenInv, Awaited
<1>9. CASE ReceiveInterrupt
  <2>1. pc'[Handler] = "scan" /\ index'[Handler] = 0 /\ UNCHANGED rx
    BY <1>9, Distinct DEF ReceiveInterrupt, SeenInv, TypeInv, TypeOK
  <2> QED BY <2>1, Sizes DEF SeenInv, Awaited
<1>10. CASE PassOver
  <2>1. /\ index'[Handler] = index[Handler] + 1
        /\ pc[Handler] = "scan" /\ UNCHANGED <<pc, rxDone, rxKind, cause, merged>>
        /\ index[Handler] \in Nat
        /\ rxDone[index[Handler]] = 0 \/ rxKind[index[Handler]] = "other"
    BY <1>10, Distinct DEF PassOver, TypeInv, TypeOK
  <2>2. ASSUME NEW i \in RxRing, rxDone[i] = 1, rxKind[i] # "other" PROVE Awaited(i)'
    BY <2>1, <2>2, Sizes DEF SeenInv, Awaited
  <2> QED BY <2>1, <2>2 DEF SeenInv
<1>11. CASE Answer
  BY <1>1, <1>11, Distinct DEF Answer
<1>12. CASE Drop
  BY <1>12, SeenKept, Distinct DEF Drop, TypeInv, TypeOK
<1>13. CASE ReturnFromInterrupt
  <2>1. /\ pc[Handler] = "scan" /\ index[Handler] = RxSize
        /\ index'[Handler] = 0 /\ UNCHANGED <<rxDone, rxKind, cause, merged>>
    BY <1>13, Distinct DEF ReturnFromInterrupt, TypeInv, TypeOK
  <2>2. ASSUME NEW i \in RxRing, rxDone[i] = 1, rxKind[i] # "other" PROVE Awaited(i)'
    BY <2>1, <2>2, Sizes DEF SeenInv, Awaited
  <2> QED BY <2>1, <2>2 DEF SeenInv
<1>14. CASE Transmit
  BY <1>14 DEF Transmit, local, SeenInv, Awaited
<1>15. ASSUME NEW kind \in Arriving, Arrive(kind) PROVE SeenInv'
  BY <1>15 DEF Arrive, local, SeenInv, Awaited
<1>19. CASE LinkChange
  BY <1>19 DEF LinkChange, local, SeenInv, Awaited
<1>16. CASE UNCHANGED vars
  BY <1>16 DEF vars, local, SeenInv, Awaited
<1>17. ASSUME NEW t \in Tasks, TaskStep(t) PROVE SeenInv'
  BY <1>4, <1>5, <1>6, <1>17, SendSeen, Distinct DEF TaskStep
<1>18. CASE HandlerStep
  BY <1>5, <1>7, <1>10, <1>11, <1>12, <1>13, <1>18, SendSeen, Distinct DEF HandlerStep
<1> QED BY <1>2, <1>3, <1>8, <1>9, <1>14, <1>15, <1>16, <1>17, <1>18, <1>19 DEF Next, Tasks

(* What the handler should deal with is left in the ring only when an interrupt *)
(* told of it together with a send or a change of the link.                     *)
THEOREM ForgottenCorrect == Spec => []ForgottenOnlyIfMerged
<1>1. Init => SeenInv
  BY Distinct DEF Init, SeenInv
<1>2. SeenInv => ForgottenOnlyIfMerged
  BY DEF SeenInv, Awaited, ForgottenOnlyIfMerged
<1> QED BY <1>1, <1>2, Types, NextSeen, PTL DEF Spec

-----------------------------------------------------------------------------
(* Transmit descriptors.  Of a send that nobody cuts into, what its descriptor holds *)
(* is its own until the card has come to it, and once the card has, the descriptor   *)
(* leaves the card's queue before anybody can put the packet there again.            *)
Storing(a) == pc[a] \in Stores
Clean(a) == Sending(a) /\ a \notin mixed \cup behind
Queued(a) == old[a] \in Span(TxSize, txHead, txTail)

(* Nothing lies in front of the packet that would go out with it. *)
Whole(a) == fragment = 0 /\ \A i \in Span(TxSize, txHead, old[a]) : txLength[i] # Nobody

(* Who does not send has left nothing behind. *)
RestInv ==
  \A a \in Actors :
    /\ ~Sending(a) => sent[a] = 0 /\ a \notin mixed \cup behind /\ \A i \in TxRing : txAddress[i] # a
    /\ ~Storing(a) => loaded[a] = Unloaded

(* While any send is clean, at most one is at its stores, and it finds tx_cur where *)
(* it left it.                                                                      *)
Alone(b) ==
  /\ \A d \in Actors : Storing(d) => d = b
  /\ loaded[b] \in {Unloaded, tx_cur}
  /\ tx_cur = IF pc[b] = "tail" THEN TxNext(old[b]) ELSE old[b]
  /\ pc[b] # "address" => txAddress[old[b]] = b

LoneInv == (\E a \in Actors : Clean(a)) => \A b \in Actors : Storing(b) => Alone(b)

(* A clean send at its stores: the card has not come to the descriptor. *)
CleanStores(a) ==
  /\ sent[a] = 0
  /\ Whole(a)
  /\ ~Queued(a)
  /\ pc[a] \notin {"address", "command"} => txLength[old[a]] = a
  /\ pc[a] \in {"advance", "tail"} => txDone[old[a]] = 0

(* A clean send that waits: the card has yet to come to the descriptor, or has been *)
(* there and does not find the packet again.                                        *)
Ahead(a) ==
  /\ sent[a] = 0
  /\ Whole(a)
  /\ txDone[old[a]] = 0
  /\ txAddress[old[a]] = a
  /\ txLength[old[a]] = a
  /\ \A b \in Actors : Storing(b) => old[b] # old[a]

Behind(a) == sent[a] = 1 /\ ~(txAddress[old[a]] = a /\ txLength[old[a]] = a /\ Queued(a))

TailKept ==
  /\ \A b \in Actors : Storing(b) => txTail = old[b]
  /\ (\A b \in Actors : ~Storing(b)) => txTail = tx_cur

CleanInv ==
  \A a \in Actors : Clean(a) =>
    /\ \A i \in TxRing \ {old[a]} : txAddress[i] # a
    /\ Storing(a) => CleanStores(a)
    /\ pc[a] = "wait" => (Ahead(a) \/ Behind(a)) /\ TailKept

SendInv == RestInv /\ LoneInv /\ CleanInv

LEMMA SpanTail ==
  ASSUME NEW h \in TxRing, NEW x \in TxRing
  PROVE  Span(TxSize, h, TxNext(x)) \subseteq Span(TxSize, h, x) \cup {x}
BY Sizes DEF Span, TxNext

LEMMA SpanHead ==
  ASSUME NEW h \in TxRing, NEW t \in TxRing, h # t
  PROVE  /\ h \in Span(TxSize, h, t)
         /\ Span(TxSize, TxNext(h), t) \subseteq Span(TxSize, h, t) \ {h}
BY Sizes DEF Span, TxNext

LEMMA InitSends == Init => SendInv
<1> SUFFICES ASSUME Init PROVE SendInv
  OBVIOUS
<1>1. \A a \in Actors : ~Sending(a) /\ ~Storing(a)
  BY DEF Init, Sending, Storing
<1>2. \A i \in TxRing : txAddress[i] \notin Actors
  BY ActorAssumption DEF Init
<1>3. RestInv
  BY <1>1, <1>2 DEF Init, RestInv
<1> QED BY <1>1, <1>3 DEF SendInv, LoneInv, CleanInv, Clean

(* A step that leaves the transmit ring and those who send alone. *)
LEMMA SendsKept ==
  ASSUME SendInv, UNCHANGED <<tx, old, loaded, mixed, behind>>,
         \A a \in Actors : pc'[a] = pc[a] \/ (pc[a] \notin SendPlaces /\ pc'[a] \notin SendPlaces)
  PROVE  SendInv'
<1> USE DEF tx, Sending, Storing, Clean
<1>1. \A a \in Actors : /\ Sending(a)' <=> Sending(a)
                        /\ Storing(a)' <=> Storing(a)
                        /\ Clean(a)' <=> Clean(a)
                        /\ Sending(a) => pc'[a] = pc[a]
                        /\ \A s \in SendPlaces : pc'[a] = s <=> pc[a] = s
  OBVIOUS
<1>2. RestInv'
  BY <1>1 DEF SendInv, RestInv
<1>3. LoneInv'
  BY <1>1 DEF SendInv, LoneInv, Alone
<1>4. CleanInv'
  <2> SUFFICES ASSUME NEW a \in Actors, Clean(a)
               PROVE  /\ \A i \in TxRing \ {old[a]} : txAddress[i] # a
                      /\ Storing(a) => CleanStores(a)'
                      /\ pc[a] = "wait" => (Ahead(a) \/ Behind(a))' /\ TailKept'
    BY <1>1 DEF CleanInv
  <2>1. Storing(a) => CleanStores(a)'
    BY <1>1 DEF SendInv, CleanInv, CleanStores, Queued, Whole
  <2>2. Ahead(a) => Ahead(a)'
    BY <1>1 DEF Ahead, Whole
  <2>3. Behind(a) => Behind(a)'
    BY DEF Behind, Queued
  <2>4. TailKept => TailKept'
    BY <1>1 DEF TailKept
  <2> QED BY <2>1, <2>2, <2>3, <2>4 DEF SendInv, CleanInv
<1> QED BY <1>2, <1>3, <1>4 DEF SendInv

LEMMA BeginSends ==
  ASSUME TypeInv, SendInv, NEW a \in Actors, Begin(a), ~Sending(a)
  PROVE  SendInv'
<1> USE DEF TypeInv, TypeOK, Goto, rx, tx, Sending, Storing, Clean
<1>1. /\ pc' = [pc EXCEPT ![a] = "address"]
      /\ old' = [old EXCEPT ![a] = tx_cur]
      /\ UNCHANGED <<txAddress, txLength, txDone, txHead, txTail, tx_cur, fragment, sent, loaded>>
      /\ mixed' \subseteq Actors
      /\ behind' = IF Unended THEN behind \cup {a} ELSE behind
  BY DEF Begin, Overtaken
<1>2. \A c \in Actors : /\ Sending(c)' <=> Sending(c) \/ c = a
                        /\ Storing(c)' <=> Storing(c) \/ c = a
                        /\ c # a => pc'[c] = pc[c] /\ old'[c] = old[c]
  BY <1>1
<1>3. pc'[a] = "address" /\ old'[a] = tx_cur
  BY <1>1
<1>4. \A c \in Actors : ~Sending(c)' => c \notin mixed' \cup behind'
  <2> SUFFICES ASSUME NEW c \in Actors, ~Sending(c), c # a PROVE c \notin mixed' \cup behind'
    BY <1>2
  <2>1. c \notin mixed \cup behind
    BY DEF SendInv, RestInv
  <2> QED BY <2>1 DEF Begin, Overtaken
<1>5. RestInv'
  BY <1>1, <1>2, <1>4 DEF SendInv, RestInv
<1>6. CASE \E b \in Actors : Storing(b)
  <2>1. mixed' = mixed \cup {a} \cup {b \in Actors : Sending(b)}
    BY <1>6 DEF Begin
  <2>2. \A c \in Actors : ~Clean(c)'
    BY <1>2, <2>1
  <2> QED BY <1>5, <2>2 DEF SendInv, LoneInv, CleanInv
<1>7. CASE \A b \in Actors : ~Storing(b)
  <2>1. mixed' = (IF TxReady THEN mixed ELSE mixed \cup {a}) \cup Overtaken
    BY <1>7 DEF Begin
  <2>2. Alone(a)'
    <3>1. loaded'[a] = Unloaded
      BY <1>1, <1>7 DEF SendInv, RestInv
    <3> QED BY <1>1, <1>2, <1>3, <1>7, <3>1 DEF Alone
  <2>3. LoneInv'
    BY <1>2, <1>7, <2>2 DEF LoneInv
  <2>4. ASSUME NEW c \in Actors, Clean(c)'
        PROVE  /\ \A i \in TxRing \ {old'[c]} : txAddress'[i] # c
               /\ Storing(c)' => CleanStores(c)'
               /\ pc'[c] = "wait" => (Ahead(c) \/ Behind(c))' /\ TailKept'
    <3>1. CASE c = a
      <4>1. sent'[a] = 0 /\ \A i \in TxRing : txAddress'[i] # a
        BY <1>1 DEF SendInv, RestInv
      <4>2. TxReady
        BY <2>1, <2>4, <3>1
      <4>3. ~Queued(a)'
        BY <1>1, <1>3, <4>2 DEF TxReady, Queued
      <4>4. Whole(a)'
        BY <1>1, <1>3, <2>4, <3>1 DEF Unended, Whole
      <4>5. CleanStores(a)'
        BY <1>3, <4>1, <4>3, <4>4 DEF CleanStores
      <4> QED BY <1>3, <3>1, <4>1, <4>5
    <3>2. CASE c # a
      <4>6. c \notin mixed /\ c \notin behind /\ c \notin Overtaken
        <5>1. c \notin mixed' /\ c \notin behind'
          BY <2>4
        <5>2. mixed \cup Overtaken \subseteq mixed' /\ behind \subseteq behind'
          BY <1>1, <2>1
        <5> QED BY <5>1, <5>2
      <4>1. Clean(c) /\ pc[c] = "wait" /\ c \notin Overtaken
        BY <1>2, <1>7, <2>4, <3>2, <4>6
      <4>2. (Ahead(c) \/ Behind(c)) /\ TailKept /\ \A i \in TxRing \ {old[c]} : txAddress[i] # c
        BY <4>1 DEF SendInv, CleanInv
      <4>3. TailKept'
        BY <1>1, <1>2, <1>3, <1>7, <4>2 DEF TailKept
      <4>4. Ahead(c) => Ahead(c)'
        <5>1. Ahead(c) => old[c] # tx_cur
          BY <4>1 DEF Overtaken, Ahead
        <5> QED BY <1>1, <1>2, <1>3, <1>7, <3>2, <5>1 DEF Ahead, Whole
      <4>5. Behind(c) => Behind(c)'
        BY <1>1, <1>2, <3>2 DEF Behind, Queued
      <4> QED BY <1>1, <1>2, <3>2, <4>1, <4>2, <4>3, <4>4, <4>5
    <3> QED BY <3>1, <3>2
  <2> QED BY <1>5, <2>3, <2>4 DEF SendInv, CleanInv
<1> QED BY <1>6, <1>7

LEMMA LoadSends ==
  ASSUME TypeInv, SendInv, NEW a \in Actors, LoadCounter(a)
  PROVE  SendInv'
<1> USE DEF TypeInv, TypeOK, tx, ghosts, Sending, Storing, Clean
<1>1. /\ UNCHANGED <<pc, old, mixed, behind, txAddress, txLength, txDone, txHead, txTail, tx_cur, fragment, sent>>
      /\ loaded' = [loaded EXCEPT ![a] = tx_cur]
      /\ Storing(a)
  BY DEF LoadCounter
<1>2. \A b \in Actors : Alone(b) => Alone(b)'
  BY <1>1 DEF Alone
<1>3. RestInv' /\ LoneInv'
  BY <1>1, <1>2 DEF SendInv, RestInv, LoneInv
<1>4. TailKept <=> TailKept'
  BY <1>1 DEF TailKept
<1>5. \A c \in Actors : /\ CleanStores(c) <=> CleanStores(c)'
                        /\ Ahead(c) <=> Ahead(c)'
                        /\ Behind(c) <=> Behind(c)'
  BY <1>1 DEF CleanStores, Ahead, Behind, Queued, Whole
<1>6. CleanInv'
  BY <1>1, <1>4, <1>5 DEF SendInv, CleanInv
<1> QED BY <1>3, <1>6 DEF SendInv

(* What every store has in common.  The other sends notice nothing of a clean one, *)
(* and it uses the descriptor that it is to use.                                   *)
Stored(a, place, next) ==
  /\ pc[a] = place /\ pc'[a] = next /\ loaded[a] \in TxRing /\ loaded'[a] = Unloaded
  /\ UNCHANGED <<txHead, fragment, sent, old, mixed, behind>>
  /\ \A c \in Actors : c # a => pc'[c] = pc[c] /\ loaded'[c] = loaded[c]
  /\ \A c \in Actors : /\ Sending(c)' <=> Sending(c)
                       /\ Clean(c)' <=> Clean(c)
                       /\ c # a => (Storing(c)' <=> Storing(c))

LEMMA StoreSends ==
  ASSUME TypeInv, SendInv, NEW a \in Actors, NEW place \in Stores, NEW next \in SendPlaces,
         Store(a, place, next)
  PROVE  /\ Stored(a, place, next)
         /\ (\A i \in TxRing : txAddress'[i] # txAddress[i] => txAddress'[i] = a) => RestInv'
         /\ (\E c \in Actors : Clean(c)) =>
              /\ Alone(a)
              /\ loaded[a] = tx_cur
              /\ \A c \in Actors : c # a => ~Storing(c)
<1> USE DEF TypeInv, TypeOK, Goto, ghosts, Sending, Storing, Clean
<1>1. Stored(a, place, next)
  BY Sizes DEF Store, Stored
<1>3. ASSUME \A i \in TxRing : txAddress'[i] # txAddress[i] => txAddress'[i] = a
      PROVE  RestInv'
  <2> SUFFICES ASSUME NEW c \in Actors
               PROVE  /\ ~Sending(c)' => sent'[c] = 0 /\ c \notin mixed' \cup behind'
                      /\ ~Sending(c)' => \A i \in TxRing : txAddress'[i] # c
                      /\ ~Storing(c)' => loaded'[c] = Unloaded
    BY DEF RestInv
  <2>1. ~Sending(c)' => c # a /\ ~Sending(c)
    BY <1>1 DEF Stored
  <2>2. ~Sending(c) => sent[c] = 0 /\ c \notin mixed \cup behind /\ \A i \in TxRing : txAddress[i] # c
    BY DEF SendInv, RestInv
  <2>3. ~Storing(c)' => loaded'[c] = Unloaded
    BY <1>1 DEF SendInv, RestInv, Stored
  <2>4. ~Sending(c)' => \A i \in TxRing : txAddress'[i] # c
    BY <1>3, <2>1, <2>2
  <2> QED BY <1>1, <2>1, <2>2, <2>3, <2>4 DEF Stored
<1>4. (\E c \in Actors : Clean(c)) => Alone(a)
  BY <1>1 DEF SendInv, LoneInv, Stored
<1>5. Alone(a) => loaded[a] = tx_cur /\ \A c \in Actors : c # a => ~Storing(c)
  BY <1>1, Sizes DEF Stored, Alone
<1> QED BY <1>1, <1>3, <1>4, <1>5

LEMMA AddressSends ==
  ASSUME TypeInv, SendInv, NEW a \in Actors, StoreAddress(a)
  PROVE  SendInv'
<1> USE DEF TypeInv, TypeOK
<1>1. Stored(a, "address", "command") /\ RestInv'
  BY StoreSends DEF StoreAddress
<1>2. /\ txAddress' = [txAddress EXCEPT ![loaded[a]] = a]
      /\ UNCHANGED <<txLength, txDone, txTail, tx_cur>>
  BY DEF StoreAddress
<1> SUFFICES ASSUME \E c \in Actors : Clean(c) PROVE LoneInv' /\ CleanInv'
  BY <1>1 DEF SendInv, LoneInv, CleanInv, Stored
<1>3. Alone(a) /\ loaded[a] = old[a] /\ \A c \in Actors : c # a => ~Storing(c)
  BY <1>1, StoreSends DEF StoreAddress, Alone, Stored
<1>4. LoneInv'
  BY <1>1, <1>2, <1>3 DEF LoneInv, Alone, Stored, Storing
<1>5. ASSUME NEW c \in Actors, Clean(c)
      PROVE  /\ \A i \in TxRing \ {old[c]} : txAddress'[i] # c
             /\ Storing(c)' => CleanStores(c)'
             /\ pc'[c] = "wait" => (Ahead(c) \/ Behind(c))' /\ TailKept'
  <2>1. \A i \in TxRing \ {old[c]} : txAddress'[i] # c
    BY <1>2, <1>3, <1>5 DEF SendInv, CleanInv
  <2>2. CASE c = a
    <3>1. CleanStores(a)
      BY <1>1, <1>5, <2>2 DEF SendInv, CleanInv, Storing, Stored
    <3> QED BY <1>1, <1>2, <2>1, <2>2, <3>1 DEF CleanStores, Queued, Whole, Stored
  <2>3. CASE c # a
    <3>1. pc[c] = "wait" /\ pc'[c] = "wait"
      BY <1>1, <1>3, <1>5, <2>3 DEF Clean, Storing, Sending, Stored
    <3>2. (Ahead(c) \/ Behind(c)) /\ TailKept
      BY <1>5, <3>1 DEF SendInv, CleanInv
    <3>3. TailKept'
      BY <1>1, <1>2, <1>3, <3>2 DEF TailKept, Storing, Stored
    <3>4. Ahead(c) => Ahead(c)'
      BY <1>1, <1>2, <1>3 DEF Ahead, Whole, Storing, Stored
    <3>5. Behind(c) => Behind(c)'
      BY <1>1, <1>2, <1>3, <2>3 DEF Behind, Queued, Stored
    <3> QED BY <2>1, <3>1, <3>2, <3>3, <3>4, <3>5 DEF Storing
  <2> QED BY <2>2, <2>3
<1> QED BY <1>1, <1>4, <1>5 DEF CleanInv, Stored

LEMMA CommandSends ==
  ASSUME TypeInv, SendInv, NEW a \in Actors, StoreCommand(a)
  PROVE  SendInv'
<1> USE DEF TypeInv, TypeOK
<1>1. Stored(a, "command", "status") /\ RestInv'
  BY StoreSends DEF StoreCommand
<1>2. /\ txLength' = [txLength EXCEPT ![loaded[a]] = a]
      /\ UNCHANGED <<txAddress, txDone, txTail, tx_cur>>
  BY DEF StoreCommand
<1>6. ASSUME NEW c \in Actors, Whole(c) PROVE Whole(c)'
  <2>1. txLength'[loaded[a]] # Nobody \/ loaded[a] \notin TxRing
    BY <1>2, ActorAssumption
  <2>2. \A i \in TxRing : txLength[i] # Nobody => txLength'[i] # Nobody
    BY <1>2, <2>1
  <2>3. Span(TxSize, txHead, old[c]) \subseteq TxRing
    BY Sizes DEF Span
  <2> QED BY <1>1, <1>6, <2>2, <2>3 DEF Whole, Stored
<1> SUFFICES ASSUME \E c \in Actors : Clean(c) PROVE LoneInv' /\ CleanInv'
  BY <1>1 DEF SendInv, LoneInv, CleanInv, Stored
<1>3. Alone(a) /\ loaded[a] = tx_cur /\ tx_cur = old[a] /\ \A c \in Actors : c # a => ~Storing(c)
  BY <1>1, StoreSends DEF StoreCommand, Alone, Stored
<1>4. LoneInv'
  BY <1>1, <1>2, <1>3 DEF LoneInv, Alone, Stored, Storing
<1>5. ASSUME NEW c \in Actors, Clean(c)
      PROVE  /\ \A i \in TxRing \ {old[c]} : txAddress'[i] # c
             /\ Storing(c)' => CleanStores(c)'
             /\ pc'[c] = "wait" => (Ahead(c) \/ Behind(c))' /\ TailKept'
  <2>1. \A i \in TxRing \ {old[c]} : txAddress'[i] # c
    BY <1>2, <1>5 DEF SendInv, CleanInv
  <2>2. CASE c = a
    <3>1. CleanStores(a)
      BY <1>1, <1>5, <2>2 DEF SendInv, CleanInv, Storing, Stored
    <3> QED BY <1>6, <1>1, <1>2, <1>3, <2>1, <2>2, <3>1 DEF CleanStores, Queued, Stored
  <2>3. CASE c # a
    <3>1. pc[c] = "wait" /\ pc'[c] = "wait"
      BY <1>1, <1>3, <1>5, <2>3 DEF Clean, Storing, Sending, Stored
    <3>2. (Ahead(c) \/ Behind(c)) /\ TailKept
      BY <1>5, <3>1 DEF SendInv, CleanInv
    <3>3. TailKept'
      BY <1>1, <1>2, <1>3, <3>2 DEF TailKept, Storing, Stored
    <3>4. Ahead(c) => Ahead(c)'
      BY <1>1, <1>2, <1>3, <1>6 DEF Ahead, Storing, Stored
    <3>5. Behind(c) => Behind(c)'
      BY <1>1, <1>2, <1>3, <2>3 DEF Behind, Queued, Stored
    <3> QED BY <2>1, <3>1, <3>2, <3>3, <3>4, <3>5 DEF Storing
  <2> QED BY <2>2, <2>3
<1> QED BY <1>1, <1>4, <1>5 DEF CleanInv, Stored

LEMMA StatusSends ==
  ASSUME TypeInv, SendInv, NEW a \in Actors, StoreStatus(a)
  PROVE  SendInv'
<1> USE DEF TypeInv, TypeOK
<1>1. Stored(a, "status", "advance") /\ RestInv'
  BY StoreSends DEF StoreStatus
<1>2. /\ txDone' = [txDone EXCEPT ![loaded[a]] = 0]
      /\ UNCHANGED <<txAddress, txLength, txTail, tx_cur>>
  BY DEF StoreStatus
<1> SUFFICES ASSUME \E c \in Actors : Clean(c) PROVE LoneInv' /\ CleanInv'
  BY <1>1 DEF SendInv, LoneInv, CleanInv, Stored
<1>3. Alone(a) /\ loaded[a] = tx_cur /\ tx_cur = old[a] /\ \A c \in Actors : c # a => ~Storing(c)
  BY <1>1, StoreSends DEF StoreStatus, Alone, Stored
<1>4. LoneInv'
  BY <1>1, <1>2, <1>3 DEF LoneInv, Alone, Stored, Storing
<1>5. ASSUME NEW c \in Actors, Clean(c)
      PROVE  /\ \A i \in TxRing \ {old[c]} : txAddress'[i] # c
             /\ Storing(c)' => CleanStores(c)'
             /\ pc'[c] = "wait" => (Ahead(c) \/ Behind(c))' /\ TailKept'
  <2>1. \A i \in TxRing \ {old[c]} : txAddress'[i] # c
    BY <1>2, <1>5 DEF SendInv, CleanInv
  <2>2. CASE c = a
    <3>1. CleanStores(a)
      BY <1>1, <1>5, <2>2 DEF SendInv, CleanInv, Storing, Stored
    <3> QED BY <1>1, <1>2, <1>3, <2>1, <2>2, <3>1 DEF CleanStores, Queued, Whole, Stored
  <2>3. CASE c # a
    <3>1. pc[c] = "wait" /\ pc'[c] = "wait"
      BY <1>1, <1>3, <1>5, <2>3 DEF Clean, Storing, Sending, Stored
    <3>2. (Ahead(c) \/ Behind(c)) /\ TailKept
      BY <1>5, <3>1 DEF SendInv, CleanInv
    <3>3. TailKept'
      BY <1>1, <1>2, <1>3, <3>2 DEF TailKept, Storing, Stored
    <3>4. Ahead(c) => Ahead(c)'
      BY <1>1, <1>2, <1>3 DEF Ahead, Whole, Storing, Stored
    <3>5. Behind(c) => Behind(c)'
      BY <1>1, <1>2, <1>3, <2>3 DEF Behind, Queued, Stored
    <3> QED BY <2>1, <3>1, <3>2, <3>3, <3>4, <3>5 DEF Storing
  <2> QED BY <2>2, <2>3
<1> QED BY <1>1, <1>4, <1>5 DEF CleanInv, Stored

LEMMA CounterSends ==
  ASSUME TypeInv, SendInv, NEW a \in Actors, StoreCounter(a)
  PROVE  SendInv'
<1> USE DEF TypeInv, TypeOK
<1>1. Stored(a, "advance", "tail") /\ RestInv'
  BY StoreSends DEF StoreCounter
<1>2. /\ tx_cur' = TxNext(loaded[a])
      /\ UNCHANGED <<txAddress, txLength, txDone, txTail>>
  BY DEF StoreCounter
<1> SUFFICES ASSUME \E c \in Actors : Clean(c) PROVE LoneInv' /\ CleanInv'
  BY <1>1 DEF SendInv, LoneInv, CleanInv, Stored
<1>3. Alone(a) /\ loaded[a] = tx_cur /\ tx_cur = old[a] /\ \A c \in Actors : c # a => ~Storing(c)
  BY <1>1, StoreSends DEF StoreCounter, Alone, Stored
<1>4. LoneInv'
  BY <1>1, <1>2, <1>3 DEF LoneInv, Alone, Stored, Storing
<1>5. ASSUME NEW c \in Actors, Clean(c)
      PROVE  /\ \A i \in TxRing \ {old[c]} : txAddress'[i] # c
             /\ Storing(c)' => CleanStores(c)'
             /\ pc'[c] = "wait" => (Ahead(c) \/ Behind(c))' /\ TailKept'
  <2>1. \A i \in TxRing \ {old[c]} : txAddress'[i] # c
    BY <1>2, <1>5 DEF SendInv, CleanInv
  <2>2. CASE c = a
    <3>1. CleanStores(a)
      BY <1>1, <1>5, <2>2 DEF SendInv, CleanInv, Storing, Stored
    <3> QED BY <1>1, <1>2, <1>3, <2>1, <2>2, <3>1 DEF CleanStores, Queued, Whole, Stored
  <2>3. CASE c # a
    <3>1. pc[c] = "wait" /\ pc'[c] = "wait"
      BY <1>1, <1>3, <1>5, <2>3 DEF Clean, Storing, Sending, Stored
    <3>2. (Ahead(c) \/ Behind(c)) /\ TailKept
      BY <1>5, <3>1 DEF SendInv, CleanInv
    <3>3. TailKept'
      BY <1>1, <1>2, <1>3, <3>2 DEF TailKept, Storing, Stored
    <3>4. Ahead(c) => Ahead(c)'
      BY <1>1, <1>2, <1>3 DEF Ahead, Whole, Storing, Stored
    <3>5. Behind(c) => Behind(c)'
      BY <1>1, <1>2, <1>3, <2>3 DEF Behind, Queued, Stored
    <3> QED BY <2>1, <3>1, <3>2, <3>3, <3>4, <3>5 DEF Storing
  <2> QED BY <2>2, <2>3
<1> QED BY <1>1, <1>4, <1>5 DEF CleanInv, Stored

LEMMA TailSends ==
  ASSUME TypeInv, SendInv, NEW a \in Actors, StoreTail(a)
  PROVE  SendInv'
<1> USE DEF TypeInv, TypeOK
<1>1. Stored(a, "tail", "wait") /\ RestInv'
  BY StoreSends DEF StoreTail
<1>2. txTail' = loaded[a] /\ UNCHANGED <<txAddress, txLength, txDone, tx_cur>>
  BY DEF StoreTail
<1> SUFFICES ASSUME \E c \in Actors : Clean(c) PROVE LoneInv' /\ CleanInv'
  BY <1>1 DEF SendInv, LoneInv, CleanInv, Stored
<1>3. Alone(a) /\ loaded[a] = tx_cur /\ tx_cur = TxNext(old[a]) /\ \A c \in Actors : c # a => ~Storing(c)
  BY <1>1, StoreSends DEF StoreTail, Alone, Stored
<1>4. LoneInv'
  BY <1>1, <1>2, <1>3 DEF LoneInv, Alone, Stored, Storing
<1>5. ASSUME NEW c \in Actors, Clean(c)
      PROVE  /\ \A i \in TxRing \ {old[c]} : txAddress'[i] # c
             /\ Storing(c)' => CleanStores(c)'
             /\ pc'[c] = "wait" => (Ahead(c) \/ Behind(c))' /\ TailKept'
  <2>1. \A i \in TxRing \ {old[c]} : txAddress'[i] # c
    BY <1>2, <1>5 DEF SendInv, CleanInv
  <2>2. CASE c = a
    <3>1. CleanStores(a)
      BY <1>1, <1>5, <2>2 DEF SendInv, CleanInv, Storing, Stored
    <3>2. Ahead(a)'
      BY <1>1, <1>2, <1>3, <3>1 DEF Ahead, Alone, CleanStores, Whole, Storing, Stored
    <3>3. TailKept'
      BY <1>1, <1>2, <1>3 DEF TailKept, Storing, Stored
    <3> QED BY <1>1, <2>1, <2>2, <3>2, <3>3 DEF Storing, Stored
  <2>3. CASE c # a
    <3>1. pc[c] = "wait" /\ pc'[c] = "wait"
      BY <1>1, <1>3, <1>5, <2>3 DEF Clean, Storing, Sending, Stored
    <3>2. (Ahead(c) \/ Behind(c)) /\ TailKept
      BY <1>5, <3>1 DEF SendInv, CleanInv
    <3>3. TailKept'
      BY <1>1, <1>2, <1>3, <3>2 DEF TailKept, Storing, Stored
    <3>4. Ahead(c) => Ahead(c)'
      BY <1>1, <1>2, <1>3 DEF Ahead, Whole, Storing, Stored
    <3>5. Behind(c) => Behind(c)'
      <4>1. txTail = old[a] /\ txAddress[old[a]] # c
        BY <1>1, <1>3, <2>3, <3>2 DEF TailKept, Alone, Storing, Stored
      <4>2. Queued(c)' => Queued(c) \/ old[c] = old[a]
        BY <1>1, <1>2, <1>3, <4>1, SpanTail DEF Queued, Stored
      <4> QED BY <1>1, <1>2, <4>1, <4>2 DEF Behind, Stored
    <3> QED BY <2>1, <3>1, <3>2, <3>3, <3>4, <3>5 DEF Storing
  <2> QED BY <2>2, <2>3
<1> QED BY <1>1, <1>4, <1>5 DEF CleanInv, Stored

LEMMA WaitSends ==
  ASSUME TypeInv, SendInv, NEW a \in Actors, WaitEnds(a)
  PROVE  SendInv'
<1> USE DEF TypeInv, TypeOK, Sending, Storing, Clean
<1>1. /\ pc[a] = "wait" /\ pc'[a] \notin SendPlaces
      /\ sent'[a] = 0 /\ a \notin mixed' \cup behind'
      /\ txAddress' = Returned(txAddress, a) /\ txLength' = Returned(txLength, a)
      /\ UNCHANGED <<txDone, txHead, txTail, tx_cur, fragment, loaded>>
      /\ mixed' = mixed \ {a} /\ behind' = behind \ {a}
  BY DEF WaitEnds, Goto
<1>2. \A c \in Actors \ {a} : pc'[c] = pc[c] /\ sent'[c] = sent[c] /\ old'[c] = old[c]
  BY DEF WaitEnds, Goto
<1>3. \A c \in Actors : Storing(c)' <=> Storing(c)
  BY <1>1, <1>2
<1>4. \A c \in Actors : Clean(c)' => Clean(c) /\ c # a
  BY <1>1, <1>2
<1>5. /\ \A i \in TxRing : txAddress'[i] # a
      /\ \A c \in Actors \ {a} : \A i \in TxRing : /\ txAddress'[i] = c <=> txAddress[i] = c
                                                   /\ txLength'[i] = c <=> txLength[i] = c
  BY <1>1, StaleAssumption DEF Returned
<1>6. RestInv'
  BY <1>1, <1>2, <1>3, <1>5 DEF SendInv, RestInv
<1>7. LoneInv'
  <2>1. \A b \in Actors : Storing(b) => b # a
    BY <1>1
  <2>2. ASSUME NEW b \in Actors, Storing(b), Alone(b) PROVE Alone(b)'
    <3>1. pc'[b] = pc[b] /\ old'[b] = old[b] /\ loaded'[b] = loaded[b]
      BY <1>1, <1>2, <2>1, <2>2
    <3>2. txAddress'[old[b]] = b <=> txAddress[old[b]] = b
      BY <1>5, <2>1, <2>2
    <3> QED BY <1>1, <1>3, <2>2, <3>1, <3>2 DEF Alone
  <2> QED BY <1>3, <1>4, <2>2 DEF SendInv, LoneInv
<1>8. ASSUME NEW c \in Actors, Clean(c)'
      PROVE  /\ \A i \in TxRing \ {old'[c]} : txAddress'[i] # c
             /\ Storing(c)' => CleanStores(c)'
             /\ pc'[c] = "wait" => (Ahead(c) \/ Behind(c))' /\ TailKept'
  <2>1. /\ \A i \in TxRing \ {old[c]} : txAddress[i] # c
        /\ Storing(c) => CleanStores(c)
        /\ pc[c] = "wait" => (Ahead(c) \/ Behind(c)) /\ TailKept
    BY <1>4, <1>8 DEF SendInv, CleanInv
  <2>2. c # a /\ pc'[c] = pc[c] /\ sent'[c] = sent[c] /\ old'[c] = old[c]
    BY <1>2, <1>4, <1>8
  <2>8. Whole(c) => Whole(c)'
    <3>1. \A i \in TxRing : txLength[i] # Nobody => txLength'[i] # Nobody
      BY <1>1, StaleAssumption DEF Returned
    <3>2. Span(TxSize, txHead, old[c]) \subseteq TxRing
      BY Sizes DEF Span
    <3> QED BY <1>1, <2>2, <3>1, <3>2 DEF Whole
  <2>3. CleanStores(c) => CleanStores(c)'
    BY <1>1, <1>5, <2>2, <2>8 DEF CleanStores, Queued
  <2>4. \A b \in Actors : Storing(b) => old'[b] = old[b]
    BY <1>1, <1>2
  <2>5. TailKept => TailKept'
    BY <1>1, <1>3, <2>4 DEF TailKept
  <2>6. Ahead(c) => Ahead(c)'
    <3>1. /\ txAddress'[old[c]] = c <=> txAddress[old[c]] = c
          /\ txLength'[old[c]] = c <=> txLength[old[c]] = c
      BY <1>5, <2>2
    <3>2. ASSUME NEW b \in Actors, Storing(b)', Ahead(c) PROVE old'[b] # old'[c]
      BY <1>3, <2>2, <2>4, <3>2 DEF Ahead
    <3>3. txDone'[old'[c]] = txDone[old[c]]
      BY <1>1, <2>2
    <3> QED BY <2>2, <2>8, <3>1, <3>2, <3>3 DEF Ahead
  <2>7. Behind(c) => Behind(c)'
    <3>1. /\ txAddress'[old[c]] = c <=> txAddress[old[c]] = c
          /\ txLength'[old[c]] = c <=> txLength[old[c]] = c
      BY <1>5, <2>2
    <3>2. Queued(c)' <=> Queued(c)
      BY <1>1, <2>2 DEF Queued
    <3> QED BY <2>2, <3>1, <3>2 DEF Behind
  <2> QED BY <1>3, <1>5, <2>1, <2>2, <2>3, <2>5, <2>6, <2>7
<1> QED BY <1>6, <1>7, <1>8 DEF SendInv, CleanInv

LEMMA TransmitSends ==
  ASSUME TypeInv, SendInv, Transmit
  PROVE  SendInv'
<1> USE DEF TypeInv, TypeOK, Sending, Storing, Clean
<1>1. /\ UNCHANGED <<pc, old, loaded, mixed, behind, txAddress, txLength, txTail, tx_cur>>
      /\ txHead # txTail /\ txHead' = TxNext(txHead)
  BY DEF Transmit, local, ghosts
<1>2. /\ txHead \in Span(TxSize, txHead, txTail)
      /\ Span(TxSize, txHead', txTail) \subseteq Span(TxSize, txHead, txTail) \ {txHead}
  BY <1>1, SpanHead
<1>3. \A i \in TxRing : i # txHead => txDone'[i] = txDone[i]
  BY DEF Transmit
<1>4. \A c \in Actors :
        sent'[c] = IF c = txAddress[txHead] /\ c = txLength[txHead]
                   THEN IF sent[c] = 0 /\ fragment = 0 THEN 1 ELSE 2 ELSE sent[c]
  BY ActorAssumption DEF Transmit
<1>5. RestInv' /\ LoneInv'
  BY <1>1, <1>4 DEF SendInv, RestInv, LoneInv, Alone
<1>6. ASSUME NEW c \in Actors, Clean(c)
      PROVE  /\ Storing(c) => CleanStores(c)'
             /\ pc[c] = "wait" => (Ahead(c) \/ Behind(c))' /\ TailKept'
  <2>1. \A i \in TxRing \ {old[c]} : txAddress[i] # c
    BY <1>6 DEF SendInv, CleanInv
  <2>2. Queued(c)' => Queued(c) /\ old[c] # txHead
    BY <1>1, <1>2 DEF Queued
  <2>3. old[c] # txHead => sent'[c] = sent[c] /\ txDone'[old[c]] = txDone[old[c]]
    BY <1>3, <1>4, <2>1
  <2>6. Whole(c) /\ old[c] # txHead => Whole(c)'
    <3>. SUFFICES ASSUME Whole(c), old[c] # txHead PROVE Whole(c)'
      OBVIOUS
    <3>1. /\ txHead \in Span(TxSize, txHead, old[c])
          /\ Span(TxSize, txHead', old[c]) \subseteq Span(TxSize, txHead, old[c])
      BY <1>1, SpanHead
    <3>2. fragment' = 0
      BY <3>1 DEF Whole, Transmit
    <3> QED BY <1>1, <3>1, <3>2 DEF Whole
  <2>4. CASE Storing(c)
    <3>1. CleanStores(c)
      BY <1>6, <2>4 DEF SendInv, CleanInv
    <3>2. old[c] # txHead
      BY <1>2, <3>1 DEF CleanStores, Queued
    <3> QED BY <1>1, <2>2, <2>3, <2>4, <2>6, <3>1, <3>2 DEF CleanStores
  <2>5. CASE pc[c] = "wait"
    <3>1. (Ahead(c) \/ Behind(c)) /\ TailKept
      BY <1>6, <2>5 DEF SendInv, CleanInv
    <3>2. TailKept'
      BY <1>1, <3>1 DEF TailKept
    <3>3. CASE Ahead(c) /\ old[c] = txHead
      BY <1>1, <1>4, <2>2, <2>5, <3>2, <3>3 DEF Ahead, Behind, Whole
    <3>4. CASE Ahead(c) /\ old[c] # txHead
      BY <1>1, <2>3, <2>5, <2>6, <3>2, <3>4 DEF Ahead
    <3>5. CASE Behind(c)
      <4>1. ~(c = txAddress[txHead] /\ c = txLength[txHead])
        BY <1>2, <2>1, <3>5 DEF Behind, Queued
      <4> QED BY <1>1, <1>4, <2>2, <2>5, <3>2, <3>5, <4>1 DEF Behind
    <3> QED BY <2>5, <3>1, <3>2, <3>3, <3>4, <3>5
  <2> QED BY <2>4, <2>5
<1>7. CleanInv'
  BY <1>1, <1>6 DEF SendInv, CleanInv
<1> QED BY <1>5, <1>7 DEF SendInv

LEMMA NextSends == TypeInv /\ SendInv /\ [Next]_vars => SendInv'
<1> SUFFICES ASSUME TypeInv, SendInv, [Next]_vars PROVE SendInv'
  OBVIOUS
<1> USE DEF Goto, local, ghosts
<1>1. ASSUME NEW a \in Actors, Begin(a), pc[a] \notin SendPlaces PROVE SendInv'
  BY <1>1, BeginSends DEF Sending
<1>2. ASSUME NEW t \in Tasks, Send(t) PROVE SendInv'
  BY <1>1, <1>2, Distinct DEF Send
<1>3. ASSUME NEW t \in Tasks, Receive(t) \/ Look(t) PROVE SendInv'
  BY <1>3, SendsKept, Distinct DEF Receive, Look, TypeInv, TypeOK
<1>4. ASSUME NEW a \in Actors, Clear(a) \/ Give(a) PROVE SendInv'
  BY <1>4, SendsKept DEF Clear, Give, TypeInv, TypeOK
<1>5. ASSUME NEW a \in Actors, SendStep(a) PROVE SendInv'
  BY <1>5, LoadSends, AddressSends, CommandSends, StatusSends, CounterSends, TailSends, WaitSends DEF SendStep
<1>6. CASE OtherInterrupt \/ ReceiveInterrupt
  BY <1>6, SendsKept, Distinct DEF OtherInterrupt, ReceiveInterrupt, TypeInv, TypeOK
<1>7. CASE PassOver \/ Drop \/ ReturnFromInterrupt
  BY <1>7, SendsKept, Distinct DEF PassOver, Drop, ReturnFromInterrupt, TypeInv, TypeOK
<1>8. CASE Answer
  BY <1>1, <1>8, Distinct DEF Answer
<1>9. ASSUME NEW kind \in Arriving, Arrive(kind) PROVE SendInv'
  BY <1>9, SendsKept DEF Arrive
<1>13. CASE LinkChange
  BY <1>13, SendsKept DEF LinkChange
<1>10. CASE UNCHANGED vars
  BY <1>10, SendsKept DEF vars
<1>11. ASSUME NEW t \in Tasks, TaskStep(t) PROVE SendInv'
  BY <1>3, <1>4, <1>5, <1>11, Distinct DEF TaskStep
<1>12. CASE HandlerStep
  BY <1>4, <1>5, <1>7, <1>8, <1>12, Distinct DEF HandlerStep
<1> QED BY <1>2, <1>3, <1>6, <1>9, <1>10, <1>11, <1>12, <1>13, TransmitSends DEF Next, Tasks

LEMMA Sends == Spec => [](TypeInv /\ SendInv)
BY InitTypes, InitSends, NextTypes, NextSends, PTL DEF Spec

(* Whoever leaves a send has found its descriptor done, and a clean one's is done *)
(* only after the packet has gone out once.                                       *)
THEOREM SendsCorrect == Spec => SendsGoOut
<1>1. TypeInv /\ SendInv /\ [Next]_vars =>
        \A a \in Actors \ (mixed \cup behind) : Sending(a) /\ pc'[a] \notin SendPlaces => sent[a] = 1
  <2> SUFFICES ASSUME TypeInv, SendInv, [Next]_vars,
                      NEW a \in Actors \ (mixed \cup behind), Sending(a), pc'[a] \notin SendPlaces
               PROVE  sent[a] = 1
    OBVIOUS
  <2> USE DEF Goto, Sending, TypeInv, TypeOK
  <2>1. WaitEnds(a)
    <3>1. pc'[a] # pc[a]
      OBVIOUS
    <3>2. ASSUME NEW b \in Actors, Begin(b) PROVE FALSE
      BY <3>1, <3>2 DEF Begin
    <3>3. ASSUME NEW b \in Actors, SendStep(b) PROVE WaitEnds(a)
      BY <3>1, <3>3 DEF SendStep, LoadCounter, StoreAddress, StoreCommand, StoreStatus, StoreCounter, StoreTail,
                        Store, WaitEnds
    <3>4. ASSUME NEW b \in Actors, Clear(b) \/ Give(b) \/ Look(b) \/ Receive(b) PROVE FALSE
      BY <3>1, <3>4 DEF Clear, Give, Look, Receive
    <3>5. ~(PassOver \/ Drop \/ ReturnFromInterrupt \/ OtherInterrupt \/ ReceiveInterrupt)
      BY <3>1, Distinct DEF PassOver, Drop, ReturnFromInterrupt, OtherInterrupt, ReceiveInterrupt, local
    <3>6. ~Transmit /\ ~LinkChange /\ ~(\E kind \in Arriving : Arrive(kind)) /\ ~UNCHANGED vars
      BY <3>1 DEF Transmit, LinkChange, Arrive, vars, local
    <3>7. \A t \in Tasks : TaskStep(t) => WaitEnds(a)
      BY <3>3, <3>4, Distinct DEF TaskStep
    <3>8. HandlerStep => WaitEnds(a)
      BY <3>2, <3>3, <3>4, <3>5, Distinct DEF HandlerStep, Answer
    <3> QED BY <3>2, <3>4, <3>5, <3>6, <3>7, <3>8, Distinct DEF Next, Send, Tasks
  <2>2. Ahead(a) \/ Behind(a)
    BY <2>1 DEF WaitEnds, SendInv, CleanInv, Clean
  <2> QED BY <2>1, <2>2 DEF WaitEnds, Ahead, Behind
<1> QED BY <1>1, Sends, PTL DEF Spec, SendsGoOut
=============================================================================
