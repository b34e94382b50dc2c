---------------------------- MODULE WaitingProofs ----------------------------
(***************************************************************************)
(* Proofs about what tasks wait for: Console, for any number of readers,   *)
(* buffers and keys; Network, for any number of tasks and any ring; Tftp,  *)
(* for files and blocks of any size.                                       *)
(***************************************************************************)
EXTENDS Waiting, Integers, WellFoundedInduction, TLAPS

TypeInv ==
  /\ last_pressed_key \in Nat
  /\ released \in Nat
  /\ emptymap \in [Buffers -> {0, 1}]
  /\ pc \in [Readers -> Places]
  /\ wait \in [Readers -> {"line", "key", "none"}]
  /\ tmp \in [Readers -> Nat]
  /\ buffer \in [Readers -> Buffers \cup {NoBuffer}]
  /\ line \in [Readers -> Seq(Nat)]
  /\ calm \subseteq Readers
  /\ \A t \in Readers : pc[t] = "malloc" => buffer[t] \in Buffers

LEMMA InitTypes == Init => TypeInv
BY ConsoleAssumption DEF Init, TypeInv, Places, Buffers, NoBuffer

LEMMA NextTypes == TypeInv /\ [Next]_vars => TypeInv'
<1>. SUFFICES ASSUME TypeInv, [Next]_vars PROVE TypeInv'
  OBVIOUS
<1>. USE DEF TypeInv, keyboard, call
<1>1. CASE Release
  BY <1>1 DEF Release
<1>2. ASSUME NEW t \in Readers, ScanLine(t) PROVE TypeInv'
  BY <1>2, ConsoleAssumption DEF ScanLine, Places, Buffers, NoBuffer
<1>3. ASSUME NEW t \in Readers, NEW w \in {"key", "none"}, ReadOne(t, w) PROVE TypeInv'
  BY <1>3 DEF ReadOne, Places
<1>4. ASSUME NEW t \in Readers, MallocMarks(t) PROVE TypeInv'
  BY <1>4 DEF MallocMarks, Places
<1>5. ASSUME NEW t \in Readers, Poll(t) PROVE TypeInv'
  BY <1>5 DEF Poll, Places
<1>6. ASSUME NEW t \in Readers, Copy(t) PROVE TypeInv'
  BY <1>6 DEF Copy, Places
<1>7. ASSUME NEW t \in Readers, Clear(t) PROVE TypeInv'
  BY <1>7 DEF Clear, Given, Places
<1>8. ASSUME NEW t \in Readers, Done(t) PROVE TypeInv'
  BY <1>8 DEF Done, Places
<1>9. CASE UNCHANGED vars
  BY <1>9 DEF vars
<1>. QED BY <1>1, <1>2, <1>3, <1>4, <1>5, <1>6, <1>7, <1>8, <1>9 DEF Next, Reads

LEMMA Types == Spec => []TypeInv
BY InitTypes, NextTypes, PTL DEF Spec

-----------------------------------------------------------------------------
(* A slot that some reader has marked is marked in the map, or known to be shared. *)
MarkedInv ==
  \A t \in Readers :
    buffer[t] # NoBuffer /\ pc[t] # "malloc" => emptymap[buffer[t]] = 1 \/ buffer[t] \in shared

BufferInv == TypeInv /\ MarkedInv /\ BuffersArePrivate

LEMMA InitBuffers == Init => BufferInv
BY InitTypes DEF Init, BufferInv, MarkedInv, BuffersArePrivate

LEMMA NextBuffers == BufferInv /\ [Next]_vars => BufferInv'
<1>. SUFFICES ASSUME BufferInv, [Next]_vars PROVE (MarkedInv /\ BuffersArePrivate)'
  BY NextTypes DEF BufferInv
<1>. USE DEF BufferInv, TypeInv, MarkedInv, BuffersArePrivate, keyboard, call
<1>1. CASE Release
  BY <1>1 DEF Release
<1>2. ASSUME NEW t \in Readers, ScanLine(t) PROVE (MarkedInv /\ BuffersArePrivate)'
  BY <1>2 DEF ScanLine
<1>3. ASSUME NEW t \in Readers, NEW w \in {"key", "none"}, ReadOne(t, w)
      PROVE  (MarkedInv /\ BuffersArePrivate)'
  BY <1>3 DEF ReadOne
<1>4. ASSUME NEW t \in Readers, MallocMarks(t) PROVE (MarkedInv /\ BuffersArePrivate)'
  <2>1. MarkedInv'
    BY <1>4 DEF MallocMarks
  <2>2. \A u \in Readers \ {t} :
          buffer[u] = buffer[t] /\ buffer[u] # NoBuffer /\ pc[u] # "malloc" => buffer[t] \in shared'
    BY <1>4 DEF MallocMarks
  <2>3. BuffersArePrivate'
    BY <1>4, <2>2 DEF MallocMarks
  <2>. QED BY <2>1, <2>3
<1>5. ASSUME NEW t \in Readers, Poll(t) \/ Copy(t) \/ Clear(t) PROVE (MarkedInv /\ BuffersArePrivate)'
  BY <1>5 DEF Poll, Copy, Clear, Given
<1>6. ASSUME NEW t \in Readers, Done(t) PROVE (MarkedInv /\ BuffersArePrivate)'
  <2>1. pc[t] # "malloc" /\ buffer'[t] = NoBuffer
    BY <1>6 DEF Done
  <2>2. ASSUME NEW u \in Readers \ {t}
        PROVE  /\ buffer'[u] = buffer[u] /\ pc'[u] = pc[u]
               /\ buffer[u] # buffer[t] => (buffer[u] \in shared => buffer[u] \in shared')
               /\ buffer[u] = buffer[t] => shared' = shared
    BY <1>6 DEF Done
  <2>3. ASSUME NEW u \in Readers \ {t}, buffer[u] \in Buffers, buffer[u] # buffer[t]
        PROVE  emptymap'[buffer[u]] = emptymap[buffer[u]]
    BY <1>6, <2>3 DEF Done
  <2>4. MarkedInv'
    BY <2>1, <2>2, <2>3
  <2>5. BuffersArePrivate'
    BY <2>1, <2>2
  <2>. QED BY <2>4, <2>5
<1>7. CASE UNCHANGED vars
  BY <1>7 DEF vars
<1>. QED BY <1>1, <1>2, <1>3, <1>4, <1>5, <1>6, <1>7 DEF Next, Reads

(* Two readers of lines have the same buffer only if one was overtaken in malloc, or all *)
(* slots were taken: in every interleaving of malloc, free and the timer.                *)
THEOREM BuffersPrivate == Spec => []BuffersArePrivate
<1>1. Spec => []BufferInv
  BY InitBuffers, NextBuffers, PTL DEF Spec
<1>. QED BY <1>1, PTL DEF BufferInv

-----------------------------------------------------------------------------
(* No byte that is known was released later than the last key, the one in the keyboard's *)
(* byte is later than all that are in lines, and a copy is later than its reader's line. *)
BytesInv ==
  /\ last_pressed_key <= released
  /\ \A t \in Readers :
       /\ tmp[t] <= released
       /\ tmp[t] # 0 => pc[t] = "clear"
       /\ \A i \in 1 .. Len(line[t]) :
            /\ line[t][i] <= released
            /\ last_pressed_key # 0 => line[t][i] < last_pressed_key
            /\ tmp[t] # 0 => line[t][i] < tmp[t]

(* While a reader is calm nobody else is about to clear the byte. *)
CalmInv ==
  \A t \in calm :
    /\ pc[t] \in {"copy", "clear"}
    /\ pc[t] = "copy" => last_pressed_key # 0
    /\ \A u \in Readers \ {t} : pc[u] # "clear"

KeyInv == TypeInv /\ BytesInv /\ LinesInOrder /\ CalmInv /\ CalmReadsAreExact

LEMMA InitKeys == Init => KeyInv
BY InitTypes DEF Init, KeyInv, BytesInv, LinesInOrder, CalmInv, CalmReadsAreExact

(* A line that gets a byte. *)
LEMMA LineGrows ==
  ASSUME TypeInv, NEW t \in Readers, Clear(t)
  PROVE  /\ \A u \in Readers \ {t} : line'[u] = line[u]
         /\ \/ line'[t] = line[t]
            \/ /\ Len(line'[t]) = Len(line[t]) + 1
               /\ \A i \in 1 .. Len(line[t]) : line'[t][i] = line[t][i]
               /\ line'[t][Len(line[t]) + 1] = tmp[t]
BY DEF TypeInv, Clear, Given

LEMMA NextBytes == KeyInv /\ [Next]_vars => (BytesInv /\ LinesInOrder)'
<1>. SUFFICES ASSUME KeyInv, [Next]_vars PROVE (BytesInv /\ LinesInOrder)'
  OBVIOUS
<1>. USE DEF KeyInv, TypeInv, BytesInv, LinesInOrder, keyboard, call
<1>1. CASE Release
  BY <1>1 DEF Release
<1>2. ASSUME NEW t \in Readers, ScanLine(t) PROVE (BytesInv /\ LinesInOrder)'
  BY <1>2 DEF ScanLine
<1>3. ASSUME NEW t \in Readers, NEW w \in {"key", "none"}, ReadOne(t, w)
      PROVE  (BytesInv /\ LinesInOrder)'
  BY <1>3 DEF ReadOne
<1>4. ASSUME NEW t \in Readers, MallocMarks(t) \/ Poll(t) PROVE (BytesInv /\ LinesInOrder)'
  BY <1>4 DEF MallocMarks, Poll
<1>5. ASSUME NEW t \in Readers, Copy(t) PROVE (BytesInv /\ LinesInOrder)'
  BY <1>5 DEF Copy
<1>6. ASSUME NEW t \in Readers, Clear(t) PROVE (BytesInv /\ LinesInOrder)'
  <2>1. /\ last_pressed_key' = 0 /\ released' = released
        /\ tmp'[t] = 0 /\ \A u \in Readers \ {t} : tmp'[u] = tmp[u] /\ pc'[u] = pc[u]
    BY <1>6 DEF Clear, Given
  <2>2. /\ \A u \in Readers \ {t} : line'[u] = line[u]
        /\ \/ line'[t] = line[t]
           \/ /\ Len(line'[t]) = Len(line[t]) + 1
              /\ \A i \in 1 .. Len(line[t]) : line'[t][i] = line[t][i]
              /\ line'[t][Len(line[t]) + 1] = tmp[t]
    BY <1>6, LineGrows
  <2>3. ASSUME NEW i \in 1 .. Len(line'[t])
        PROVE  \/ i \in 1 .. Len(line[t]) /\ line'[t][i] = line[t][i]
               \/ i = Len(line[t]) + 1 /\ line'[t][i] = tmp[t]
    <3>1. Len(line[t]) \in Nat
      OBVIOUS
    <3>2. CASE line'[t] = line[t]
      BY <3>2
    <3>3. CASE Len(line'[t]) = Len(line[t]) + 1
               /\ (\A k \in 1 .. Len(line[t]) : line'[t][k] = line[t][k])
               /\ line'[t][Len(line[t]) + 1] = tmp[t]
      <4>1. i \in 1 .. Len(line[t]) \/ i = Len(line[t]) + 1
        BY <3>1, <3>3
      <4>. QED BY <3>3, <4>1
    <3>. QED BY <2>2, <3>2, <3>3
  <2>4. \A i \in 1 .. Len(line'[t]) : line'[t][i] <= released
    BY <2>3
  <2>5. BytesInv'
    <3>1. ASSUME NEW u \in Readers \ {t}
          PROVE  /\ tmp'[u] <= released /\ (tmp'[u] # 0 => pc'[u] = "clear")
                 /\ \A i \in 1 .. Len(line'[u]) :
                      line'[u][i] <= released /\ (tmp'[u] # 0 => line'[u][i] < tmp'[u])
      BY <2>1, <2>2
    <3>. QED BY <2>1, <2>4, <3>1
  <2>6. ASSUME NEW i \in 1 .. Len(line'[t]), NEW j \in 1 .. Len(line'[t]),
               i < j, line'[t][i] # 0, line'[t][j] # 0
        PROVE  line'[t][i] < line'[t][j]
    <3>1. i \in Nat /\ j \in Nat /\ i \in 1 .. Len(line[t]) /\ line'[t][i] = line[t][i]
      <4>1. Len(line[t]) \in Nat
        OBVIOUS
      <4>2. j \in 1 .. Len(line[t]) \/ j = Len(line[t]) + 1
        BY <2>3
      <4>3. \/ i \in 1 .. Len(line[t]) /\ line'[t][i] = line[t][i]
            \/ i = Len(line[t]) + 1
        BY <2>3
      <4>. QED BY <2>6, <4>1, <4>2, <4>3
    <3>2. CASE j \in 1 .. Len(line[t]) /\ line'[t][j] = line[t][j]
      BY <2>6, <3>1, <3>2
    <3>3. CASE line'[t][j] = tmp[t]
      BY <2>6, <3>1, <3>3
    <3>. QED BY <2>3, <3>2, <3>3
  <2>7. LinesInOrder'
    BY <2>2, <2>6
  <2>. QED BY <2>5, <2>7
<1>7. ASSUME NEW t \in Readers, Done(t) PROVE (BytesInv /\ LinesInOrder)'
  BY <1>7 DEF Done
<1>8. CASE UNCHANGED vars
  BY <1>8 DEF vars
<1>. QED BY <1>1, <1>2, <1>3, <1>4, <1>5, <1>6, <1>7, <1>8 DEF Next, Reads

LEMMA NextCalm == KeyInv /\ [Next]_vars => (CalmInv /\ CalmReadsAreExact)'
<1>. SUFFICES ASSUME KeyInv, [Next]_vars PROVE (CalmInv /\ CalmReadsAreExact)'
  OBVIOUS
<1>. USE DEF KeyInv, TypeInv, CalmInv, CalmReadsAreExact, keyboard, call
<1>1. CASE Release
  BY <1>1 DEF Release
<1>2. ASSUME NEW t \in Readers, ScanLine(t) PROVE (CalmInv /\ CalmReadsAreExact)'
  BY <1>2 DEF ScanLine
<1>3. ASSUME NEW t \in Readers, NEW w \in {"key", "none"}, ReadOne(t, w)
      PROVE  (CalmInv /\ CalmReadsAreExact)'
  BY <1>3 DEF ReadOne
<1>4. ASSUME NEW t \in Readers, MallocMarks(t) PROVE (CalmInv /\ CalmReadsAreExact)'
  BY <1>4 DEF MallocMarks
<1>5. ASSUME NEW t \in Readers, Poll(t) PROVE (CalmInv /\ CalmReadsAreExact)'
  BY <1>5 DEF Poll
<1>6. ASSUME NEW t \in Readers, Copy(t) PROVE (CalmInv /\ CalmReadsAreExact)'
  <2>1. t \in calm =>
          /\ last_pressed_key # 0
          /\ \A u \in Readers \ {t} :
               tmp[u] = 0 /\ \A i \in 1 .. Len(line[u]) : line[u][i] # last_pressed_key
    BY <1>6 DEF Copy, BytesInv
  <2>2. /\ calm' \subseteq {t} \cap calm
        /\ pc'[t] = "clear" /\ tmp'[t] = last_pressed_key /\ line' = line
        /\ \A u \in Readers \ {t} : pc'[u] = pc[u] /\ tmp'[u] = tmp[u]
    BY <1>6 DEF Copy
  <2>. QED BY <2>1, <2>2
<1>7. ASSUME NEW t \in Readers, Clear(t) PROVE (CalmInv /\ CalmReadsAreExact)'
  <2>1. calm' = {}
    BY <1>7 DEF Clear
  <2>. QED BY <2>1
<1>8. ASSUME NEW t \in Readers, Done(t) PROVE (CalmInv /\ CalmReadsAreExact)'
  BY <1>8 DEF Done
<1>9. CASE UNCHANGED vars
  BY <1>9 DEF vars
<1>. QED BY <1>1, <1>2, <1>3, <1>4, <1>5, <1>6, <1>7, <1>8, <1>9 DEF Next, Reads

LEMMA KeysStay == Spec => []KeyInv
<1>1. KeyInv /\ [Next]_vars => KeyInv'
  BY NextTypes, NextBytes, NextCalm DEF KeyInv
<1>. QED BY <1>1, InitKeys, PTL DEF Spec

(* The keys of a line are in their order and none is in it twice, however many readers *)
(* share the byte.                                                                     *)
THEOREM LinesAreInOrder == Spec => []LinesInOrder
BY KeysStay, PTL DEF KeyInv

(* A reader that nobody interferes with between its poll and its clearing of the byte *)
(* gets a key, which no other reader has.                                             *)
THEOREM CalmIsExact == Spec => []CalmReadsAreExact
BY KeysStay, PTL DEF KeyInv

-----------------------------------------------------------------------------

(* Where descriptor i lies from the card's next one on, and the number of the packet that *)
(* it then holds.                                                                         *)
Distance(i) == IF i >= head THEN i - head ELSE i - head + RxSize
Place(i) == arrived - RxSize + Distance(i)

RingInv ==
  /\ DOMAIN slots = N!Ring /\ DOMAIN number = N!Ring
  /\ unread \subseteq N!Ring
  /\ head \in N!Ring /\ arrived \in Nat
  /\ \A i \in N!Ring : Place(i) >= 0 => number[i] = Place(i)
  /\ \A i \in unread : Place(i) >= 0

(* A hardware address is the one that was asked for, and a name's address is the one that  *)
(* a task with that number asked for.                                                      *)
Later == {"answer", "read", "done"}

Genuine(p) ==
  /\ p.kind = "arp" => p.to \in Readers /\ p.value = N!Asked(p.to)
  /\ p.kind = "dns" =>
       \E u \in Readers : at[u] \in Later /\ p.id = id[u] /\ p.value \in {u, "unknown"}

PacketInv ==
  /\ \A p \in air : Genuine(p)
  /\ \A i \in N!Ring : Genuine(slots[i])

JobInv ==
  /\ job \in Jobs
  /\ DOMAIN at = Readers /\ DOMAIN pointer = Readers /\ DOMAIN took = Readers /\ DOMAIN id = Readers
  /\ DOMAIN answer = Readers /\ DOMAIN late = Readers
  /\ \A t \in Readers :
       /\ at[t] \in {"start", "mac", "number", "count", "query", "answer", "offer", "request",
                      "approval", "read", "done"}
       /\ at[t] \in {"offer", "request", "approval"} => job[t] = "dhcp"
       /\ at[t] \in {"number", "count", "query", "answer"} => job[t] = "dns"
       /\ at[t] = "mac" => job[t] \in {"dns", "mac"}
       /\ at[t] \in {"read", "done"} => job[t] # "none"

(* While the ring has not gone round, the buffer that a task's pointer points into holds *)
(* the packet that it was taken for.                                                     *)
Held(t) == arrived - took[t] <= RxSize

Holds(t) ==
  LET p == slots[pointer[t]] IN
  /\ Place(pointer[t]) = took[t]
  /\ at[t] = "read" /\ job[t] = "mac" => N!IsMac(p) /\ (p.to = t \/ stolen = 1)
  /\ at[t] = "read" /\ job[t] = "dns" => N!IsAnswer(t, p)
  /\ at[t] \in {"approval", "read"} /\ job[t] = "dhcp" => p.value = leased

HeldInv ==
  \A t \in Readers :
    at[t] \in {"request", "approval", "read"} =>
      /\ pointer[t] \in N!Ring /\ took[t] \in 0 .. arrived - 1
      /\ Held(t) => Holds(t)

DoneInv ==
  \A t \in Readers :
    at[t] = "done" /\ late[t] = 0 =>
      \/ job[t] = "dns" /\ answer[t] \in {t, "unknown"}
      \/ job[t] = "dns" /\ \E u \in Readers \ {t} : at[u] \in Later /\ id[u] = id[t]
      \/ job[t] = "mac" /\ (answer[t] = "neighbour" \/ stolen = 1)
      \/ job[t] = "dhcp" /\ answer[t] = leased

AnswersInv == RingInv /\ PacketInv /\ JobInv /\ HeldInv /\ DoneInv

-----------------------------------------------------------------------------
(* A poll takes a descriptor that is filled. *)
LEMMA PolledIs ==
  ASSUME unread \subseteq Nat, unread # {}
  PROVE  N!Polled \in unread
<1>1. IsWellFoundedOn(OpToRel(<, Nat), Nat)
  BY NatLessThanWellFounded
<1>2. \E x \in unread : \A y \in unread : ~ (<<y, x>> \in OpToRel(<, Nat))
  BY <1>1, WFMin
<1>3. PICK x \in unread : \A y \in unread : ~ (<<y, x>> \in OpToRel(<, Nat))
  BY <1>2
<1>4. \A y \in unread : ~ (y < x)
  BY <1>3 DEF OpToRel
<1>5. \A y \in unread : x <= y
  BY <1>4
<1>. QED BY <1>5 DEF N!Polled

(* The card's next descriptor. *)
LEMMA Wraps ==
  ASSUME NEW m \in Nat \ {0}, NEW h \in 0 .. m - 1
  PROVE  (h + 1) % m = IF h + 1 = m THEN 0 ELSE h + 1
<1>1. CASE h + 1 = m
  BY <1>1
<1>2. CASE h + 1 # m
  BY <1>2
<1>. QED BY <1>1, <1>2

-----------------------------------------------------------------------------
(* What a step of a task leaves alone. *)
Calm(t) ==
  /\ UNCHANGED <<job, slots, number, head, arrived>>
  /\ unread' \subseteq unread
  /\ \A u \in Readers \ {t} :
       /\ at'[u] = at[u] /\ pointer'[u] = pointer[u] /\ took'[u] = took[u]
       /\ id'[u] = id[u] /\ answer'[u] = answer[u] /\ late'[u] = late[u]
  /\ at[t] \in Later => at'[t] \in Later /\ id'[t] = id[t]
  /\ stolen' \in {stolen, 1}
  /\ at[t] # "request" => leased' = leased

LEMMA TaskIsCalm ==
  ASSUME JobInv, NEW t \in Readers, N!TaskStep(t)
  PROVE  Calm(t)
<1>. USE DEF JobInv, Calm, Later, N!ring, N!Goto
<1>1. CASE N!AskMac(t)
  BY <1>1 DEF N!AskMac
<1>2. CASE N!AwaitMac(t)
  BY <1>2 DEF N!AwaitMac, N!AwaitPacket, N!Poll
<1>3. CASE N!LoadNumber(t)
  BY <1>3 DEF N!LoadNumber
<1>4. CASE N!StoreNumber(t)
  BY <1>4 DEF N!StoreNumber
<1>5. CASE N!Query(t)
  BY <1>5 DEF N!Query
<1>6. CASE N!AwaitAnswer(t)
  BY <1>6 DEF N!AwaitAnswer, N!AwaitPacket, N!Poll
<1>7. CASE N!Discover(t)
  BY <1>7 DEF N!Discover
<1>8. CASE N!AwaitOffer(t)
  BY <1>8 DEF N!AwaitOffer, N!AwaitPacket, N!Poll
<1>9. CASE N!RequestAddress(t)
  BY <1>9 DEF N!RequestAddress
<1>10. CASE N!AwaitApproval(t)
  BY <1>10 DEF N!AwaitApproval, N!Poll
<1>11. CASE N!Read(t)
  BY <1>11 DEF N!Read
<1>. QED BY <1>1, <1>2, <1>3, <1>4, <1>5, <1>6, <1>7, <1>8, <1>9, <1>10, <1>11 DEF N!TaskStep

LEMMA TaskKeepsJobs ==
  ASSUME JobInv, NEW t \in Readers, N!TaskStep(t)
  PROVE  JobInv'
<1>. USE DEF JobInv, N!ring, N!Goto
<1>1. CASE N!AskMac(t)
  BY <1>1 DEF N!AskMac
<1>2. CASE N!AwaitMac(t)
  BY <1>2 DEF N!AwaitMac, N!AwaitPacket, N!Poll
<1>3. CASE N!LoadNumber(t)
  BY <1>3 DEF N!LoadNumber
<1>4. CASE N!StoreNumber(t)
  BY <1>4 DEF N!StoreNumber
<1>5. CASE N!Query(t)
  BY <1>5 DEF N!Query
<1>6. CASE N!AwaitAnswer(t)
  BY <1>6 DEF N!AwaitAnswer, N!AwaitPacket, N!Poll
<1>7. CASE N!Discover(t)
  BY <1>7 DEF N!Discover
<1>8. CASE N!AwaitOffer(t)
  BY <1>8 DEF N!AwaitOffer, N!AwaitPacket, N!Poll
<1>9. CASE N!RequestAddress(t)
  BY <1>9 DEF N!RequestAddress
<1>10. CASE N!AwaitApproval(t)
  BY <1>10 DEF N!AwaitApproval, N!Poll
<1>11. CASE N!Read(t)
  BY <1>11 DEF N!Read
<1>. QED BY <1>1, <1>2, <1>3, <1>4, <1>5, <1>6, <1>7, <1>8, <1>9, <1>10, <1>11 DEF N!TaskStep

(* A packet stays genuine, since who has asked for a name keeps the number. *)
LEMMA StaysGenuine ==
  ASSUME job' = job, \A u \in Readers : at[u] \in Later => at'[u] \in Later /\ id'[u] = id[u],
         NEW p, Genuine(p)
  PROVE  Genuine(p)'
<1>1. p.kind = "arp" => p.to \in Readers /\ p.value = N!Asked(p.to)'
  BY DEF Genuine, N!Asked
<1>2. p.kind = "dns" =>
        \E u \in Readers : at'[u] \in Later /\ p.id = id'[u] /\ p.value \in {u, "unknown"}
  BY DEF Genuine
<1>. QED BY <1>1, <1>2 DEF Genuine, Later

LEMMA TaskKeepsPackets ==
  ASSUME PacketInv, JobInv, NEW t \in Readers, N!TaskStep(t)
  PROVE  PacketInv'
<1>1. \A u \in Readers : at[u] \in Later => at'[u] \in Later /\ id'[u] = id[u]
  BY TaskIsCalm DEF Calm
<1>2. job' = job /\ slots' = slots
  BY TaskIsCalm DEF Calm
<1>3. \A p : Genuine(p) => Genuine(p)'
  BY <1>1, <1>2, StaysGenuine
<1>4. \A p \in air' : p \in air \/ Genuine(p)'
  <2>1. CASE N!AskMac(t)
    BY <2>1 DEF N!AskMac, N!Ask, N!Packet, Genuine, N!Asked, N!ring
  <2>2. CASE N!Query(t)
    <3>1. at'[t] \in Later /\ id'[t] = id[t]
      BY <2>2 DEF N!Query, JobInv, N!Goto, Later
    <3>2. \A p : \A found \in {t, "unknown"} : p = N!Packet("dns", id[t], found, t) => Genuine(p)'
      BY <2>2, <3>1 DEF N!Query, N!Packet, Genuine
    <3>3. air' = air \/ \E found \in {t, "unknown"} : air' = air \cup {N!Packet("dns", id[t], found, t)}
      BY <2>2 DEF N!Query, N!Ask
    <3>4. ASSUME NEW found \in {t, "unknown"}, air' = air \cup {N!Packet("dns", id[t], found, t)},
                 NEW p \in air'
          PROVE  p \in air \/ Genuine(p)'
      <4>1. p \in air \/ p = N!Packet("dns", id[t], found, t)
        BY <3>4
      <4>. QED BY <4>1, <3>2
    <3>. QED BY <3>3, <3>4
  <2>3. CASE N!Discover(t)
    BY <2>3 DEF N!Discover, N!Ask, N!Packet, Genuine
  <2>4. CASE N!RequestAddress(t)
    BY <2>4 DEF N!RequestAddress, N!Ask, N!Packet, Genuine
  <2>5. CASE air' = air
    BY <2>5
  <2>. QED BY <2>1, <2>2, <2>3, <2>4, <2>5
         DEF N!TaskStep, N!AwaitMac, N!AwaitPacket, N!Poll, N!LoadNumber, N!StoreNumber,
             N!AwaitAnswer, N!AwaitOffer,
             N!AwaitApproval, N!Read
<1>. QED BY <1>2, <1>3, <1>4 DEF PacketInv, N!Ring

-----------------------------------------------------------------------------
LEMMA RingStays ==
  ASSUME RingInv, UNCHANGED <<slots, number, head, arrived>>, unread' \subseteq unread
  PROVE  RingInv'
BY DEF RingInv, Place, Distance, N!Ring

(* What is polled is the packet of its place. *)
LEMMA PolledIsFilled ==
  ASSUME N!ConstantsAssumption, RingInv, unread # {}
  PROVE  /\ N!Polled \in unread /\ N!Polled \in N!Ring
         /\ number[N!Polled] \in 0 .. arrived - 1 /\ Place(N!Polled) = number[N!Polled]
<1>1. N!Polled \in unread
  BY PolledIs DEF RingInv, N!Ring
<1>2. N!Polled \in N!Ring /\ Place(N!Polled) >= 0 /\ number[N!Polled] = Place(N!Polled)
  BY <1>1 DEF RingInv
<1>3. Distance(N!Polled) \in 0 .. RxSize - 1
  BY <1>2 DEF RingInv, N!Ring, Distance, N!ConstantsAssumption
<1>4. Place(N!Polled) \in 0 .. arrived - 1
  BY <1>2, <1>3 DEF Place, RingInv, N!ConstantsAssumption
<1>. QED BY <1>1, <1>2, <1>4

(* A packet is stored, or it is lost. *)
Stored(p) ==
  /\ slots'[head] = p /\ number'[head] = arrived
  /\ arrived' = arrived + 1
  /\ Place(head) = arrived - RxSize
  /\ \A i \in N!Ring \ {head} : slots'[i] = slots[i] /\ number'[i] = number[i] /\ Place(i)' = Place(i)

LEMMA ArriveStores ==
  ASSUME N!ConstantsAssumption, RingInv, NEW p, N!Arrive(p)
  PROVE  /\ RingInv'
         /\ UNCHANGED <<slots, head, arrived>> \/ Stored(p)
<1>1. CASE head = tail
  <2>1. UNCHANGED <<slots, number, unread, head, arrived>>
    BY <1>1 DEF N!Arrive, N!ring
  <2>. QED BY <2>1, RingStays
<1>2. CASE head # tail
  <2>1. /\ slots' = [slots EXCEPT ![head] = p] /\ number' = [number EXCEPT ![head] = arrived]
        /\ unread' = unread \cup {head} /\ head' = (head + 1) % RxSize /\ arrived' = arrived + 1
    BY <1>2 DEF N!Arrive
  <2>2. RxSize \in Nat \ {0} /\ head \in 0 .. RxSize - 1 /\ arrived \in Nat
    BY DEF RingInv, N!Ring, N!ConstantsAssumption
  <2>3. head' = IF head + 1 = RxSize THEN 0 ELSE head + 1
    BY <2>1, <2>2, Wraps
  <2>4. head' \in N!Ring /\ arrived' \in Nat
    BY <2>1, <2>2, <2>3 DEF N!Ring
  <2>5. ASSUME NEW i \in N!Ring PROVE Place(i)' = IF i = head THEN arrived ELSE Place(i)
    BY <2>1, <2>2, <2>3 DEF Place, Distance, N!Ring
  <2>6. Place(head) = arrived - RxSize
    BY <2>2 DEF Place, Distance
  <2>7. Stored(p)
    BY <2>1, <2>2, <2>5, <2>6 DEF Stored, RingInv
  <2>8. /\ DOMAIN slots' = N!Ring /\ DOMAIN number' = N!Ring /\ unread' \subseteq N!Ring
    BY <2>1 DEF RingInv
  <2>9. \A i \in N!Ring : Place(i)' >= 0 => number'[i] = Place(i)'
    BY <2>5, <2>7 DEF Stored, RingInv
  <2>10. \A i \in unread' : Place(i)' >= 0
    BY <2>1, <2>2, <2>5 DEF RingInv
  <2>11. RingInv'
    BY <2>4, <2>8, <2>9, <2>10 DEF RingInv, N!Ring
  <2>. QED BY <2>7, <2>11
<1>. QED BY <1>1, <1>2

(* What was held is held after an arrival, unless the ring has gone round. *)
LEMMA ArrivalKeepsHeld ==
  ASSUME N!ConstantsAssumption, RingInv, HeldInv, NEW p, N!Arrive(p), UNCHANGED <<job, N!client, stolen>>
  PROVE  HeldInv'
<1>. SUFFICES ASSUME NEW t \in Readers, at[t] \in {"request", "approval", "read"}
     PROVE  (/\ pointer[t] \in N!Ring /\ took[t] \in 0 .. arrived - 1
             /\ Held(t) => Holds(t))'
  BY DEF HeldInv, N!client, N!Ring
<1>1. /\ pointer[t] \in N!Ring /\ took[t] \in 0 .. arrived - 1
      /\ Held(t) => Holds(t)
  BY DEF HeldInv
<1>2. arrived \in Nat /\ RxSize \in Nat
  BY DEF RingInv, N!ConstantsAssumption
<1>3. CASE UNCHANGED <<slots, head, arrived>>
  BY <1>1, <1>3 DEF Held, Holds, Place, Distance, N!client, N!IsAnswer, N!Ring
<1>4. CASE Stored(p)
  <2>1. took[t] \in 0 .. arrived' - 1
    BY <1>1, <1>2, <1>4 DEF Stored
  <2>2. ASSUME Held(t)' PROVE Holds(t)'
    <3>1. Held(t) /\ took[t] # arrived - RxSize
      BY <1>1, <1>2, <1>4, <2>2 DEF Held, Stored, N!client
    <3>2. Place(pointer[t]) = took[t]
      BY <1>1, <3>1 DEF Holds
    <3>3. pointer[t] # head
      BY <1>4, <3>1, <3>2 DEF Stored
    <3>4. pointer' = pointer /\ slots'[pointer[t]] = slots[pointer[t]]
      BY <1>1, <1>4, <3>3 DEF Stored, N!client
    <3>5. Place(pointer[t])' = Place(pointer[t])
      BY <1>1, <1>4, <3>3, <3>4 DEF Stored, Place, Distance
    <3>. QED BY <1>1, <3>1, <3>4, <3>5 DEF Holds, N!client, N!IsAnswer, N!IsMac
  <2>. QED BY <1>1, <2>1, <2>2 DEF N!client, N!Ring
<1>. QED BY <1>3, <1>4, ArriveStores

(* What a task has polled it holds. *)
LEMMA PollHolds ==
  ASSUME N!ConstantsAssumption, RingInv, PacketInv, JobInv, NEW t \in Readers, N!Poll(t),
         NEW wanted, NEW place, N!AwaitPacket(t, wanted, place), at'[t] # at[t]
  PROVE  /\ pointer'[t] \in N!Ring /\ took'[t] \in 0 .. arrived - 1
         /\ slots[pointer'[t]] \in wanted /\ at'[t] = place /\ Place(pointer'[t]) = took'[t]
         /\ slots[pointer'[t]].kind = "arp" => slots[pointer'[t]].to = t \/ stolen' = 1
<1>1. N!Polled \in N!Ring /\ number[N!Polled] \in 0 .. arrived - 1 /\ Place(N!Polled) = number[N!Polled]
  BY PolledIsFilled DEF N!Poll
<1>2. /\ slots[N!Polled] \in wanted /\ pointer'[t] = N!Polled /\ took'[t] = number[N!Polled] /\ at'[t] = place
  BY DEF N!AwaitPacket, N!Goto, JobInv
<1>3. slots[N!Polled].kind = "arp" => slots[N!Polled].to \in Readers
  BY <1>1 DEF PacketInv, Genuine
<1>4. slots[N!Polled].to \in Readers => slots[N!Polled].to = t \/ stolen' = 1
  BY DEF N!Poll, N!ConstantsAssumption
<1>. QED BY <1>1, <1>2, <1>3, <1>4

LEMMA TaskKeepsHeld ==
  ASSUME N!ConstantsAssumption, RingInv, PacketInv, JobInv, HeldInv, NEW t \in Readers, N!TaskStep(t)
  PROVE  HeldInv'
<1>. SUFFICES ASSUME NEW u \in Readers, at'[u] \in {"request", "approval", "read"}
     PROVE  (/\ pointer[u] \in N!Ring /\ took[u] \in 0 .. arrived - 1
             /\ Held(u) => Holds(u))'
  BY DEF HeldInv
<1>0. Calm(t)
  BY TaskIsCalm
<1>1. /\ job \in [Readers -> {"dhcp", "dns", "mac", "none"}]
      /\ \A v \in Readers \ {t} : job[v] # "dhcp" \/ job[t] # "dhcp"
  BY DEF JobInv, N!ConstantsAssumption
<1>2. CASE u # t
  <2>1. /\ at'[u] = at[u] /\ pointer'[u] = pointer[u] /\ took'[u] = took[u] /\ id'[u] = id[u]
        /\ job' = job /\ slots' = slots /\ head' = head /\ arrived' = arrived
        /\ stolen' \in {stolen, 1}
    BY <1>0, <1>2 DEF Calm
  <2>2. job[u] = "dhcp" => leased' = leased
    BY <1>0, <1>1, <1>2 DEF Calm, JobInv
  <2>3. /\ pointer[u] \in N!Ring /\ took[u] \in 0 .. arrived - 1
        /\ Held(u) => Holds(u)
    BY <2>1 DEF HeldInv
  <2>4. Holds(u) => Holds(u)'
    BY <2>1, <2>2 DEF Holds, Place, Distance, N!IsMac, N!IsAnswer
  <2>. QED BY <2>1, <2>3, <2>4 DEF Held, N!Ring
<1>3. CASE u = t
  <2>0. job' = job /\ slots' = slots /\ head' = head /\ arrived' = arrived
    BY <1>0 DEF Calm
  <2>1. CASE N!AwaitMac(t)
    <3>0. at[t] = "mac" /\ at'[t] # at[t]
      BY <1>3, <2>1 DEF N!AwaitMac
    <3>1. /\ pointer'[t] \in N!Ring /\ took'[t] \in 0 .. arrived - 1
          /\ N!IsMac(slots[pointer'[t]]) /\ Place(pointer'[t]) = took'[t]
          /\ at'[t] = (IF job[t] = "dns" THEN "number" ELSE "read")
          /\ slots[pointer'[t]].kind = "arp" => slots[pointer'[t]].to = t \/ stolen' = 1
      BY <2>1, <3>0, PollHolds DEF N!AwaitMac, N!AwaitPacket
    <3>2. at'[t] = "read" /\ job[t] = "mac"
      BY <1>3, <3>0, <3>1 DEF JobInv
    <3>. QED BY <1>3, <2>0, <3>1, <3>2 DEF Holds, Place, Distance, N!IsMac, N!Ring
  <2>2. CASE N!AwaitAnswer(t)
    <3>0. at[t] = "answer" /\ at'[t] # at[t] /\ job[t] = "dns" /\ id' = id
      BY <1>3, <2>2 DEF N!AwaitAnswer, N!AwaitPacket, N!Poll, JobInv
    <3>1. /\ pointer'[t] \in N!Ring /\ took'[t] \in 0 .. arrived - 1
          /\ N!IsAnswer(t, slots[pointer'[t]]) /\ Place(pointer'[t]) = took'[t]
      BY <2>2, <3>0, PollHolds DEF N!AwaitAnswer, N!AwaitPacket
    <3>. QED BY <1>3, <2>0, <3>0, <3>1 DEF Holds, Place, Distance, N!IsAnswer, N!Ring
  <2>3. CASE N!AwaitOffer(t)
    <3>0. at[t] = "offer" /\ at'[t] # at[t]
      BY <1>3, <2>3 DEF N!AwaitOffer
    <3>1. /\ pointer'[t] \in N!Ring /\ took'[t] \in 0 .. arrived - 1
          /\ Place(pointer'[t]) = took'[t] /\ at'[t] = "request"
      BY <2>3, <3>0, PollHolds DEF N!AwaitOffer, N!AwaitPacket
    <3>. QED BY <1>3, <2>0, <3>1 DEF Holds, Place, Distance, N!Ring
  <2>4. CASE N!RequestAddress(t)
    <3>1. /\ at[t] = "request" /\ at'[t] = "approval" /\ job[t] = "dhcp"
          /\ leased' = slots[pointer[t]].value /\ pointer' = pointer /\ took' = took
      BY <2>4 DEF N!RequestAddress, N!Goto, JobInv
    <3>2. /\ pointer[t] \in N!Ring /\ took[t] \in 0 .. arrived - 1
          /\ Held(t) => Place(pointer[t]) = took[t]
      BY <3>1 DEF HeldInv, Holds
    <3>. QED BY <1>3, <2>0, <3>1, <3>2 DEF Held, Holds, Place, Distance, N!Ring
  <2>5. CASE N!AwaitApproval(t)
    <3>1. /\ at[t] = "approval" /\ job[t] = "dhcp"
          /\ leased' = leased /\ pointer' = pointer /\ took' = took
      BY <2>5 DEF N!AwaitApproval, N!Poll, JobInv
    <3>2. /\ pointer[t] \in N!Ring /\ took[t] \in 0 .. arrived - 1
          /\ Held(t) => Place(pointer[t]) = took[t] /\ slots[pointer[t]].value = leased
      BY <3>1 DEF HeldInv, Holds
    <3>. QED BY <1>3, <2>0, <3>1, <3>2 DEF Held, Holds, Place, Distance, N!Ring
  <2>6. CASE ~ (N!AwaitMac(t) \/ N!AwaitAnswer(t) \/ N!AwaitOffer(t) \/ N!RequestAddress(t) \/ N!AwaitApproval(t))
    BY <1>3, <2>6 DEF N!TaskStep, N!AskMac, N!LoadNumber, N!StoreNumber, N!Query, N!Discover,
                      N!Read, N!Goto, JobInv
  <2>. QED BY <2>1, <2>2, <2>3, <2>4, <2>5, <2>6
<1>. QED BY <1>2, <1>3

(* An answer is read while it is held. *)
LEMMA TaskKeepsDone ==
  ASSUME N!ConstantsAssumption, RingInv, PacketInv, JobInv, HeldInv, DoneInv,
         NEW t \in Readers, N!TaskStep(t)
  PROVE  DoneInv'
<1>. SUFFICES ASSUME NEW u \in Readers, at'[u] = "done", late'[u] = 0
     PROVE  \/ job'[u] = "dns" /\ answer'[u] \in {u, "unknown"}
            \/ job'[u] = "dns" /\ \E v \in Readers \ {u} : at'[v] \in Later /\ id'[v] = id'[u]
            \/ job'[u] = "mac" /\ (answer'[u] = "neighbour" \/ stolen' = 1)
            \/ job'[u] = "dhcp" /\ answer'[u] = leased'
  BY DEF DoneInv, Later
<1>0. Calm(t)
  BY TaskIsCalm
<1>1. /\ job \in [Readers -> {"dhcp", "dns", "mac", "none"}]
      /\ \A v \in Readers \ {t} : job[v] # "dhcp" \/ job[t] # "dhcp"
  BY DEF JobInv, N!ConstantsAssumption
<1>2. \A v \in Readers : at[v] \in Later => at'[v] \in Later /\ id'[v] = id[v]
  BY <1>0 DEF Calm
<1>3. CASE u # t
  <2>1. /\ at[u] = "done" /\ late[u] = 0 /\ answer'[u] = answer[u] /\ id'[u] = id[u]
        /\ job' = job /\ stolen' \in {stolen, 1}
    BY <1>0, <1>3 DEF Calm
  <2>2. job[u] = "dhcp" => leased' = leased
    BY <1>0, <1>1, <1>3 DEF Calm, JobInv
  <2>. QED BY <1>2, <2>1, <2>2 DEF DoneInv
<1>4. CASE u = t
  <2>1. CASE N!Read(t)
    <3>1. /\ at[t] = "read" /\ answer'[t] = slots[pointer[t]].value
          /\ late'[t] = IF arrived - took[t] < RxSize THEN 0 ELSE 1
          /\ UNCHANGED <<job, id, stolen, leased>>
      BY <2>1 DEF N!Read, JobInv
    <3>2. /\ pointer[t] \in N!Ring /\ took[t] \in 0 .. arrived - 1
          /\ Held(t) => Holds(t)
      BY <3>1 DEF HeldInv
    <3>3. arrived \in Nat /\ RxSize \in Nat
      BY DEF RingInv, N!ConstantsAssumption
    <3>4. Holds(t)
      BY <1>4, <3>1, <3>2, <3>3 DEF Held
    <3>5. CASE job[t] = "dns"
      <4>1. slots[pointer[t]].kind = "dns" /\ slots[pointer[t]].id = id[t]
        BY <3>1, <3>4, <3>5 DEF Holds, N!IsAnswer
      <4>2. PICK v \in Readers : at[v] \in Later /\ id[t] = id[v] /\ answer'[t] \in {v, "unknown"}
        BY <3>1, <3>2, <4>1 DEF PacketInv, Genuine
      <4>. QED BY <1>2, <1>4, <3>1, <3>5, <4>2
    <3>6. CASE job[t] = "mac"
      <4>1. slots[pointer[t]].kind = "arp" /\ (slots[pointer[t]].to = t \/ stolen = 1)
        BY <3>1, <3>4, <3>6 DEF Holds, N!IsMac
      <4>2. slots[pointer[t]].value = N!Asked(slots[pointer[t]].to)
        BY <3>2, <4>1 DEF PacketInv, Genuine
      <4>. QED BY <1>4, <3>1, <3>6, <4>1, <4>2 DEF N!Asked
    <3>7. CASE job[t] = "dhcp"
      BY <1>4, <3>1, <3>4, <3>7 DEF Holds
    <3>8. job[t] \in {"dns", "mac", "dhcp"}
      BY <1>1, <3>1 DEF JobInv
    <3>. QED BY <3>5, <3>6, <3>7, <3>8
  <2>2. CASE ~ N!Read(t)
    <3>1. at'[t] # "done"
      BY <2>2 DEF N!TaskStep, N!AskMac, N!AwaitMac, N!LoadNumber, N!StoreNumber, N!Query,
                  N!AwaitAnswer, N!Discover,
                  N!AwaitOffer, N!RequestAddress, N!AwaitApproval, N!AwaitPacket, N!Goto, JobInv
    <3>. QED BY <1>4, <3>1
  <2>. QED BY <2>1, <2>2
<1>. QED BY <1>3, <1>4

-----------------------------------------------------------------------------
LEMMA InitAnswers == N!ConstantsAssumption /\ N!Init => AnswersInv
<1>. SUFFICES ASSUME N!ConstantsAssumption, N!Init PROVE AnswersInv
  OBVIOUS
<1>1. RxSize \in Nat \ {0}
  BY DEF N!ConstantsAssumption
<1>2. RingInv
  BY <1>1 DEF N!Init, RingInv, N!Ring, Place, Distance
<1>3. PacketInv
  BY DEF N!Init, PacketInv, Genuine, N!NoPacket, N!Packet
<1>4. JobInv
  BY DEF N!Init, JobInv
<1>. QED BY <1>2, <1>3, <1>4 DEF N!Init, AnswersInv, HeldInv, DoneInv

LEMMA NextAnswers == N!ConstantsAssumption /\ AnswersInv /\ [N!Next]_N!networkVars => AnswersInv'
<1>. SUFFICES ASSUME N!ConstantsAssumption, AnswersInv, [N!Next]_N!networkVars PROVE AnswersInv'
  OBVIOUS
<1>. USE DEF AnswersInv
<1>1. ASSUME NEW t \in Readers, N!TaskStep(t) PROVE AnswersInv'
  <2>1. RingInv'
    BY <1>1, TaskIsCalm, RingStays DEF Calm
  <2>. QED BY <1>1, <2>1, TaskKeepsJobs, TaskKeepsPackets, TaskKeepsHeld, TaskKeepsDone
<1>2. ASSUME UNCHANGED <<job, slots, number, head, arrived, N!client, stolen, air>>, unread' \subseteq unread
      PROVE  AnswersInv'
  <2>1. RingInv'
    BY <1>2, RingStays
  <2>. QED BY <1>2, <2>1
         DEF PacketInv, JobInv, HeldInv, DoneInv, N!client, N!Ring, Genuine, N!Asked, Held, Holds,
             Place, Distance, N!IsAnswer, Later
<1>3. ASSUME NEW p, Genuine(p), N!Arrive(p), air' \subseteq air, UNCHANGED <<job, N!client, stolen>>
      PROVE  AnswersInv'
  <2>1. RingInv'
    BY <1>3, ArriveStores
  <2>2. HeldInv'
    BY <1>3, ArrivalKeepsHeld
  <2>3. JobInv' /\ DoneInv'
    BY <1>3 DEF JobInv, DoneInv, N!client, Later
  <2>4. \A q : Genuine(q) => Genuine(q)'
    BY <1>3, StaysGenuine DEF N!client
  <2>5. \A i \in N!Ring : Genuine(slots'[i])
    BY <1>3, ArriveStores DEF PacketInv, Stored
  <2>6. PacketInv'
    BY <1>3, <2>4, <2>5 DEF PacketInv, N!Ring
  <2>. QED BY <2>1, <2>2, <2>3, <2>6
<1>4. CASE N!Deliver
  <2>1. PICK p \in air : air' = air \ {p} /\ N!Arrive(p)
    BY <1>4 DEF N!Deliver
  <2>. QED BY <1>3, <1>4, <2>1 DEF N!Deliver, PacketInv
<1>5. CASE N!Disturb
  <2>1. PICK p \in N!Strays : N!Arrive(p)
    BY <1>5 DEF N!Disturb
  <2>2. Genuine(p)
    BY <2>1 DEF N!Strays, N!Packet, Genuine
  <2>. QED BY <1>3, <1>5, <2>1, <2>2 DEF N!Disturb
<1>6. ASSUME NEW i \in N!Ring, N!Drop(i) PROVE AnswersInv'
  BY <1>2, <1>6 DEF N!Drop
<1>7. CASE UNCHANGED N!networkVars
  BY <1>2, <1>7 DEF N!networkVars, N!ring
<1>. QED BY <1>1, <1>4, <1>5, <1>6, <1>7 DEF N!Next

(* A task finds what it asked for as long as the ring has not gone round since the packet  *)
(* arrived: for any number of tasks that ask at once, any ring, and whatever else arrives. *)
THEOREM AnswersCorrect == N!ConstantsAssumption => (N!Spec => []AnswersAreOwn)
<1>. SUFFICES ASSUME N!ConstantsAssumption PROVE N!Spec => []AnswersAreOwn
  OBVIOUS
<1>1. N!Init => AnswersInv
  BY InitAnswers
<1>2. AnswersInv /\ [N!Next]_N!networkVars => AnswersInv'
  BY NextAnswers
<1>3. AnswersInv => AnswersAreOwn
  BY DEF AnswersInv, DoneInv, AnswersAreOwn, N!AnswersAreOwn
<1>. QED BY <1>1, <1>2, <1>3, PTL DEF N!Spec

-----------------------------------------------------------------------------

(* The fetch of a file. *)
FetchTypes ==
  /\ size \in Sizes /\ checksum \in {0, Trailer} /\ doubled \in Nat
  /\ sent \in [F!Fetches -> Int] /\ acked \in [F!Fetches -> {0, 1}] /\ missed \in [F!Fetches -> {0, 1}]
  /\ step \in F!Places /\ fetch \in F!Fetches

(* A block of the fetch is under way or was lost there; then what its process has sent was *)
(* not all taken.                                                                          *)
UnderWay == missed[fetch] = 1 \/ network # <<>>
Taken == IF UnderWay THEN sent[fetch] - 1 ELSE sent[fetch]

Reply == [fetch |-> fetch, block |-> sent[fetch]]

(* The process of the fetch waits for the client, and the client for it. *)
TurnInv ==
  /\ acked[fetch] = 1 => step = "block" /\ ~ UnderWay
  /\ step \in {"ask", "arp", "request"} => sent[fetch] = -1 /\ missed[fetch] = 0
  /\ step = "ask" => network = <<>>
  /\ step = "arp" => network \in {<<>>, <<F!ArpReply>>}
  /\ step = "request" => network = <<>>
  /\ step \in {"option", "block"} =>
       IF missed[fetch] = 1 THEN network = <<>>
       ELSE network \in {<<>>, <<Reply>>}
  /\ step = "option" => Taken = -1

(* What a full block counts, and which reads it is that are spoken of: those over a card *)
(* that takes the checksum off, and of files without a padded or empty block.            *)
Step == Full + checksum - Trailer
Told == checksum = 0 \/ F!Plain

(* What the client has taken has been counted and stored. *)
CountInv ==
  /\ step = "option" => foundsize = 0
  /\ step = "block" =>
       /\ peer = fetch
       /\ Taken \in 0 .. F!LastBlock /\ sent[fetch] <= F!LastBlock
       /\ Taken < F!LastBlock => foundsize = Taken * Step
  /\ loaded \in Seq(Nat) /\ \A b \in 1 .. Len(loaded) : loaded[b] = b
  /\ Len(loaded) = IF fetch = "load" /\ step = "block" THEN Taken ELSE 0

(* The other fetch has not begun, or is over. *)
OtherInv ==
  /\ fetch = "size" => sent["load"] = -1 /\ acked["load"] = 0 /\ missed["load"] = 0
  /\ fetch = "load" => sent["size"] = F!LastBlock /\ missed["size"] = 0 /\ expected = size

(* What a read that is over has come to. *)
EndInv == IF checksum = 0 THEN F!MadeUp ELSE result = F!File

(* All this holds while nothing that had arrived is sent again: a second copy is taken for *)
(* the next block.                                                                         *)
FetchInv ==
  /\ FetchTypes
  /\ Told /\ doubled = 0 =>
       IF step = "done" THEN EndInv ELSE TurnInv /\ CountInv /\ OtherInv

-----------------------------------------------------------------------------
(* The quotient and the remainder of a number. *)
LEMMA Division ==
  ASSUME NEW m \in Nat, NEW d \in Nat \ {0}
  PROVE  m \div d \in Nat /\ m % d \in 0 .. d - 1 /\ m = d * (m \div d) + (m % d)
OBVIOUS

LEMMA Blocks ==
  ASSUME F!ConstantsAssumption, FetchTypes
  PROVE  /\ size \in Nat /\ F!LastBlock \in Nat \ {0}
         /\ size = (F!LastBlock - 1) * Full + (size % Full)
         /\ size % Full \in 0 .. Full - 1
<1>1. size \in Nat /\ Full \in Nat \ {0}
  BY DEF F!ConstantsAssumption, FetchTypes
<1>. DEFINE k == size \div Full
<1>. DEFINE r == size % Full
<1>2. k \in Nat /\ r \in 0 .. Full - 1 /\ size = Full * k + r
  BY <1>1, Division
<1>3. F!LastBlock = k + 1
  BY DEF F!LastBlock
<1>. HIDE DEF k, r
<1>4. F!LastBlock - 1 = k /\ Full * k = k * Full /\ k * Full \in Nat
  BY <1>1, <1>2, <1>3
<1>5. F!LastBlock \in Nat \ {0}
  BY <1>2, <1>3
<1>6. size = (F!LastBlock - 1) * Full + r
  BY <1>2, <1>4
<1>. QED BY <1>1, <1>2, <1>5, <1>6 DEF r

(* A number of blocks that is smaller than another has at least a block less. *)
LEMMA Multiples ==
  ASSUME NEW m \in Nat, NEW d \in Nat, NEW n \in Nat, m < n
  PROVE  m * d + d <= n * d /\ m * d \in Nat /\ n * d \in Nat
<1>1. PICK i \in Nat : n = m + 1 + i
  <2>1. n - 1 - m \in Nat /\ n = m + 1 + (n - 1 - m)
    OBVIOUS
  <2>. QED BY <2>1
<1>2. n * d = m * d + d + i * d
  BY <1>1
<1>3. i * d \in Nat /\ m * d \in Nat
  OBVIOUS
<1>. QED BY <1>2, <1>3

(* The count of a full block. *)
LEMMA CountFull ==
  ASSUME F!ConstantsAssumption, FetchTypes, NEW n \in Nat, n + 1 < F!LastBlock
  PROVE  F!Counted(n + 1) = Step
<1>1. F!Length(n + 1) = Full /\ n + 1 # 0
  BY DEF F!Length
<1>2. ~ (Full < Pad)
  BY DEF F!ConstantsAssumption
<1>. QED BY <1>1, <1>2 DEF F!Counted, F!InFrame, Step

(* The count of the last one. *)
LEMMA CountLast ==
  ASSUME F!ConstantsAssumption, FetchTypes, NEW n \in Nat, n + 1 = F!LastBlock
  PROVE  /\ F!Length(F!LastBlock) = size % Full
         /\ F!Counted(n + 1) = (IF size % Full < Pad THEN Pad ELSE size % Full) + checksum - Trailer
<1>1. F!Length(n + 1) = size % Full /\ n + 1 # 0
  BY Blocks DEF F!Length
<1>2. F!InFrame(n + 1) = IF size % Full < Pad THEN Pad ELSE size % Full
  BY <1>1 DEF F!InFrame
<1>. QED BY <1>1, <1>2 DEF F!Counted

LEMMA StepType ==
  ASSUME F!ConstantsAssumption, FetchTypes
  PROVE  /\ Step \in Nat \ {0} /\ Step <= Full /\ Full \in Nat \ {0}
         /\ checksum = 0 => Step < Full
         /\ checksum # 0 => Step = Full
BY DEF F!ConstantsAssumption, FetchTypes, Step

(* The count does not reach the size before the last block. *)
LEMMA CountsBefore ==
  ASSUME F!ConstantsAssumption, FetchTypes, Told, NEW n \in Nat, n + 1 < F!LastBlock
  PROVE  n * Step + F!Counted(n + 1) = (n + 1) * Step /\ (n + 1) * Step # size
<1>. DEFINE r == size % Full
<1>. DEFINE L == F!LastBlock
<1>. DEFINE d == Step
<1>1. /\ d \in Nat \ {0} /\ d <= Full /\ Full \in Nat \ {0}
      /\ checksum = 0 => d < Full
  BY StepType
<1>2. size \in Nat /\ L \in Nat \ {0} /\ size = (L - 1) * Full + r /\ r \in 0 .. Full - 1
  BY Blocks
<1>3. n * d + F!Counted(n + 1) = (n + 1) * d
  <2>1. F!Counted(n + 1) = d
    BY CountFull
  <2>. HIDE DEF d
  <2>2. n * d + d = (n + 1) * d
    BY <1>1
  <2>. QED BY <2>1, <2>2
<1>4. checksum = 0 \/ r > 0
  BY <1>2 DEF Told, F!Plain, F!ConstantsAssumption
<1>5. n + 1 <= L - 1 /\ L - 1 \in Nat
  BY <1>2
<1>. HIDE DEF r, L, d
<1>6. PICK m \in Nat : m = L - 1
  BY <1>5
<1>7. (n + 1) * d \in Nat /\ (n + 1) * Full \in Nat /\ m * Full \in Nat
  BY <1>1
<1>8. (n + 1) * Full <= m * Full
  <2>1. CASE n + 1 = m
    BY <2>1, <1>7
  <2>2. CASE n + 1 # m
    <3>1. n + 1 < m
      BY <1>5, <1>6, <2>2
    <3>2. (n + 1) * Full + Full <= m * Full
      BY <1>1, <3>1, Multiples
    <3>. QED BY <1>1, <1>7, <3>2
  <2>. QED BY <2>1, <2>2
<1>9. PICK e \in Nat : Full = d + e /\ (checksum = 0 => e > 0)
  <2>1. Full - d \in Nat /\ Full = d + (Full - d) /\ (checksum = 0 => Full - d > 0)
    BY <1>1
  <2>. QED BY <2>1
<1>10. (n + 1) * Full = (n + 1) * d + (n * e + e) /\ n * e \in Nat
  BY <1>1, <1>9
<1>11. PICK g \in Nat : g = n * e
  BY <1>10
<1>12. (n + 1) * Full = (n + 1) * d + (g + e)
  BY <1>10, <1>11
<1>13. size = m * Full + r
  BY <1>2, <1>6
<1>14. (n + 1) * d # size
  BY <1>2, <1>4, <1>7, <1>8, <1>9, <1>12, <1>13
<1>. QED BY <1>3, <1>14 DEF d

(* Over a card that takes the checksum off it does with the last block if the padding makes up. *)
LEMMA CountsLast ==
  ASSUME F!ConstantsAssumption, FetchTypes, checksum = 0, NEW n \in Nat, n + 1 = F!LastBlock,
         n * Step + F!Counted(n + 1) = size
  PROVE  F!MadeUp
<1>. DEFINE r == size % Full
<1>0. Trailer \in Nat \ {0} /\ Pad \in Nat /\ Full \in Nat
  BY DEF F!ConstantsAssumption
<1>1. size = (F!LastBlock - 1) * Full + r /\ r \in Nat
  BY <1>0, Blocks
<1>2. F!LastBlock - 1 = n
  OBVIOUS
<1>3. F!Length(F!LastBlock) = r /\ F!Counted(n + 1) = (IF r < Pad THEN Pad ELSE r) + checksum - Trailer
  BY CountLast
<1>. HIDE DEF r
<1>4. size = n * Full + r
  BY <1>1, <1>2
<1>5. PICK c \in Nat : c = IF r < Pad THEN Pad ELSE r
  BY <1>0, <1>1
<1>6. n * Step + (c - Trailer) = n * Full + r
  BY <1>0, <1>3, <1>4, <1>5
<1>7. Step = Full - Trailer
  BY <1>0 DEF Step
<1>8. n * Step = n * Full - n * Trailer
  BY <1>0, <1>7
<1>9. n * Full \in Nat /\ n * Trailer \in Nat
  BY <1>0
<1>10. c - r = n * Trailer + Trailer
  BY <1>0, <1>1, <1>6, <1>8, <1>9
<1>11. r < Pad
  BY <1>0, <1>1, <1>5, <1>9, <1>10
<1>12. n * Trailer + Trailer = Trailer * (n + 1)
  BY <1>0
<1>. QED BY <1>3, <1>5, <1>10, <1>11, <1>12 DEF F!MadeUp

-----------------------------------------------------------------------------
LEMMA InitFetch == F!ConstantsAssumption /\ F!Init => FetchInv
BY DEF F!ConstantsAssumption, F!Init, FetchInv, FetchTypes, F!Places, F!Fetches, TurnInv, CountInv,
       OtherInv, UnderWay, Taken

LEMMA NextFetchTypes == FetchTypes /\ [F!Next]_F!vars => FetchTypes'
<1>. SUFFICES ASSUME FetchTypes, [F!Next]_F!vars PROVE FetchTypes'
  OBVIOUS
<1>. USE DEF FetchTypes, F!Fetches, F!Places, F!file, F!server, F!client
<1>1. CASE F!AskMac
  BY <1>1 DEF F!AskMac
<1>2. CASE F!AwaitMac
  BY <1>2 DEF F!AwaitMac
<1>3. CASE F!Request
  BY <1>3 DEF F!Request, F!Transmit
<1>4. CASE F!TakeOption
  BY <1>4 DEF F!TakeOption, F!Acknowledge
<1>5. CASE F!Unexpected
  BY <1>5 DEF F!Unexpected, F!Return
<1>6. CASE F!TakeBlock
  BY <1>6 DEF F!TakeBlock, F!Return, F!Acknowledge
<1>7. ASSUME NEW f \in F!Fetches, F!SendNext(f) PROVE FetchTypes'
  BY <1>7 DEF F!SendNext, F!Transmit
<1>8. ASSUME NEW f \in F!Fetches, F!SendAgain(f) PROVE FetchTypes'
  BY <1>8 DEF F!SendAgain, F!Transmit
<1>9. CASE UNCHANGED F!vars
  BY <1>9 DEF F!vars
<1>. QED BY <1>1, <1>2, <1>3, <1>4, <1>5, <1>6, <1>7, <1>8, <1>9 DEF F!Next, F!Client

TransferInv == TurnInv /\ CountInv /\ OtherInv

LEMMA NextFetch == F!ConstantsAssumption /\ FetchInv /\ [F!Next]_F!vars => FetchInv'
<1>. SUFFICES ASSUME F!ConstantsAssumption, FetchInv, [F!Next]_F!vars, Told', doubled' = 0
     PROVE  IF step' = "done" THEN EndInv' ELSE TransferInv'
  BY NextFetchTypes DEF FetchInv, TransferInv
<1>0. FetchTypes /\ size' = size /\ checksum' = checksum
  BY DEF F!file, FetchInv, F!Next, F!Client, F!AskMac, F!AwaitMac, F!Request, F!TakeOption, F!Unexpected,
         F!TakeBlock, F!SendNext, F!SendAgain, F!vars
<1>1. Told /\ doubled = 0
  <2>1. doubled' \in {doubled, doubled + 1}
    BY <1>0 DEF F!Next, F!Client, F!AskMac, F!AwaitMac, F!Request, F!TakeOption, F!Unexpected,
                F!TakeBlock, F!SendNext, F!SendAgain, F!vars
  <2>. QED BY <1>0, <2>1 DEF Told, F!Plain, FetchTypes
<1>2. CASE step = "done"
  <2>1. EndInv
    BY <1>1, <1>2 DEF FetchInv
  <2>2. step' = step /\ result' = result
    BY <1>2 DEF F!Next, F!Client, F!AskMac, F!AwaitMac, F!Request, F!TakeOption, F!Unexpected,
                F!TakeBlock, F!SendNext, F!SendAgain, F!vars, F!client
  <2>. QED BY <1>0, <1>2, <2>1, <2>2 DEF EndInv, F!MadeUp, F!Length, F!File, F!LastBlock
<1>3. CASE step # "done"
  <2>0. TurnInv /\ CountInv /\ OtherInv
    BY <1>1, <1>3 DEF FetchInv
  <2>. USE DEF FetchTypes, F!Fetches, F!Places, F!file, F!server, F!client
  <2>1. CASE F!AskMac
    BY <1>0, <2>0, <2>1 DEF F!AskMac, TransferInv, TurnInv, CountInv, OtherInv, UnderWay, Taken,
                            Step, F!LastBlock, F!ArpReply
  <2>2. CASE F!AwaitMac
    <3>1. step = "arp" /\ network = <<F!ArpReply>>
      BY <2>0, <2>2 DEF F!AwaitMac, TurnInv
    <3>2. network' = <<>> /\ step' = "request"
      BY <2>2, <3>1 DEF F!AwaitMac
    <3>. QED BY <1>0, <2>0, <2>2, <3>1, <3>2
         DEF F!AwaitMac, TransferInv, TurnInv, CountInv, OtherInv, UnderWay, Taken, Step, F!LastBlock
  <2>3. CASE F!Request
    <3>1. /\ step = "request" /\ step' = "option" /\ fetch' = fetch
          /\ sent[fetch] = -1 /\ missed[fetch] = 0 /\ acked[fetch] = 0 /\ network = <<>>
      BY <1>0, <2>0, <2>3 DEF F!Request, TurnInv
    <3>2. \/ F!Transmit(fetch, 0)
          \/ UNCHANGED <<sent, acked, missed, network>>
      BY <2>3 DEF F!Request
    <3>3. /\ acked'[fetch] = 0
          /\ \/ sent'[fetch] = -1 /\ missed'[fetch] = 0 /\ network' = <<>>
             \/ sent'[fetch] = 0 /\ missed'[fetch] = 1 /\ network' = <<>>
             \/ sent'[fetch] = 0 /\ missed'[fetch] = 0 /\ network' = <<[fetch |-> fetch, block |-> 0]>>
      BY <1>0, <3>1, <3>2 DEF F!Transmit
    <3>4. TurnInv'
      BY <3>1, <3>3 DEF TurnInv, UnderWay, Taken, Reply
    <3>5. CountInv'
      BY <1>0, <2>0, <2>3, <3>1 DEF CountInv, F!Request
    <3>6. \A f \in {"size", "load"} \ {fetch} : sent'[f] = sent[f] /\ acked'[f] = acked[f] /\ missed'[f] = missed[f]
      BY <1>0, <3>2 DEF F!Transmit
    <3>7. OtherInv'
      BY <1>0, <2>0, <2>3, <3>1, <3>6 DEF OtherInv, F!LastBlock, F!Request
    <3>. QED BY <3>1, <3>4, <3>5, <3>7 DEF TransferInv
  <2>4. CASE F!TakeOption
    <3>1. /\ network = <<Reply>> /\ missed[fetch] = 0 /\ sent[fetch] = 0
      BY <1>0, <2>0, <2>4 DEF F!TakeOption, TurnInv, UnderWay, Taken
    <3>2. /\ network' = <<>> /\ peer' = fetch /\ step' = "block" /\ step = "option"
          /\ UNCHANGED <<sent, missed, fetch, foundsize, expected, loaded>>
      BY <2>4, <3>1 DEF F!TakeOption, Reply
    <3>3. acked' \in {acked, [acked EXCEPT ![fetch] = 1]}
      BY <1>0, <2>4, <3>1 DEF F!TakeOption, F!Acknowledge, Reply
    <3>4. ~ UnderWay' /\ Taken' = 0
      BY <3>1, <3>2 DEF UnderWay, Taken
    <3>5. TurnInv'
      BY <3>1, <3>2, <3>4 DEF TurnInv
    <3>6. foundsize = 0
      BY <2>0, <3>2 DEF CountInv
    <3>7. CountInv'
      <4>1. F!LastBlock' = F!LastBlock /\ F!LastBlock \in Nat \ {0} /\ Step' = Step /\ 0 * Step = 0
        BY <1>0, Blocks, StepType DEF F!LastBlock, Step
      <4>2. Len(loaded) = 0
        BY <2>0, <3>2 DEF CountInv
      <4>. QED BY <2>0, <3>1, <3>2, <3>4, <3>6, <4>1, <4>2 DEF CountInv
    <3>8. OtherInv'
      BY <1>0, <2>0, <3>2, <3>3 DEF OtherInv, F!LastBlock
    <3>. QED BY <3>2, <3>5, <3>7, <3>8 DEF TransferInv
  <2>5. CASE F!Unexpected
    BY <1>0, <2>0, <2>5 DEF F!Unexpected, TurnInv, UnderWay, Taken, Reply
  <2>6. CASE F!TakeBlock
    <3>. DEFINE n == Taken
    <3>1. /\ step = "block" /\ network = <<Reply>> /\ missed[fetch] = 0 /\ acked[fetch] = 0
          /\ sent[fetch] = n + 1
      BY <1>0, <2>0, <2>6 DEF F!TakeBlock, TurnInv, UnderWay, Taken
    <3>2. /\ n \in Nat /\ n < F!LastBlock /\ F!LastBlock \in Nat
          /\ peer = fetch /\ foundsize = n * Step
      BY <1>0, <2>0, <3>1, Blocks DEF CountInv
    <3>3. Head(network).block = n + 1 /\ network' = <<>>
      BY <2>6, <3>1 DEF F!TakeBlock, Reply
    <3>. HIDE DEF n
    <3>4. /\ foundsize' = n * Step + F!Counted(n + 1)
          /\ loaded' = IF fetch = "load" THEN Append(loaded, n + 1) ELSE loaded
          /\ UNCHANGED <<sent, missed, peer>>
      BY <2>6, <3>2, <3>3 DEF F!TakeBlock
    <3>5. acked' \in {acked, [acked EXCEPT ![fetch] = 1]}
      BY <2>6, <3>2 DEF F!TakeBlock, F!Acknowledge
    <3>6. /\ loaded' \in Seq(Nat) /\ \A b \in 1 .. Len(loaded') : loaded'[b] = b
          /\ Len(loaded') = IF fetch = "load" THEN n + 1 ELSE 0
      <4>1. /\ loaded \in Seq(Nat) /\ \A b \in 1 .. Len(loaded) : loaded[b] = b
            /\ Len(loaded) = IF fetch = "load" THEN n ELSE 0
        BY <2>0, <3>1 DEF CountInv, n
      <4>. QED BY <3>2, <3>4, <4>1
    <3>7. CASE foundsize' = size
      <4>1. n + 1 = F!LastBlock /\ F!Return(size, loaded')
        <5>1. ~ (n + 1 < F!LastBlock)
          BY <1>0, <1>1, <3>2, <3>4, <3>7, CountsBefore
        <5>. QED BY <2>6, <3>2, <3>7, <5>1 DEF F!TakeBlock
      <4>2. CASE fetch = "size"
        <5>1. expected' = size /\ fetch' = "load" /\ step' = "ask"
          BY <4>1, <4>2 DEF F!Return
        <5>2. sent'["load"] = -1 /\ acked'["load"] = 0 /\ missed'["load"] = 0
          BY <1>0, <2>0, <3>4, <3>5, <4>2 DEF OtherInv
        <5>3. TurnInv'
          BY <3>3, <5>1, <5>2 DEF TurnInv
        <5>4. CountInv'
          BY <3>6, <4>2, <5>1 DEF CountInv
        <5>5. OtherInv'
          BY <1>0, <3>1, <3>4, <4>1, <4>2, <5>1 DEF OtherInv, F!LastBlock
        <5>. QED BY <5>1, <5>3, <5>4, <5>5 DEF TransferInv
      <4>3. CASE fetch = "load"
        <5>1. expected = size /\ step' = "done"
          BY <2>0, <4>1, <4>3 DEF OtherInv, F!Return
        <5>2. CASE checksum = 0
          <6>1. F!MadeUp
            BY <1>0, <3>2, <3>4, <3>7, <4>1, <5>2, CountsLast
          <6>. QED BY <1>0, <5>1, <5>2, <6>1 DEF EndInv, F!MadeUp, F!Length, F!LastBlock
        <5>3. CASE checksum # 0
          <6>1. size # 0
            <7>1. size % Full >= Pad /\ size % Full <= size /\ Pad > 0
              BY <1>0, <1>1, <5>3, Blocks DEF Told, F!Plain, F!ConstantsAssumption
            <7>. QED BY <1>0, <7>1, Blocks DEF F!ConstantsAssumption
          <6>2. result' = loaded'
            BY <4>1, <4>3, <5>1, <6>1 DEF F!Return
          <6>3. loaded' = [b \in 1 .. F!LastBlock |-> b]
            BY <3>2, <3>6, <4>1, <4>3
          <6>4. (result = F!File)'
            BY <1>0, <6>2, <6>3 DEF F!File, F!LastBlock
          <6>. QED BY <1>0, <5>1, <5>3, <6>4 DEF EndInv
        <5>. QED BY <5>2, <5>3
      <4>. QED BY <1>0, <4>2, <4>3
    <3>8. CASE foundsize' # size
      <4>1. n + 1 < F!LastBlock => foundsize' = (n + 1) * Step
        BY <1>0, <1>1, <3>2, <3>4, CountsBefore
      <4>2. UNCHANGED <<step, fetch, expected, result>>
        BY <2>6, <3>8 DEF F!TakeBlock
      <4>3. ~ UnderWay' /\ Taken' = n + 1
        <5>1. missed'[fetch'] = 0 /\ network' = <<>> /\ sent'[fetch'] = n + 1
          BY <3>1, <3>3, <3>4, <4>2
        <5>. QED BY <5>1 DEF UnderWay, Taken
      <4>4. TurnInv'
        BY <3>1, <3>3, <3>4, <4>2, <4>3 DEF TurnInv
      <4>5. CountInv'
        <5>1. F!LastBlock' = F!LastBlock /\ Step' = Step
          BY <1>0 DEF F!LastBlock, Step
        <5>. QED BY <3>1, <3>2, <3>4, <3>6, <4>1, <4>2, <4>3, <5>1 DEF CountInv
      <4>6. OtherInv'
        BY <1>0, <2>0, <3>4, <3>5, <4>2 DEF OtherInv, F!LastBlock
      <4>. QED BY <3>1, <4>2, <4>4, <4>5, <4>6 DEF TransferInv
    <3>. QED BY <3>7, <3>8
  <2>7. ASSUME NEW f \in F!Fetches, F!SendNext(f) PROVE TransferInv' /\ step' # "done"
    <3>0. UNCHANGED <<step, fetch, peer, foundsize, expected, loaded>>
      BY <2>7 DEF F!SendNext
    <3>1. f = fetch
      BY <1>0, <2>0, <2>7 DEF F!SendNext, OtherInv
    <3>2. step = "block" /\ ~ UnderWay /\ missed[fetch] = 0 /\ network = <<>>
      BY <1>0, <2>0, <2>7, <3>1 DEF F!SendNext, TurnInv, UnderWay
    <3>3. F!Transmit(fetch, sent[fetch] + 1)
      BY <2>7, <3>1 DEF F!SendNext
    <3>4. /\ acked'[fetch] = 0 /\ sent'[fetch] = sent[fetch] + 1
          /\ \/ missed'[fetch] = 1 /\ network' = <<>>
             \/ missed'[fetch] = 0 /\ network' = <<[fetch |-> fetch, block |-> sent[fetch] + 1]>>
      BY <1>0, <3>2, <3>3 DEF F!Transmit
    <3>5. UnderWay' /\ Taken' = Taken
      BY <1>0, <3>0, <3>2, <3>4 DEF UnderWay, Taken
    <3>6. TurnInv'
      BY <3>0, <3>2, <3>4 DEF TurnInv, Reply
    <3>7. CountInv'
      BY <1>0, <2>0, <2>7, <3>0, <3>1, <3>2, <3>4, <3>5, Blocks DEF CountInv, Step, F!LastBlock, F!SendNext
    <3>8. \A g \in {"size", "load"} \ {fetch} : sent'[g] = sent[g] /\ acked'[g] = acked[g] /\ missed'[g] = missed[g]
      BY <1>0, <3>3 DEF F!Transmit
    <3>9. OtherInv'
      BY <1>0, <2>0, <3>0, <3>8 DEF OtherInv, F!LastBlock
    <3>. QED BY <3>0, <3>2, <3>6, <3>7, <3>9 DEF TransferInv
  <2>8. ASSUME NEW f \in F!Fetches, F!SendAgain(f) PROVE TransferInv' /\ step' # "done"
    <3>0. UNCHANGED <<step, fetch, peer, foundsize, expected, loaded>>
      BY <2>8 DEF F!SendAgain
    <3>1. missed[f] = 1
      BY <1>1, <2>8 DEF F!SendAgain
    <3>2. f = fetch
      BY <1>0, <2>0, <3>1 DEF OtherInv
    <3>3. step \in {"option", "block"} /\ network = <<>>
      BY <1>0, <1>3, <2>0, <3>1, <3>2 DEF TurnInv
    <3>4. F!Transmit(fetch, sent[fetch])
      BY <2>8, <3>2 DEF F!SendAgain
    <3>5. /\ acked'[fetch] = 0 /\ sent'[fetch] = sent[fetch]
          /\ \/ missed'[fetch] = 1 /\ network' = <<>>
             \/ missed'[fetch] = 0 /\ network' = <<[fetch |-> fetch, block |-> sent[fetch]]>>
      BY <1>0, <3>3, <3>4 DEF F!Transmit
    <3>6. UnderWay' /\ Taken' = Taken
      <4>0. <<[fetch |-> fetch, block |-> sent[fetch]]>> # <<>>
        OBVIOUS
      <4>a. missed'[fetch] = 1 \/ network' # <<>>
        <5>1. CASE missed'[fetch] = 1
          BY <5>1
        <5>2. CASE network' = <<[fetch |-> fetch, block |-> sent[fetch]]>>
          BY <5>2, <4>0
        <5>. QED BY <3>5, <5>1, <5>2
      <4>1. missed'[fetch'] = 1 \/ network' # <<>>
        BY <3>0, <4>a
      <4>2. UnderWay /\ UnderWay'
        BY <3>1, <3>2, <4>1 DEF UnderWay
      <4>. QED BY <3>0, <3>5, <4>2 DEF Taken
    <3>7. TurnInv'
      BY <2>0, <3>0, <3>3, <3>5, <3>6 DEF TurnInv, Reply
    <3>8. CountInv'
      BY <1>0, <2>0, <3>0, <3>5, <3>6 DEF CountInv, Step, F!LastBlock
    <3>9. \A g \in {"size", "load"} \ {fetch} : sent'[g] = sent[g] /\ acked'[g] = acked[g] /\ missed'[g] = missed[g]
      BY <1>0, <3>4 DEF F!Transmit
    <3>10. OtherInv'
      BY <1>0, <2>0, <3>0, <3>9 DEF OtherInv, F!LastBlock
    <3>. QED BY <3>0, <3>3, <3>7, <3>8, <3>10 DEF TransferInv
  <2>9. CASE UNCHANGED F!vars
    <3>1. TurnInv'
      BY <2>0, <2>9 DEF F!vars, TurnInv, UnderWay, Taken, Reply
    <3>2. CountInv'
      BY <2>0, <2>9 DEF F!vars, CountInv, UnderWay, Taken, Step, F!LastBlock
    <3>3. OtherInv'
      BY <2>0, <2>9 DEF F!vars, OtherInv, F!LastBlock
    <3>. QED BY <1>3, <2>9, <3>1, <3>2, <3>3 DEF TransferInv, F!vars
  <2>. QED BY <2>1, <2>2, <2>3, <2>4, <2>5, <2>6, <2>7, <2>8, <2>9 DEF F!Next, F!Client
<1>. QED BY <1>2, <1>3

LEMMA FetchInvariant == F!ConstantsAssumption => (F!Spec => []FetchInv)
<1>. SUFFICES ASSUME F!ConstantsAssumption PROVE F!Spec => []FetchInv
  OBVIOUS
<1>1. F!Init => FetchInv
  BY InitFetch
<1>2. FetchInv /\ [F!Next]_F!vars => FetchInv'
  BY NextFetch
<1>. QED BY <1>1, <1>2, PTL DEF F!Spec

(* What tftp_read gives is the file, whatever the length of the file and of a block, over a *)
(* card that leaves the checksum in the length of a frame, if the last block is neither     *)
(* padded nor empty and nothing that had arrived was sent again.                            *)
THEOREM ReadsCorrect == F!ConstantsAssumption => (F!Spec => []ReadIsExact)
<1>. SUFFICES ASSUME F!ConstantsAssumption PROVE F!Spec => []ReadIsExact
  OBVIOUS
<1>1. FetchInv => ReadIsExact
  BY DEF FetchInv, EndInv, Told, ReadIsExact, F!ReadIsExact, F!ConstantsAssumption
<1>. QED BY <1>1, FetchInvariant, PTL

(* Over a card that takes the checksum off, tftp_read returns with no file but those whose  *)
(* padding makes up for what each block is counted short.                                   *)
THEOREM ShortCountsCorrect == F!ConstantsAssumption => (F!Spec => []ShortCountsDoNotEnd)
<1>. SUFFICES ASSUME F!ConstantsAssumption PROVE F!Spec => []ShortCountsDoNotEnd
  OBVIOUS
<1>1. FetchInv => ShortCountsDoNotEnd
  BY DEF FetchInv, EndInv, Told, ShortCountsDoNotEnd, F!ShortCountsDoNotEnd
<1>. QED BY <1>1, FetchInvariant, PTL
=============================================================================
