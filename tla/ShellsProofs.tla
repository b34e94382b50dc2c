----------------------------- MODULE ShellsProofs -----------------------------
(***************************************************************************)
(* Proofs about what shells and their programs do: SystemCalls, for any    *)
(* number of tasks, files, descriptors and writes; Tcp, for any number of  *)
(* sessions, messages and repetitions; Programs, for any number of shells, *)
(* and programs and memory of any size; Sxe, for any number of             *)
(* interpreters, programs and calls.                                       *)
(***************************************************************************)
EXTENDS Shells, FiniteSetTheorems, WellFoundedInduction, TLAPS

(* Which calls are at which places, and how many registers have been moved there. *)
PlacesOK ==
  \A t \in Tasks :
    /\ pc[t] \in FilePlaces => call[t].name \in Names
    /\ pc[t] \in {"opensize", "openread", "size", "old"} => call[t].mode = "read"
    /\ pc[t] = "store" /\ call[t].mode = "write" => call[t].size = 0
    /\ pc[t] \in {"clear", "keys"} => count[t] = 0
    /\ pc[t] = "restore" => count[t] <= 2

TypeInv == TypeOK /\ PlacesOK

-----------------------------------------------------------------------------
LEMMA ContentsFact ==
  ASSUME TypeInv, NEW t \in Tasks
  PROVE  /\ NewContents(t) \in Contents
         /\ Len(NewContents(t)) = call[t].size + 1
<1>1. call[t] \in Calls BY DEF TypeInv, TypeOK
<1>2. call[t].size \in Nat /\ call[t].byte \in Bytes /\ call[t].buffer \in Seq(Bytes)
  BY <1>1 DEF Calls, Contents
<1>3. Junk \in Bytes BY BoundAssumption DEF Junk, Bytes
<1>4. NewContents(t) \in [1 .. call[t].size + 1 -> Bytes]
  <2>. SUFFICES ASSUME NEW i \in 1 .. call[t].size + 1
                PROVE  (CASE i > call[t].size -> call[t].byte
                          [] i <= call[t].size /\ i <= Len(call[t].buffer) -> call[t].buffer[i]
                          [] OTHER -> Junk) \in Bytes
    BY DEF NewContents
  <2>1. CASE i > call[t].size BY <2>1, <1>2
  <2>2. CASE i <= call[t].size /\ i <= Len(call[t].buffer)
    <3>1. call[t].buffer[i] \in Bytes BY <2>2, <1>2
    <3>. QED BY <3>1, <2>2, <1>2
  <2>3. CASE i <= call[t].size /\ ~(i <= Len(call[t].buffer)) BY <2>3, <1>2, <1>3
  <2>. QED BY <2>1, <2>2, <2>3, <1>2
<1>. QED BY <1>2, <1>4 DEF Contents

LEMMA TypeInit == Init => TypeInv
<1>. SUFFICES ASSUME Init PROVE TypeInv OBVIOUS
<1>1. Junk \in Bytes /\ 0 \in Bytes BY BoundAssumption DEF Junk, Bytes
<1>2. <<>> \in Contents /\ <<Junk>> \in Contents BY <1>1 DEF Contents
<1>3. NoCall \in Calls BY <1>1, <1>2 DEF NoCall, Calls, Modes
<1>4. Unused \in Descriptors BY <1>1, <1>2 DEF Unused, Descriptors, Modes
<1>5. disk \in [Names -> Contents] BY <1>2 DEF Init
<1>6. TypeOK BY <1>3, <1>4, <1>5, BoundAssumption DEF Init, TypeOK
<1>7. PlacesOK BY DEF Init, PlacesOK, FilePlaces
<1>. QED BY <1>6, <1>7 DEF TypeInv

(* A step of t that leaves the calls of the others where they are. *)
LEMMA CallStep ==
  ASSUME TypeInv, NEW t \in Tasks, NEW c \in Calls, NEW spot,
         call' = [call EXCEPT ![t] = c], Goto(t, spot), UNCHANGED count,
         spot \in {"program"} \cup FilePlaces,
         spot \in FilePlaces => c.name \in Names,
         spot \in {"opensize", "openread", "size", "old"} => c.mode = "read",
         spot = "store" /\ c.mode = "write" => c.size = 0
  PROVE  /\ call' \in [Tasks -> Calls]
         /\ pc' \in [Tasks -> {"program", "astray"} \cup FilePlaces \cup LinePlaces]
         /\ PlacesOK'
<1>1. pc' \in [Tasks -> {"program", "astray"} \cup FilePlaces \cup LinePlaces]
  BY DEF TypeInv, TypeOK, Goto
<1>2. call' \in [Tasks -> Calls] BY DEF TypeInv, TypeOK
<1>3. \A u \in Tasks : pc'[u] = (IF u = t THEN spot ELSE pc[u])
                    /\ call'[u] = (IF u = t THEN c ELSE call[u])
  BY DEF TypeInv, TypeOK, Goto
<1>4. PlacesOK' BY <1>3 DEF TypeInv, PlacesOK, FilePlaces
<1>. QED BY <1>1, <1>2, <1>4

LEMMA OpenedFact ==
  ASSUME TypeInv, NEW t \in Tasks, pc[t] = "openslot"
  PROVE  Opened(t) \in Descriptors
<1>1. call[t] \in Calls BY DEF TypeInv, TypeOK
<1>. QED BY <1>1 DEF Opened, Calls, Descriptors

LEMMA NoCallFact == NoCall \in Calls
<1>1. Junk \in Bytes /\ <<>> \in Contents BY BoundAssumption DEF Junk, Bytes, Contents
<1>. QED BY <1>1 DEF NoCall, Calls, Modes

LEMMA FileTypes ==
  ASSUME TypeInv, NEW t \in Tasks, FileCall(t)
  PROVE  TypeInv'
<1>0. TypeOK /\ PlacesOK /\ call[t] \in Calls BY DEF TypeInv, TypeOK
<1>n. NoCall \in Calls /\ NoCall.size = 0 /\ NoCall.mode = "read" BY NoCallFact DEF NoCall
<1>e. <<>> \in Contents BY DEF Contents
<1>d. \A f \in Names : disk[f] \in Contents /\ Len(disk[f]) \in Nat
  BY <1>0 DEF TypeOK, Contents
<1>1. ASSUME NEW f \in Names, NEW mode \in Modes, Open(t, f, mode) PROVE TypeInv'
  <2>1. PICK c : c = [NoCall EXCEPT !.name = f, !.mode = mode] OBVIOUS
  <2>2. c \in Calls /\ c.name = f /\ c.mode = mode /\ c.size = 0
    BY <2>1, <1>n DEF Calls, NoCall
  <2>3. PICK spot : spot = IF mode = "read" THEN "opensize" ELSE "openslot" OBVIOUS
  <2>4. call' = [call EXCEPT ![t] = c] /\ Goto(t, spot) /\ UNCHANGED count
    BY <1>1, <2>1, <2>3 DEF Open, Goto, lineVars
  <2>5. /\ call' \in [Tasks -> Calls] /\ PlacesOK'
        /\ pc' \in [Tasks -> {"program", "astray"} \cup FilePlaces \cup LinePlaces]
    BY <2>2, <2>3, <2>4, CallStep DEF FilePlaces
  <2>. QED BY <1>0, <1>1, <2>5 DEF Open, TypeInv, TypeOK, lineVars
<1>2. ASSUME OpenSize(t) PROVE TypeInv'
  <2>0. call[t].name \in Names /\ call[t].mode = "read"
    BY <1>0, <1>2 DEF OpenSize, PlacesOK, FilePlaces
  <2>1. PICK size \in {0, Len(disk[call[t].name])} :
          IF size = 0
          THEN call' = [call EXCEPT ![t] = NoCall] /\ Goto(t, "program")
          ELSE call' = [call EXCEPT ![t].size = size] /\ Goto(t, "openread")
    BY <1>2 DEF OpenSize
  <2>2. size \in Nat BY <1>d, <2>0
  <2>3. UNCHANGED count BY <1>2 DEF OpenSize, lineVars
  <2>4. /\ call' \in [Tasks -> Calls] /\ PlacesOK'
        /\ pc' \in [Tasks -> {"program", "astray"} \cup FilePlaces \cup LinePlaces]
    <3>1. CASE size = 0 BY <3>1, <2>1, <2>3, <1>n, CallStep DEF FilePlaces
    <3>2. CASE size # 0
      <4>1. PICK c : c = [call[t] EXCEPT !.size = size] OBVIOUS
      <4>2. c \in Calls /\ c.name \in Names /\ c.mode = "read"
        BY <4>1, <1>0, <2>0, <2>2 DEF Calls
      <4>3. call' = [call EXCEPT ![t] = c] /\ Goto(t, "openread") BY <3>2, <2>1, <4>1
      <4>. QED BY <4>2, <4>3, <2>3, CallStep DEF FilePlaces
    <3>. QED BY <3>1, <3>2
  <2>. QED BY <1>0, <1>2, <2>4 DEF OpenSize, TypeInv, TypeOK, lineVars
<1>3. ASSUME NEW spot \in {"openread", "old"}, NEW next \in {"openslot", "store"},
             ReadCopy(t, spot, next)
      PROVE  TypeInv'
  <2>0. call[t].name \in Names /\ call[t].mode = "read"
    BY <1>0, <1>3 DEF ReadCopy, PlacesOK, FilePlaces
  <2>1. PICK b \in {disk[call[t].name], <<>>} : call' = [call EXCEPT ![t].buffer = b]
    BY <1>3 DEF ReadCopy
  <2>2. PICK c : c = [call[t] EXCEPT !.buffer = b] OBVIOUS
  <2>3. c \in Calls /\ c.name \in Names /\ c.mode = "read"
    BY <2>2, <1>0, <1>d, <1>e, <2>0 DEF Calls
  <2>4. call' = [call EXCEPT ![t] = c] /\ Goto(t, next) /\ UNCHANGED count
    BY <1>3, <2>1, <2>2 DEF ReadCopy, lineVars
  <2>5. /\ call' \in [Tasks -> Calls] /\ PlacesOK'
        /\ pc' \in [Tasks -> {"program", "astray"} \cup FilePlaces \cup LinePlaces]
    BY <2>3, <2>4, CallStep DEF FilePlaces
  <2>6. stale' \subseteq Tasks BY <1>3, <1>0 DEF ReadCopy, TypeOK
  <2>. QED BY <1>0, <1>3, <2>5, <2>6 DEF ReadCopy, TypeInv, TypeOK, lineVars
<1>4. ASSUME TakeSlot(t) PROVE TypeInv'
  <2>1. Opened(t) \in Descriptors BY <1>4, OpenedFact DEF TakeSlot
  <2>2. files' \in [Tasks -> [Slots -> Descriptors]]
    <3>1. CASE UNCHANGED files BY <3>1, <1>0 DEF TypeOK
    <3>2. CASE \E s : files' = [files EXCEPT ![t][s] = Opened(t)]
      <4>1. PICK s : files' = [files EXCEPT ![t][s] = Opened(t)] BY <3>2
      <4>2. files[t] \in [Slots -> Descriptors] BY <1>0 DEF TypeOK
      <4>3. [files[t] EXCEPT ![s] = Opened(t)] \in [Slots -> Descriptors] BY <4>2, <2>1
      <4>4. files' = [files EXCEPT ![t] = [files[t] EXCEPT ![s] = Opened(t)]] BY <4>1
      <4>. QED BY <4>3, <4>4, <1>0 DEF TypeOK
    <3>. QED BY <1>4, <3>1, <3>2 DEF TakeSlot
  <2>3. call' = [call EXCEPT ![t] = NoCall] /\ Goto(t, "program") /\ UNCHANGED count
    BY <1>4 DEF TakeSlot, lineVars
  <2>4. /\ call' \in [Tasks -> Calls] /\ PlacesOK'
        /\ pc' \in [Tasks -> {"program", "astray"} \cup FilePlaces \cup LinePlaces]
    BY <2>3, <1>n, CallStep DEF FilePlaces
  <2>. QED BY <1>0, <1>4, <2>2, <2>4 DEF TakeSlot, TypeInv, TypeOK, lineVars
<1>5. ASSUME NEW s \in Slots, Close(t, s) PROVE TypeInv'
  <2>1. files' = [files EXCEPT ![t][s].available = 0] BY <1>5 DEF Close
  <2>2. files[t][s] \in Descriptors BY <1>0 DEF TypeOK
  <2>3. [files[t][s] EXCEPT !.available = 0] \in Descriptors BY <2>2 DEF Descriptors
  <2>4. files' \in [Tasks -> [Slots -> Descriptors]] BY <1>0, <2>1, <2>3 DEF TypeOK
  <2>5. PlacesOK' BY <1>0, <1>5 DEF Close, PlacesOK, lineVars
  <2>. QED BY <1>0, <1>5, <2>4, <2>5 DEF Close, TypeInv, TypeOK, lineVars
<1>6. ASSUME NEW s \in Slots, Write(t, s) PROVE TypeInv'
  <2>1. files[t][s] \in Descriptors BY <1>0 DEF TypeOK
  <2>2. files[t][s].name \in Names /\ files[t][s].mode \in Modes
    BY <2>1, <1>6 DEF Write, Descriptors
  <2>3. writes + 1 \in Bytes /\ writes' \in 0 .. MaxWrites
    BY <1>0, <1>6, BoundAssumption DEF Write, TypeOK, Bytes
  <2>4. PICK c : c = [NoCall EXCEPT !.name = files[t][s].name, !.mode = files[t][s].mode,
                                    !.byte = writes + 1] OBVIOUS
  <2>5. c \in Calls /\ c.name \in Names /\ c.mode = files[t][s].mode /\ c.size = 0
    BY <2>2, <2>3, <2>4, <1>n DEF Calls, NoCall
  <2>6. PICK spot : spot = IF files[t][s].mode = "read" THEN "size" ELSE "store" OBVIOUS
  <2>7. call' = [call EXCEPT ![t] = c] /\ Goto(t, spot) /\ UNCHANGED count
    BY <1>6, <2>4, <2>6 DEF Write, Goto, lineVars
  <2>8. /\ call' \in [Tasks -> Calls] /\ PlacesOK'
        /\ pc' \in [Tasks -> {"program", "astray"} \cup FilePlaces \cup LinePlaces]
    BY <2>5, <2>6, <2>7, CallStep DEF FilePlaces
  <2>. QED BY <1>0, <1>6, <2>3, <2>8 DEF Write, TypeInv, TypeOK, lineVars
<1>7. ASSUME SizeOfOld(t) PROVE TypeInv'
  <2>0. call[t].name \in Names /\ call[t].mode = "read"
    BY <1>0, <1>7 DEF SizeOfOld, PlacesOK, FilePlaces
  <2>1. Len(disk[call[t].name]) \in Nat BY <1>d, <2>0
  <2>2. PICK c \in Calls : c.name \in Names /\ c.mode = "read" /\ call' = [call EXCEPT ![t] = c]
    <3>1. CASE call' = [call EXCEPT ![t].size = Len(disk[call[t].name])]
      <4>1. PICK c : c = [call[t] EXCEPT !.size = Len(disk[call[t].name])] OBVIOUS
      <4>2. c \in Calls /\ c.name \in Names /\ c.mode = "read" /\ call' = [call EXCEPT ![t] = c]
        BY <3>1, <4>1, <1>0, <2>0, <2>1 DEF Calls
      <4>. QED BY <4>2
    <3>2. CASE UNCHANGED call
      <4>1. call' = [call EXCEPT ![t] = call[t]] BY <3>2, <1>0 DEF TypeOK
      <4>. QED BY <4>1, <1>0, <2>0
    <3>. QED BY <1>7, <3>1, <3>2 DEF SizeOfOld
  <2>3. Goto(t, "old") /\ UNCHANGED count BY <1>7 DEF SizeOfOld, lineVars
  <2>4. /\ call' \in [Tasks -> Calls] /\ PlacesOK'
        /\ pc' \in [Tasks -> {"program", "astray"} \cup FilePlaces \cup LinePlaces]
    BY <2>2, <2>3, CallStep DEF FilePlaces
  <2>5. stale' \subseteq Tasks BY <1>7, <1>0 DEF SizeOfOld, TypeOK
  <2>. QED BY <1>0, <1>7, <2>4, <2>5 DEF SizeOfOld, TypeInv, TypeOK, lineVars
<1>8. ASSUME Store(t) \/ StoreFails(t) PROVE TypeInv'
  <2>0. pc[t] = "store" /\ call[t].name \in Names
    BY <1>0, <1>8 DEF Store, StoreFails, PlacesOK, FilePlaces
  <2>1. StoreEnds(t) BY <1>8 DEF Store, StoreFails
  <2>2. call' = [call EXCEPT ![t] = NoCall] /\ Goto(t, "program") /\ UNCHANGED count
    BY <2>1 DEF StoreEnds, lineVars
  <2>3. /\ call' \in [Tasks -> Calls] /\ PlacesOK'
        /\ pc' \in [Tasks -> {"program", "astray"} \cup FilePlaces \cup LinePlaces]
    BY <2>2, <1>n, CallStep DEF FilePlaces
  <2>4. stale' \subseteq Tasks BY <2>1, <1>0 DEF StoreEnds, Using, TypeOK
  <2>5. NewContents(t) \in Contents BY ContentsFact
  <2>6. disk' \in [Names -> Contents]
    <3>1. CASE disk' = [disk EXCEPT ![call[t].name] = NewContents(t)]
      BY <3>1, <2>5, <1>0 DEF TypeOK
    <3>2. CASE disk' = [disk EXCEPT ![call[t].name] = [i \in DOMAIN NewContents(t) |-> Junk]]
      <4>1. Junk \in Bytes BY BoundAssumption DEF Junk, Bytes
      <4>2. [i \in DOMAIN NewContents(t) |-> Junk] \in Contents BY <4>1, <2>5 DEF Contents
      <4>. QED BY <3>2, <4>2, <1>0 DEF TypeOK
    <3>3. CASE UNCHANGED disk BY <3>3, <1>0 DEF TypeOK
    <3>. QED BY <1>8, <3>1, <3>2, <3>3 DEF Store, StoreFails
  <2>7. history' \in [Names -> Contents]
    <3>1. call[t].byte \in Bytes BY <1>0 DEF Calls
    <3>2. \A f \in Names : Append(history[f], call[t].byte) \in Contents
      BY <3>1, <1>0 DEF TypeOK, Contents
    <3>3. <<call[t].byte>> \in Contents BY <3>1 DEF Contents
    <3>4. CASE Store(t) BY <3>2, <3>3, <3>4, <2>0, <1>0 DEF Store, TypeOK
    <3>5. CASE StoreFails(t) BY <3>5, <1>0 DEF StoreFails, TypeOK
    <3>. QED BY <1>8, <3>4, <3>5
  <2>8. spoiled' \subseteq Names BY <1>8, <1>0, <2>0 DEF Store, StoreFails, TypeOK
  <2>. QED BY <1>0, <2>1, <2>3, <2>4, <2>6, <2>7, <2>8 DEF StoreEnds, TypeInv, TypeOK, lineVars
<1>. QED BY <1>1, <1>2, <1>3, <1>4, <1>5, <1>6, <1>7, <1>8 DEF FileCall, OpenRead, ReadOld

LEMMA SavedFact ==
  /\ \A n \in 0 .. 3 : Saved[n + 1] \in Globals
  /\ \A n \in 0 .. 2 : Restored[n + 1] \in Globals
<1>1. \A n \in 0 .. 3 : n = 0 \/ n = 1 \/ n = 2 \/ n = 3 OBVIOUS
<1>2. Saved[1] = "rip" /\ Saved[2] = "line" /\ Saved[3] = "rsp" /\ Saved[4] = "rbp" BY DEF Saved
<1>3. Restored[1] = "rsp" /\ Restored[2] = "rbp" /\ Restored[3] = "rip" BY DEF Restored
<1>. QED BY <1>1, <1>2, <1>3 DEF Globals

LEMMA LineTypes ==
  ASSUME TypeInv, NEW t \in Tasks, LineCall(t)
  PROVE  TypeInv'
<1>0. TypeOK /\ PlacesOK BY DEF TypeInv
<1>1. CASE ScanLine(t)
  <2>1. TypeOK' BY <1>0, <1>1 DEF ScanLine, Goto, TypeOK, fileVars, LinePlaces
  <2>2. PlacesOK' BY <1>0, <1>1 DEF ScanLine, Goto, TypeOK, PlacesOK, fileVars, FilePlaces
  <2>. QED BY <2>1, <2>2 DEF TypeInv
<1>2. CASE Save(t)
  <2>1. count' \in [Tasks -> 0 .. 3] BY <1>0, <1>2 DEF Save, TypeOK
  <2>2. backup' \in [Globals -> Tasks \cup {Nobody}] BY <1>0, <1>2 DEF Save, TypeOK
  <2>3. pc' \in [Tasks -> {"program", "astray"} \cup FilePlaces \cup LinePlaces]
    BY <1>0, <1>2 DEF Save, Goto, TypeOK, LinePlaces
  <2>4. TypeOK' BY <1>0, <1>2, <2>1, <2>2, <2>3 DEF Save, TypeOK, fileVars
  <2>5. PlacesOK' BY <1>0, <1>2 DEF Save, Goto, TypeOK, PlacesOK, fileVars, FilePlaces
  <2>. QED BY <2>4, <2>5 DEF TypeInv
<1>3. CASE ClearLine(t)
  <2>1. line' \in [Tasks -> SUBSET Tasks] BY <1>0, <1>3 DEF ClearLine, TypeOK
  <2>2. TypeOK' BY <1>0, <1>3, <2>1 DEF ClearLine, Goto, TypeOK, fileVars, LinePlaces
  <2>3. PlacesOK' BY <1>0, <1>3 DEF ClearLine, Goto, TypeOK, PlacesOK, fileVars, FilePlaces
  <2>. QED BY <2>2, <2>3 DEF TypeInv
<1>4. CASE Key(t)
  <2>1. line' \in [Tasks -> SUBSET Tasks]
    <3>1. CASE line' = [line EXCEPT ![backup["line"]] = @ \cup {t}]
      <4>1. \A u \in Tasks : line[u] \cup {t} \in SUBSET Tasks BY <1>0 DEF TypeOK
      <4>. QED BY <3>1, <4>1, <1>0 DEF TypeOK
    <3>2. CASE UNCHANGED line BY <3>2, <1>0 DEF TypeOK
    <3>. QED BY <1>4, <3>1, <3>2 DEF Key
  <2>2. pc' \in [Tasks -> {"program", "astray"} \cup FilePlaces \cup LinePlaces]
    BY <1>0, <1>4 DEF Key, Goto, TypeOK, LinePlaces
  <2>3. TypeOK' BY <1>0, <1>4, <2>1, <2>2 DEF Key, TypeOK, fileVars
  <2>4. PlacesOK' BY <1>0, <1>4 DEF Key, Goto, TypeOK, PlacesOK, fileVars, FilePlaces
  <2>. QED BY <2>3, <2>4 DEF TypeInv
<1>5. CASE Restore(t)
  <2>1. count[t] \in 0 .. 2 BY <1>0, <1>5 DEF Restore, TypeOK, PlacesOK
  <2>2. PICK spot \in {"restore", "astray", "program"} :
          Goto(t, spot) /\ (spot = "restore" => count[t] < 2)
    BY <1>5, <2>1 DEF Restore
  <2>3. count' \in [Tasks -> 0 .. 3] BY <1>0, <1>5, <2>1 DEF Restore, TypeOK
  <2>4. pc' \in [Tasks -> {"program", "astray"} \cup FilePlaces \cup LinePlaces]
    BY <1>0, <2>2 DEF Goto, TypeOK, LinePlaces
  <2>5. astray' \subseteq Tasks /\ crossed' \subseteq Tasks BY <1>0, <1>5 DEF Restore, TypeOK
  <2>6. line' \in [Tasks -> SUBSET Tasks] BY <1>0, <1>5 DEF Restore, TypeOK
  <2>7. TypeOK' BY <1>0, <1>5, <2>3, <2>4, <2>5, <2>6 DEF Restore, TypeOK, fileVars
  <2>8. \A u \in Tasks : count'[u] = (IF u = t THEN IF count[t] = 2 THEN 0 ELSE count[t] + 1
                                      ELSE count[u])
                      /\ pc'[u] = (IF u = t THEN spot ELSE pc[u])
    BY <1>0, <1>5, <2>2 DEF Restore, Goto, TypeOK
  <2>9. PlacesOK' BY <1>0, <1>5, <2>1, <2>2, <2>8 DEF Restore, PlacesOK, fileVars, FilePlaces
  <2>. QED BY <2>7, <2>9 DEF TypeInv
<1>. QED BY <1>1, <1>2, <1>3, <1>4, <1>5 DEF LineCall

LEMMA TypeStep == TypeInv /\ [Next]_vars => TypeInv'
<1>1. ASSUME TypeInv, Next PROVE TypeInv' BY <1>1, FileTypes, LineTypes DEF Next
<1>2. ASSUME TypeInv, UNCHANGED vars PROVE TypeInv'
  BY <1>2 DEF TypeInv, TypeOK, PlacesOK, vars, fileVars, lineVars
<1>. QED BY <1>1, <1>2

LEMMA Types == Spec => []TypeInv
BY TypeInit, TypeStep, PTL DEF Spec

(* Every call, descriptor and file is what it can be. *)
THEOREM TypeCorrect == Spec => []TypeOK
<1>1. TypeInv => TypeOK BY DEF TypeInv
<1>. QED BY <1>1, Types, PTL

-----------------------------------------------------------------------------
(* What a task that is not stale knows of its file. *)
Knows(t) ==
  t \notin stale /\ call[t].mode = "read" =>
    /\ pc[t] \in {"openread", "old"} => call[t].size = Len(disk[call[t].name])
    /\ pc[t] = "store" => /\ call[t].size = Len(disk[call[t].name])
                          /\ call[t].buffer = disk[call[t].name]
    /\ pc[t] = "openslot" => call[t].size = Len(call[t].buffer)

CopyInv == \A t \in Tasks : Knows(t)

FileInv == CopyInv /\ AppendsAreKept /\ DescriptorsAreWhole

LEMMA FileInit == Init => FileInv
BY DEF Init, FileInv, CopyInv, Knows, AppendsAreKept, DescriptorsAreWhole, Unused

(* A copy that is not stale, and one byte. *)
LEMMA AppendFact ==
  ASSUME TypeInv, NEW t \in Tasks, call[t].size = Len(call[t].buffer)
  PROVE  NewContents(t) = Append(call[t].buffer, call[t].byte)
<1>1. call[t] \in Calls BY DEF TypeInv, TypeOK
<1>2. call[t].size \in Nat /\ call[t].byte \in Bytes /\ call[t].buffer \in Seq(Bytes)
  BY <1>1 DEF Calls, Contents
<1>3. Append(call[t].buffer, call[t].byte) =
        [i \in 1 .. call[t].size + 1 |->
           IF i = call[t].size + 1 THEN call[t].byte ELSE call[t].buffer[i]]
  BY <1>2
<1>4. \A i \in 1 .. call[t].size + 1 :
        (CASE i > call[t].size -> call[t].byte
           [] i <= call[t].size /\ i <= Len(call[t].buffer) -> call[t].buffer[i]
           [] OTHER -> Junk) = IF i = call[t].size + 1 THEN call[t].byte ELSE call[t].buffer[i]
  BY <1>2
<1>. QED BY <1>3, <1>4 DEF NewContents

LEMMA ReplaceFact ==
  ASSUME TypeInv, NEW t \in Tasks, call[t].size = 0
  PROVE  NewContents(t) = <<call[t].byte>>
<1>1. NewContents(t) = [i \in 1 .. 1 |-> call[t].byte] BY DEF NewContents
<1>2. <<call[t].byte>> = [i \in 1 .. 1 |-> call[t].byte] OBVIOUS
<1>. QED BY <1>1, <1>2

(* A step of t that stores nothing leaves what the others know. *)
LEMMA OthersKnow ==
  ASSUME TypeInv, CopyInv, NEW t \in Tasks, UNCHANGED disk,
         NEW c, call' = [call EXCEPT ![t] = c], NEW spot, Goto(t, spot),
         stale \subseteq stale' \cup {t}
  PROVE  /\ \A u \in Tasks \ {t} : Knows(u)'
         /\ call'[t] = c /\ pc'[t] = spot
<1>1. \A u \in Tasks \ {t} : call'[u] = call[u] /\ pc'[u] = pc[u] BY DEF TypeInv, TypeOK, Goto
<1>2. call'[t] = c /\ pc'[t] = spot BY DEF TypeInv, TypeOK, Goto
<1>3. \A u \in Tasks \ {t} : u \notin stale' => u \notin stale OBVIOUS
<1>. QED BY <1>1, <1>2, <1>3 DEF CopyInv, Knows

LEMMA FileStep ==
  ASSUME TypeInv, FileInv, NEW t \in Tasks, FileCall(t)
  PROVE  FileInv'
<1>0. TypeOK /\ CopyInv /\ AppendsAreKept /\ DescriptorsAreWhole /\ call[t] \in Calls
  BY DEF TypeInv, TypeOK, FileInv
<1>1. ASSUME NEW f \in Names, NEW mode \in Modes, Open(t, f, mode) PROVE FileInv'
  <2>1. PICK c : c = [NoCall EXCEPT !.name = f, !.mode = mode] OBVIOUS
  <2>2. PICK spot : spot = IF mode = "read" THEN "opensize" ELSE "openslot" OBVIOUS
  <2>3. call' = [call EXCEPT ![t] = c] /\ Goto(t, spot) BY <1>1, <2>1, <2>2 DEF Open, Goto
  <2>4. c.mode = mode BY <2>1 DEF NoCall
  <2>5. (\A u \in Tasks \ {t} : Knows(u)') /\ call'[t] = c /\ pc'[t] = spot
    BY <2>3, <1>0, <1>1, OthersKnow DEF Open
  <2>6. Knows(t)' BY <2>2, <2>4, <2>5 DEF Knows
  <2>7. AppendsAreKept' /\ DescriptorsAreWhole'
    BY <1>0, <1>1 DEF Open, AppendsAreKept, DescriptorsAreWhole
  <2>. QED BY <2>5, <2>6, <2>7 DEF FileInv, CopyInv
<1>2. ASSUME OpenSize(t) PROVE FileInv'
  <2>1. PICK size \in {0, Len(disk[call[t].name])} :
          IF size = 0
          THEN call' = [call EXCEPT ![t] = NoCall] /\ Goto(t, "program")
          ELSE call' = [call EXCEPT ![t].size = size] /\ Goto(t, "openread")
    BY <1>2 DEF OpenSize
  <2>2. \A u \in Tasks : Knows(u)'
    <3>1. CASE size = 0
      <4>1. (\A u \in Tasks \ {t} : Knows(u)') /\ pc'[t] = "program"
        BY <3>1, <2>1, <1>0, <1>2, OthersKnow DEF OpenSize
      <4>. QED BY <4>1 DEF Knows
    <3>2. CASE size # 0
      <4>1. PICK c : c = [call[t] EXCEPT !.size = size] OBVIOUS
      <4>2. call' = [call EXCEPT ![t] = c] /\ Goto(t, "openread") BY <3>2, <2>1, <4>1
      <4>3. c.size = Len(disk[call[t].name]) /\ c.name = call[t].name
        BY <4>1, <3>2, <2>1, <1>0 DEF Calls
      <4>4. (\A u \in Tasks \ {t} : Knows(u)') /\ call'[t] = c /\ pc'[t] = "openread"
        BY <4>2, <1>0, <1>2, OthersKnow DEF OpenSize
      <4>5. Knows(t)' BY <4>3, <4>4, <1>2 DEF Knows, OpenSize
      <4>. QED BY <4>4, <4>5
    <3>. QED BY <3>1, <3>2
  <2>3. AppendsAreKept' /\ DescriptorsAreWhole'
    BY <1>0, <1>2 DEF OpenSize, AppendsAreKept, DescriptorsAreWhole
  <2>. QED BY <2>2, <2>3 DEF FileInv, CopyInv
<1>3. ASSUME NEW spot \in {"openread", "old"}, NEW next \in {"openslot", "store"},
             spot = "openread" <=> next = "openslot", ReadCopy(t, spot, next)
      PROVE  FileInv'
  <2>1. PICK b \in {disk[call[t].name], <<>>} :
          /\ call' = [call EXCEPT ![t].buffer = b]
          /\ t \notin stale' => b = disk[call[t].name] /\ t \notin stale
    BY <1>3 DEF ReadCopy
  <2>2. PICK c : c = [call[t] EXCEPT !.buffer = b] OBVIOUS
  <2>3. /\ c.buffer = b /\ c.size = call[t].size
        /\ c.name = call[t].name /\ c.mode = call[t].mode
    BY <2>2, <1>0 DEF Calls
  <2>4. call' = [call EXCEPT ![t] = c] /\ Goto(t, next) BY <1>3, <2>1, <2>2 DEF ReadCopy
  <2>5. (\A u \in Tasks \ {t} : Knows(u)') /\ call'[t] = c /\ pc'[t] = next
    BY <2>4, <1>0, <1>3, OthersKnow DEF ReadCopy
  <2>6. disk' = disk /\ pc[t] = spot BY <1>3 DEF ReadCopy
  <2>7. Knows(t)' BY <1>0, <1>3, <2>1, <2>3, <2>5, <2>6 DEF Knows, CopyInv
  <2>8. AppendsAreKept' /\ DescriptorsAreWhole'
    BY <1>0, <1>3 DEF ReadCopy, AppendsAreKept, DescriptorsAreWhole
  <2>. QED BY <2>5, <2>7, <2>8 DEF FileInv, CopyInv
<1>4. ASSUME TakeSlot(t) PROVE FileInv'
  <2>1. (\A u \in Tasks \ {t} : Knows(u)') /\ pc'[t] = "program"
    BY <1>0, <1>4, OthersKnow DEF TakeSlot
  <2>2. Knows(t)' BY <2>1 DEF Knows
  <2>3. AppendsAreKept' BY <1>0, <1>4 DEF TakeSlot, AppendsAreKept
  <2>4. Opened(t).mode = "read" /\ Opened(t).whole = 1 =>
          Opened(t).size = Len(Opened(t).buffer)
    BY <1>0, <1>4 DEF Opened, TakeSlot, CopyInv, Knows
  <2>5. DescriptorsAreWhole'
    <3>1. CASE UNCHANGED files BY <3>1, <1>0 DEF DescriptorsAreWhole
    <3>2. CASE \E s : files' = [files EXCEPT ![t][s] = Opened(t)]
      <4>1. PICK s : files' = [files EXCEPT ![t][s] = Opened(t)] BY <3>2
      <4>2. \A u \in Tasks, r \in Slots :
              files'[u][r] = IF u = t /\ r = s THEN Opened(t) ELSE files[u][r]
        BY <4>1, <1>0 DEF TypeOK
      <4>. QED BY <4>2, <2>4, <1>0 DEF DescriptorsAreWhole
    <3>. QED BY <1>4, <3>1, <3>2 DEF TakeSlot
  <2>. QED BY <2>1, <2>2, <2>3, <2>5 DEF FileInv, CopyInv
<1>5. ASSUME NEW s \in Slots, Close(t, s) PROVE FileInv'
  <2>1. \A u \in Tasks, r \in Slots :
          /\ files'[u][r].mode = files[u][r].mode /\ files'[u][r].whole = files[u][r].whole
          /\ files'[u][r].size = files[u][r].size /\ files'[u][r].buffer = files[u][r].buffer
    <3>1. files[t][s] \in Descriptors BY <1>0 DEF TypeOK
    <3>2. \A u \in Tasks, r \in Slots :
            files'[u][r] = IF u = t /\ r = s THEN [files[t][s] EXCEPT !.available = 0]
                           ELSE files[u][r]
      BY <1>0, <1>5 DEF Close, TypeOK
    <3>. QED BY <3>1, <3>2 DEF Descriptors
  <2>2. DescriptorsAreWhole' BY <2>1, <1>0 DEF DescriptorsAreWhole
  <2>3. AppendsAreKept' BY <1>0, <1>5 DEF Close, AppendsAreKept
  <2>4. CopyInv' BY <1>0, <1>5 DEF Close, CopyInv, Knows
  <2>. QED BY <2>2, <2>3, <2>4 DEF FileInv
<1>6. ASSUME NEW s \in Slots, Write(t, s) PROVE FileInv'
  <2>1. PICK c : c = [NoCall EXCEPT !.name = files[t][s].name, !.mode = files[t][s].mode,
                                    !.byte = writes + 1] OBVIOUS
  <2>2. c.mode = files[t][s].mode BY <2>1 DEF NoCall
  <2>3. PICK spot : spot = IF files[t][s].mode = "read" THEN "size" ELSE "store" OBVIOUS
  <2>4. call' = [call EXCEPT ![t] = c] /\ Goto(t, spot) BY <1>6, <2>1, <2>3 DEF Write, Goto
  <2>5. (\A u \in Tasks \ {t} : Knows(u)') /\ call'[t] = c /\ pc'[t] = spot
    BY <2>4, <1>0, <1>6, OthersKnow DEF Write
  <2>6. Knows(t)' BY <2>2, <2>3, <2>5 DEF Knows
  <2>7. AppendsAreKept' /\ DescriptorsAreWhole'
    BY <1>0, <1>6 DEF Write, AppendsAreKept, DescriptorsAreWhole
  <2>. QED BY <2>5, <2>6, <2>7 DEF FileInv, CopyInv
<1>7. ASSUME SizeOfOld(t) PROVE FileInv'
  <2>1. PICK c : /\ call' = [call EXCEPT ![t] = c]
                 /\ c.name = call[t].name
                 /\ t \notin stale' => c.size = Len(disk[call[t].name])
    <3>1. CASE call' = [call EXCEPT ![t].size = Len(disk[call[t].name])]
      <4>1. PICK c : c = [call[t] EXCEPT !.size = Len(disk[call[t].name])] OBVIOUS
      <4>2. c.name = call[t].name /\ c.size = Len(disk[call[t].name])
        BY <4>1, <1>0 DEF Calls
      <4>3. call' = [call EXCEPT ![t] = c] BY <3>1, <4>1
      <4>. QED BY <4>2, <4>3
    <3>2. CASE UNCHANGED call /\ t \in stale'
      <4>1. call' = [call EXCEPT ![t] = call[t]] BY <3>2, <1>0 DEF TypeOK
      <4>. QED BY <4>1, <3>2
    <3>. QED BY <1>7, <3>1, <3>2 DEF SizeOfOld
  <2>2. (\A u \in Tasks \ {t} : Knows(u)') /\ call'[t] = c /\ pc'[t] = "old"
    BY <2>1, <1>0, <1>7, OthersKnow DEF SizeOfOld
  <2>3. Knows(t)' BY <2>1, <2>2, <1>7 DEF Knows, SizeOfOld
  <2>4. AppendsAreKept' /\ DescriptorsAreWhole'
    BY <1>0, <1>7 DEF SizeOfOld, AppendsAreKept, DescriptorsAreWhole
  <2>. QED BY <2>2, <2>3, <2>4 DEF FileInv, CopyInv
<1>8. ASSUME Store(t) \/ StoreFails(t) PROVE FileInv'
  <2>0. pc[t] = "store" /\ call[t].name \in Names /\ call[t].mode \in Modes
    BY <1>0, <1>8 DEF TypeInv, Store, StoreFails, PlacesOK, FilePlaces, Calls
  <2>1. StoreEnds(t) BY <1>8 DEF Store, StoreFails
  <2>2. \A f \in Names \ {call[t].name} : disk'[f] = disk[f]
    BY <1>8, <1>0 DEF Store, StoreFails, TypeOK
  <2>3. \A u \in Tasks \ {t} : call'[u] = call[u] /\ pc'[u] = pc[u]
    BY <2>1, <1>0 DEF StoreEnds, Goto, TypeOK
  <2>4. pc'[t] = "program" BY <2>1, <1>0 DEF StoreEnds, Goto, TypeOK
  <2>5. ASSUME NEW u \in Tasks \ {t} PROVE Knows(u)'
    <3>1. CASE u \in Using(call[t].name)
      <4>1. u \in stale' BY <3>1, <2>1 DEF StoreEnds
      <4>. QED BY <4>1 DEF Knows
    <3>2. CASE u \notin Using(call[t].name)
      <4>1. u \notin stale' => u \notin stale BY <2>1 DEF StoreEnds
      <4>2. pc[u] \in {"openread", "old", "store"} => call[u].name \in Names
        BY DEF TypeInv, PlacesOK, FilePlaces
      <4>3. pc[u] \in {"openread", "old", "store"} /\ call[u].mode = "read" =>
              disk'[call[u].name] = disk[call[u].name]
        BY <3>2, <4>2, <2>2 DEF Using
      <4>. QED BY <4>1, <4>3, <2>3, <1>0 DEF CopyInv, Knows
    <3>. QED BY <3>1, <3>2
  <2>6. Knows(t)' BY <2>4 DEF Knows
  <2>7. DescriptorsAreWhole' BY <1>0, <2>1 DEF StoreEnds, DescriptorsAreWhole
  <2>8. AppendsAreKept'
    <3>1. CASE Store(t)
      <4>1. disk'[call[t].name] = NewContents(t) BY <3>1, <2>0, <1>0 DEF Store, TypeOK
      <4>2. \A f \in Names \ {call[t].name} : history'[f] = history[f]
        BY <3>1, <1>0 DEF Store, TypeOK
      <4>3. history'[call[t].name] = IF call[t].mode = "read"
                                     THEN Append(history[call[t].name], call[t].byte)
                                     ELSE <<call[t].byte>>
        BY <3>1, <2>0, <1>0 DEF Store, TypeOK
      <4>4. call[t].name \notin spoiled' => disk'[call[t].name] = history'[call[t].name]
        <5>1. CASE call[t].mode = "write"
          <6>1. call[t].size = 0 BY <5>1, <2>0 DEF TypeInv, PlacesOK
          <6>. QED BY <6>1, <5>1, <4>1, <4>3, ReplaceFact
        <5>2. CASE call[t].mode = "read" /\ t \notin stale
          <6>1. /\ call[t].size = Len(call[t].buffer)
                /\ call[t].buffer = disk[call[t].name]
            BY <5>2, <2>0, <1>0 DEF CopyInv, Knows
          <6>2. call[t].name \notin spoiled' => call[t].name \notin spoiled
            BY <3>1, <5>2 DEF Store
          <6>. QED BY <6>1, <6>2, <5>2, <4>1, <4>3, <2>0, <1>0, AppendFact DEF AppendsAreKept
        <5>3. CASE call[t].mode = "read" /\ t \in stale BY <3>1, <5>3 DEF Store
        <5>. QED BY <5>1, <5>2, <5>3, <2>0 DEF Modes
      <4>5. \A f \in Names \ {call[t].name} : f \notin spoiled' => f \notin spoiled
        BY <3>1 DEF Store
      <4>. QED BY <4>2, <4>4, <4>5, <2>2, <1>0 DEF AppendsAreKept
    <3>2. CASE StoreFails(t)
      <4>1. UNCHANGED history BY <3>2 DEF StoreFails
      <4>2. CASE UNCHANGED <<disk, spoiled>> BY <4>1, <4>2, <1>0 DEF AppendsAreKept
      <4>3. CASE spoiled' = spoiled \cup {call[t].name}
        BY <4>1, <4>3, <2>2, <1>0 DEF AppendsAreKept
      <4>. QED BY <3>2, <4>2, <4>3 DEF StoreFails
    <3>. QED BY <1>8, <3>1, <3>2
  <2>. QED BY <2>5, <2>6, <2>7, <2>8 DEF FileInv, CopyInv
<1>. QED BY <1>1, <1>2, <1>3, <1>4, <1>5, <1>6, <1>7, <1>8 DEF FileCall, OpenRead, ReadOld

(* A step of scanline goes from a place where no file call is to another one. *)
LEMMA LinePlacesFact ==
  ASSUME TypeInv, NEW t \in Tasks, LineCall(t)
  PROVE  /\ UNCHANGED fileVars
         /\ pc'[t] \notin FilePlaces
         /\ \A u \in Tasks \ {t} : pc'[u] = pc[u]
<1>0. pc \in [Tasks -> {"program", "astray"} \cup FilePlaces \cup LinePlaces]
  BY DEF TypeInv, TypeOK
<1>1. CASE ScanLine(t) BY <1>0, <1>1 DEF ScanLine, Goto, FilePlaces
<1>2. CASE Save(t) BY <1>0, <1>2 DEF Save, Goto, FilePlaces
<1>3. CASE ClearLine(t) BY <1>0, <1>3 DEF ClearLine, Goto, FilePlaces
<1>4. CASE Key(t) BY <1>0, <1>4 DEF Key, Goto, FilePlaces
<1>5. CASE Restore(t)
  <2>1. PICK spot \in {"restore", "astray", "program"} : Goto(t, spot)
    BY <1>5 DEF Restore
  <2>. QED BY <1>0, <1>5, <2>1 DEF Restore, Goto, FilePlaces
<1>. QED BY <1>1, <1>2, <1>3, <1>4, <1>5 DEF LineCall

LEMMA FileInvNext == TypeInv /\ FileInv /\ [Next]_vars => FileInv'
<1>. SUFFICES ASSUME TypeInv, FileInv, [Next]_vars PROVE FileInv' OBVIOUS
<1>1. ASSUME NEW t \in Tasks, LineCall(t) PROVE FileInv'
  <2>1. /\ UNCHANGED <<disk, files, call, history, stale, spoiled>>
        /\ pc'[t] \notin FilePlaces
        /\ \A u \in Tasks \ {t} : pc'[u] = pc[u]
    BY <1>1, LinePlacesFact DEF fileVars
  <2>. QED BY <2>1 DEF FileInv, CopyInv, Knows, AppendsAreKept, DescriptorsAreWhole, FilePlaces
<1>2. CASE UNCHANGED vars
  BY <1>2 DEF vars, fileVars, FileInv, CopyInv, Knows, AppendsAreKept, DescriptorsAreWhole
<1>. QED BY <1>1, <1>2, FileStep DEF Next

LEMMA FileInvariance == Spec => [](TypeInv /\ FileInv)
<1>1. Init => TypeInv /\ FileInv BY TypeInit, FileInit
<1>2. TypeInv /\ FileInv /\ [Next]_vars => TypeInv' /\ FileInv' BY TypeStep, FileInvNext
<1>. QED BY <1>1, <1>2, PTL DEF Spec

(* Whatever the order of the calls of any number of tasks, and whichever of them   *)
(* fail, a file is what the writes that succeeded have made of it, unless a write  *)
(* overlapped another one, missed the old bytes or failed half way (isr2handler's  *)
(* write, idt.c).                                                                  *)
THEOREM AppendsCorrect == Spec => []AppendsAreKept
BY FileInvariance, PTL DEF FileInv

(* A descriptor that open made from an undisturbed copy has a size that is the     *)
(* length of that copy, whatever was opened and closed in its slot before.         *)
THEOREM DescriptorsCorrect == Spec => []DescriptorsAreWhole
BY FileInvariance, PTL DEF FileInv

-----------------------------------------------------------------------------
(* What a task that reads a line alone relies on: the globals that it has stored   *)
(* are still its own.                                                              *)
Alone(t) ==
  /\ t \notin astray
  /\ Reading(t) => \A u \in Tasks \ {t} : ~Reading(u)
  /\ pc[t] = "save" => \A i \in 1 .. count[t] : backup[Saved[i]] = t
  /\ pc[t] \in {"clear", "keys", "restore"} => \A g \in Globals : backup[g] = t
  /\ pc[t] \in {"keys", "restore"} => line[t] \subseteq {t}

LineInv == \A t \in Tasks \ crossed : Alone(t)

LEMMA LineInit == Init => LineInv
BY DEF Init, LineInv, Alone, Reading, LinePlaces

(* A file call moves its task outside scanline. *)
LEMMA FilePlacesFact ==
  ASSUME TypeInv, NEW t \in Tasks, FileCall(t)
  PROVE  /\ UNCHANGED lineVars
         /\ pc'[t] \notin LinePlaces
         /\ \A u \in Tasks \ {t} : pc'[u] = pc[u]
<1>0. pc \in [Tasks -> {"program", "astray"} \cup FilePlaces \cup LinePlaces]
  BY DEF TypeInv, TypeOK
<1>1. ASSUME NEW spot \in {"program"} \cup FilePlaces, Goto(t, spot)
      PROVE  pc'[t] \notin LinePlaces /\ \A u \in Tasks \ {t} : pc'[u] = pc[u]
  BY <1>0, <1>1 DEF Goto, FilePlaces, LinePlaces
<1>2. UNCHANGED lineVars
  BY DEF FileCall, Open, OpenSize, OpenRead, ReadOld, ReadCopy, TakeSlot, Close, Write,
         SizeOfOld, Store, StoreFails, StoreEnds
<1>3. \/ \E spot \in {"program"} \cup FilePlaces : Goto(t, spot)
      \/ pc[t] = "program" /\ UNCHANGED pc
  BY DEF FileCall, Open, OpenSize, OpenRead, ReadOld, ReadCopy, TakeSlot, Close, Write,
         SizeOfOld, Store, StoreFails, StoreEnds, FilePlaces
<1>. QED BY <1>1, <1>2, <1>3 DEF LinePlaces

LEMMA LineStep ==
  ASSUME TypeInv, LineInv, NEW t \in Tasks, LineCall(t)
  PROVE  LineInv'
<1>0. /\ pc \in [Tasks -> {"program", "astray"} \cup FilePlaces \cup LinePlaces]
      /\ count \in [Tasks -> 0 .. 3] /\ line \in [Tasks -> SUBSET Tasks]
      /\ backup \in [Globals -> Tasks \cup {Nobody}]
  BY DEF TypeInv, TypeOK
<1>1. \A u \in Tasks \ {t} : pc'[u] = pc[u] BY LinePlacesFact
<1>2. CASE ScanLine(t)
  <2>1. pc'[t] = "save" /\ count'[t] = 0 /\ \A u \in Tasks \ {t} : count'[u] = count[u]
    BY <1>0, <1>2 DEF ScanLine, Goto
  <2>2. ASSUME NEW u \in Tasks \ crossed', u # t PROVE Alone(u)'
    <3>1. u \notin crossed /\ ~Reading(u) BY <1>2, <2>2 DEF ScanLine
    <3>. QED BY <3>1, <2>1, <2>2, <1>1, <1>2 DEF ScanLine, LineInv, Alone, Reading, LinePlaces
  <2>3. ASSUME t \notin crossed' PROVE Alone(t)'
    <3>1. t \notin crossed /\ \A u \in Tasks : ~Reading(u) BY <1>2, <2>3 DEF ScanLine
    <3>. QED BY <3>1, <2>1, <1>1, <1>2 DEF ScanLine, LineInv, Alone, Reading, LinePlaces
  <2>. QED BY <2>2, <2>3 DEF LineInv
<1>3. CASE Save(t)
  <2>1. /\ pc[t] = "save" /\ UNCHANGED <<line, crossed, astray>>
        /\ backup' = [backup EXCEPT ![Saved[count[t] + 1]] = t]
    BY <1>3 DEF Save
  <2>2. /\ pc'[t] = IF count[t] = 3 THEN "clear" ELSE "save"
        /\ count'[t] = IF count[t] = 3 THEN 0 ELSE count[t] + 1
    BY <1>0, <1>3 DEF Save, Goto
  <2>3. ASSUME NEW u \in Tasks \ crossed', u # t PROVE Alone(u)'
    <3>1. ~Reading(u) /\ Alone(u) BY <2>1, <2>3 DEF LineInv, Alone, Reading, LinePlaces
    <3>. QED BY <3>1, <2>1, <2>3, <1>1 DEF Alone, Reading, LinePlaces
  <2>4. ASSUME t \notin crossed' PROVE Alone(t)'
    <3>1. Alone(t) BY <2>1, <2>4 DEF LineInv
    <3>2. \A u \in Tasks \ {t} : ~Reading(u)'
      BY <3>1, <2>1, <1>1 DEF Alone, Reading, LinePlaces
    <3>3. \A i \in 1 .. count[t] + 1 : backup'[Saved[i]] = t
      <4>1. count[t] \in 0 .. 3 BY <1>0
      <4>2. \A i \in 1 .. 4 : Saved[i] \in Globals BY DEF Saved, Globals
      <4>3. \A g \in Globals : backup'[g] = IF g = Saved[count[t] + 1] THEN t ELSE backup[g]
        BY <2>1, <1>0
      <4>. QED BY <4>1, <4>2, <4>3, <3>1, <2>1 DEF Alone
    <3>4. CASE count[t] = 3
      <4>1. \A g \in Globals : backup'[g] = t
        <5>1. \A g \in Globals : \E i \in 1 .. 4 : g = Saved[i] BY DEF Saved, Globals
        <5>. QED BY <5>1, <3>3, <3>4
      <4>. QED BY <4>1, <3>1, <3>2, <3>4, <2>1, <2>2 DEF Alone, Reading
    <3>5. CASE count[t] # 3 BY <3>1, <3>2, <3>3, <3>5, <2>1, <2>2 DEF Alone, Reading
    <3>. QED BY <3>4, <3>5
  <2>. QED BY <2>3, <2>4 DEF LineInv
<1>4. CASE ClearLine(t) \/ Key(t)
  <2>1. /\ pc[t] \in {"clear", "keys"} /\ UNCHANGED <<backup, count, crossed, astray>>
        /\ pc'[t] \in {"keys", "restore"}
    BY <1>0, <1>4 DEF ClearLine, Key, Goto
  <2>2. ASSUME NEW u \in Tasks \ crossed', u # t PROVE Alone(u)'
    <3>1. ~Reading(u) /\ Alone(u) BY <2>1, <2>2 DEF LineInv, Alone, Reading, LinePlaces
    <3>. QED BY <3>1, <2>1, <2>2, <1>1 DEF Alone, Reading, LinePlaces
  <2>3. ASSUME t \notin crossed' PROVE Alone(t)'
    <3>1. Alone(t) /\ backup["line"] = t BY <2>1, <2>3 DEF LineInv, Alone, Globals
    <3>2. \A u \in Tasks \ {t} : ~Reading(u)'
      BY <3>1, <2>1, <1>1 DEF Alone, Reading, LinePlaces
    <3>3. line'[t] \subseteq {t}
      <4>1. CASE ClearLine(t) BY <4>1, <3>1, <1>0 DEF ClearLine
      <4>2. CASE Key(t)
        <5>1. line[t] \subseteq {t} BY <4>2, <3>1 DEF Key, Alone
        <5>. QED BY <4>2, <5>1, <3>1, <1>0 DEF Key
      <4>. QED BY <1>4, <4>1, <4>2
    <3>. QED BY <3>1, <3>2, <3>3, <2>1 DEF Alone, Reading
  <2>. QED BY <2>2, <2>3 DEF LineInv
<1>5. CASE Restore(t)
  <2>1. /\ pc[t] = "restore" /\ UNCHANGED backup
        /\ astray' = IF backup[Restored[count[t] + 1]] = t THEN astray ELSE astray \cup {t}
        /\ crossed' = IF pc'[t] = "program" THEN crossed \ {t} ELSE crossed
        /\ line' = IF pc'[t] = "program" THEN [line EXCEPT ![t] = {}] ELSE line
        /\ Goto(t, CASE count[t] < 2 -> "restore"
                     [] count[t] = 2 /\ t \in astray' -> "astray"
                     [] OTHER -> "program")
    BY <1>5 DEF Restore
  <2>2. count[t] \in 0 .. 2 BY <2>1, <1>0 DEF TypeInv, PlacesOK
  <2>3. pc'[t] = CASE count[t] < 2 -> "restore"
                   [] count[t] = 2 /\ t \in astray' -> "astray"
                   [] OTHER -> "program"
    BY <2>1, <1>0 DEF Goto
  <2>4. \A u \in Tasks \ {t} : (u \in astray' <=> u \in astray) /\ line'[u] = line[u]
                               /\ (u \in crossed' <=> u \in crossed) /\ count'[u] = count[u]
    BY <2>1, <1>0, <1>5 DEF Restore
  <2>5. ASSUME NEW u \in Tasks \ crossed', u # t PROVE Alone(u)'
    <3>1. ~Reading(u) /\ Alone(u) BY <2>1, <2>4, <2>5 DEF LineInv, Alone, Reading, LinePlaces
    <3>. QED BY <3>1, <2>1, <2>4, <2>5, <1>1 DEF Alone, Reading, LinePlaces
  <2>6. ASSUME t \notin crossed' PROVE Alone(t)'
    <3>1. CASE pc'[t] = "program"
      <4>1. t \notin astray' BY <3>1, <2>2, <2>3
      <4>. QED BY <3>1, <4>1 DEF Alone, Reading, LinePlaces
    <3>2. CASE pc'[t] # "program"
      <4>1. t \notin crossed /\ line' = line BY <3>2, <2>1, <2>6
      <4>2. Alone(t) BY <4>1 DEF LineInv
      <4>3. Restored[count[t] + 1] \in Globals BY <2>2 DEF Restored, Globals
      <4>4. astray' = astray /\ t \notin astray BY <2>1, <4>2, <4>3 DEF Alone
      <4>5. pc'[t] = "restore" BY <2>2, <2>3, <3>2, <4>4
      <4>6. \A u \in Tasks \ {t} : ~Reading(u)'
        BY <4>2, <2>1, <1>1 DEF Alone, Reading, LinePlaces
      <4>. QED BY <4>1, <4>2, <4>4, <4>5, <4>6, <2>1 DEF Alone, Reading
    <3>. QED BY <3>1, <3>2
  <2>. QED BY <2>5, <2>6 DEF LineInv
<1>. QED BY <1>2, <1>3, <1>4, <1>5 DEF LineCall

LEMMA LineInvNext == TypeInv /\ LineInv /\ [Next]_vars => LineInv'
<1>. SUFFICES ASSUME TypeInv, LineInv, [Next]_vars PROVE LineInv' OBVIOUS
<1>1. ASSUME NEW t \in Tasks, FileCall(t) PROVE LineInv'
  <2>1. /\ UNCHANGED <<backup, line, count, crossed, astray>>
        /\ pc'[t] \notin LinePlaces
        /\ \A u \in Tasks \ {t} : pc'[u] = pc[u]
    BY <1>1, FilePlacesFact DEF lineVars
  <2>. QED BY <2>1 DEF LineInv, Alone, Reading, LinePlaces
<1>2. CASE UNCHANGED vars BY <1>2 DEF vars, lineVars, LineInv, Alone, Reading
<1>. QED BY <1>1, <1>2, LineStep DEF Next

(* Whatever any number of tasks do, one that reads a line while nobody else does   *)
(* gets its own registers back from scanline's globals, and only its own keys.     *)
THEOREM LinesCorrect == Spec => []LinesComeHome
<1>1. Init => TypeInv /\ LineInv BY TypeInit, LineInit
<1>2. TypeInv /\ LineInv /\ [Next]_vars => TypeInv' /\ LineInv' BY TypeStep, LineInvNext
<1>3. LineInv => LinesComeHome BY DEF LineInv, Alone, LinesComeHome
<1>. QED BY <1>1, <1>2, <1>3, PTL DEF Spec

-----------------------------------------------------------------------------

(* The values of Tcp's state. *)
Segments ==
  [kind : {"synack", "push", "fin", "last"}, seq : Nat, port : T!LocalPorts, ack : Nat, has : Nat]
Connections == [port : T!LocalPorts, rcv : Nat, snd : Nat]
Sent == [kind : {"synack", "push", "fin", "last"}, seq : Nat]
Heard == [kind : {"synack", "push", "fin", "last"}, by : Sessions, seq : Nat]
PeerPorts == {peerPort[s] : s \in Sessions}
Places == {"start", "idle", "number", "transmit"} \cup T!Creating
SessionTypes ==
  /\ checksum \in {0, 1} /\ peerPort \in Ports
  /\ tcpswitchboardpointer \in Nat /\ tcp_creat_ito \in Nat
  /\ tcpswitchboard \in [PeerPorts -> T!LocalPorts]
  /\ ethjmplist \in [PeerPorts -> Sessions \cup {None}]
  /\ seqlist \in [T!LocalPorts -> Nat] /\ acklist \in [T!LocalPorts -> Nat]
  /\ doing \in [Sessions -> Places]
  /\ from_port \in [Sessions -> T!LocalPorts]
  /\ numbers \in [Sessions -> [seq : Nat, ack : Nat]]
  /\ calls \in [Sessions -> Nat]
  /\ connection \in [Sessions -> Connections]
  /\ pending \in [Sessions -> Sent \cup {T!Nothing}]
  /\ wire \in [Sessions -> Seq(Segments)]
  /\ resent \in [Sessions -> Nat]
  /\ received \in [Sessions -> Seq(Nat)]
  /\ delivered \in [Sessions -> Seq(Heard)]
  /\ heard \in [Sessions -> Nat \cup {-1}]
  /\ hasty \in [Sessions -> SUBSET Nat] /\ refused \in [Sessions -> SUBSET Nat]
  /\ entangled \subseteq Sessions

(* No more local ports are given than there are sessions. *)
Made == {s \in Sessions : doing[s] \notin {"start", "load", "store"}}
CountInv ==
  /\ tcpswitchboardpointer \in T!FirstPort .. T!FirstPort + Cardinality(Made)
  /\ \A s \in Sessions : doing[s] = "store" => from_port[s] \in T!FirstPort .. T!FirstPort + Cardinality(Made)

(* A session that is not made yet has nothing; a peer's port leads to a session that is made. *)
FreshInv ==
  /\ \A s \in Sessions :
       /\ doing[s] \in {"start"} \cup T!Creating =>
            /\ connection[s] = T!Closed /\ pending[s] = T!Nothing /\ wire[s] = <<>>
            /\ received[s] = <<>> /\ delivered[s] = <<>> /\ heard[s] = -1
            /\ calls[s] = 0 /\ hasty[s] = {} /\ refused[s] = {}
       /\ doing[s] \in {"start", "load"} => from_port[s] = 0
       /\ \A i \in DOMAIN wire[s] : wire[s][i].port = connection[s].port
  /\ \A p \in PeerPorts :
       ethjmplist[p] # None =>
         /\ ethjmplist[p] \in Sessions /\ peerPort[ethjmplist[p]] = p
         /\ doing[ethjmplist[p]] \notin {"start"} \cup T!Creating

(* The ports of a session that is not entangled are its own, and no other gets them. *)
Local(s) == tcpswitchboard[peerPort[s]]
OwnPort(s) ==
  /\ Local(s) >= T!FirstPort
  /\ doing[s] = "load" => tcpswitchboardpointer = Local(s)
  /\ doing[s] = "store" => tcpswitchboardpointer = Local(s) /\ from_port[s] = Local(s)
  /\ doing[s] \notin {"load", "store"} => tcpswitchboardpointer > Local(s) /\ from_port[s] = Local(s)
  /\ connection[s].port \in {0, Local(s)}
Apart(s, u) ==
  /\ peerPort[u] # peerPort[s]
  /\ Local(s) \notin T!LocalPortsOf(u)
  /\ doing[s] \in T!Creating => doing[u] \notin T!Creating
  /\ doing[u] = "store" => from_port[u] > Local(s)
PortInv ==
  \A s \in Sessions \ entangled :
    doing[s] # "start" =>
      OwnPort(s) /\ \A u \in Sessions \ {s} : doing[u] # "start" => Apart(s, u)

(* Where the conversation of a session with its peer is: the last segment that was handled, *)
(* what is on its way behind it, and what is sent with the next message.                     *)
Handled(s) == IF delivered[s] = <<>> THEN -1 ELSE delivered[s][Len(delivered[s])].seq
PeerInv(s) ==
  /\ connection[s].port = 0 => connection[s] = T!Closed /\ pending[s] = T!Nothing /\ wire[s] = <<>> /\ heard[s] = -1
  /\ pending[s] # T!Nothing =>
       /\ pending[s].seq \in {Handled(s), Handled(s) + 1}
       /\ connection[s].snd <= MaxPushes[s] => connection[s].snd = pending[s].seq + 1
  /\ pending[s] = T!Nothing /\ connection[s].snd \in 1 .. MaxPushes[s] => connection[s].snd = Handled(s) + 1
WireInv(s) ==
  /\ \A i \in DOMAIN wire[s] :
       /\ wire[s][i].seq \in {Handled(s), Handled(s) + 1}
       /\ wire[s][i].seq <= IF pending[s] = T!Nothing THEN Handled(s) ELSE pending[s].seq
       /\ wire[s][i].ack - wire[s][i].has = connection[s].rcv - Len(received[s])
  /\ \A i, j \in DOMAIN wire[s] : i <= j => wire[s][i].seq <= wire[s][j].seq
NumbersInv(s) ==
  /\ ethjmplist[peerPort[s]] = s
  /\ acklist[Local(s)] <= Handled(s) + 1
  /\ heard[s] >= 0 => seqlist[Local(s)] - heard[s] = connection[s].rcv - Len(received[s])
  /\ doing[s] = "transmit" => numbers[s].ack <= Handled(s) + 1
MessagesInv(s) ==
  /\ doing[s] = "transmit" /\ calls[s] \notin hasty[s] =>
       connection[s].port = Local(s) /\ numbers[s].seq = connection[s].rcv
  /\ \A n \in hasty[s] : n <= calls[s]
  /\ doing[s] = "number" => calls[s] \notin hasty[s]
  /\ \A i \in DOMAIN received[s] :
       received[s][i] <= calls[s] /\ (doing[s] \in {"number", "transmit"} => received[s][i] < calls[s])

Talks(s) == PeerInv(s) /\ WireInv(s) /\ NumbersInv(s) /\ MessagesInv(s)
TalkInv == \A s \in Sessions \ entangled : doing[s] \in {"idle", "number", "transmit"} => Talks(s)

SessionInv == SessionTypes /\ CountInv /\ FreshInv /\ PortInv /\ TalkInv /\ T!SessionsAreOwn

-----------------------------------------------------------------------------
(* Tcp's finite sets are those of the library. *)
LEMMA SameSizes == \A S : (T!IsFiniteSet(S) <=> IsFiniteSet(S)) /\ T!Cardinality(S) = Cardinality(S)
<1>1. \A S : (T!IsFiniteSet(S) <=> IsFiniteSet(S))
  BY DEF T!IsFiniteSet, IsFiniteSet
<1>2. \A S : T!Cardinality(S) = Cardinality(S)
  BY DEF T!Cardinality, Cardinality
<1>. QED BY <1>1, <1>2

LEMMA Ports0 ==
  ASSUME T!ConstantsAssumption
  PROVE  /\ Cardinality(Sessions) \in Nat /\ 0 \in T!LocalPorts /\ T!LocalPorts \subseteq Nat
         /\ \A n \in T!FirstPort .. T!FirstPort + Cardinality(Sessions) : n \in T!LocalPorts
<1>1. IsFiniteSet(Sessions)
  BY SameSizes DEF T!ConstantsAssumption
<1>2. Cardinality(Sessions) \in Nat
  BY <1>1, FS_CardinalityType
<1>3. T!LocalPorts = {0} \cup T!FirstPort .. T!FirstPort + Cardinality(Sessions)
  BY SameSizes DEF T!LocalPorts
<1>. QED BY <1>2, <1>3 DEF T!FirstPort

LEMMA MadeBound ==
  ASSUME T!ConstantsAssumption
  PROVE  /\ IsFiniteSet(Made) /\ Cardinality(Made) \in Nat
         /\ Cardinality(Made) <= Cardinality(Sessions)
         /\ \A s \in Sessions \ Made : Cardinality(Made) + 1 <= Cardinality(Sessions)
<1>1. Made \subseteq Sessions /\ IsFiniteSet(Sessions)
  BY SameSizes DEF Made, T!ConstantsAssumption
<1>2. IsFiniteSet(Made) /\ Cardinality(Made) <= Cardinality(Sessions)
  BY <1>1, FS_Subset
<1>3. Cardinality(Made) \in Nat
  BY <1>2, FS_CardinalityType
<1>4. ASSUME NEW s \in Sessions \ Made PROVE Cardinality(Made) + 1 <= Cardinality(Sessions)
  <2>1. Cardinality(Made \cup {s}) = Cardinality(Made) + 1
    BY <1>2, FS_AddElement
  <2>2. Made \cup {s} \subseteq Sessions
    BY <1>1
  <2>. QED BY <1>1, <2>1, <2>2, FS_Subset
<1>. QED BY <1>2, <1>3, <1>4

(* A port that is being given is one of the array. *)
LEMMA PortsAreThere ==
  ASSUME T!ConstantsAssumption, CountInv
  PROVE  /\ tcpswitchboardpointer \in T!LocalPorts
         /\ \A s \in Sessions : doing[s] = "store" => from_port[s] + 1 \in T!FirstPort .. T!FirstPort + Cardinality(Sessions)
<1>1. /\ Cardinality(Made) \in Nat /\ Cardinality(Sessions) \in Nat
      /\ Cardinality(Made) <= Cardinality(Sessions)
      /\ \A s \in Sessions \ Made : Cardinality(Made) + 1 <= Cardinality(Sessions)
  BY MadeBound, Ports0
<1>2. tcpswitchboardpointer \in T!FirstPort .. T!FirstPort + Cardinality(Sessions)
  BY <1>1 DEF CountInv, T!FirstPort
<1>3. ASSUME NEW s \in Sessions, doing[s] = "store"
      PROVE  from_port[s] + 1 \in T!FirstPort .. T!FirstPort + Cardinality(Sessions)
  <2>1. s \in Sessions \ Made
    BY <1>3 DEF Made
  <2>2. from_port[s] \in T!FirstPort .. T!FirstPort + Cardinality(Made)
    BY <1>3 DEF CountInv
  <2>3. Cardinality(Made) + 1 <= Cardinality(Sessions)
    BY <1>1, <2>1
  <2>. QED BY <1>1, <2>2, <2>3 DEF T!FirstPort
<1>. QED BY <1>2, <1>3, Ports0

LEMMA InitSession == T!ConstantsAssumption /\ T!Init => SessionInv
<1>. SUFFICES ASSUME T!ConstantsAssumption, T!Init PROVE SessionInv
  OBVIOUS
<1>1. SessionTypes
  <2>1. <<>> \in Seq(Segments) /\ <<>> \in Seq(Nat) /\ <<>> \in Seq(Heard)
    OBVIOUS
  <2>2. 0 \in T!LocalPorts
    BY Ports0
  <2>3. T!Closed \in Connections
    BY <2>2 DEF T!Closed, Connections
  <2>. QED BY <2>1, <2>2, <2>3 DEF T!Init, SessionTypes, T!FirstPort, PeerPorts, Places
<1>2. CountInv
  <2>1. Cardinality(Made) \in Nat
    BY MadeBound
  <2>. QED BY <2>1 DEF T!Init, CountInv, T!FirstPort
<1>3. FreshInv /\ PortInv /\ TalkInv
  BY DEF T!Init, FreshInv, PortInv, TalkInv, T!Creating, PeerPorts
<1>4. T!SessionsAreOwn
  <2>1. Len(<<>>) = 0
    OBVIOUS
  <2>. QED BY <2>1 DEF T!Init, T!SessionsAreOwn
<1>. QED BY <1>1, <1>2, <1>3, <1>4 DEF SessionInv

-----------------------------------------------------------------------------
(* A step of a session. *)
Step(s) ==
  \/ T!Assign(s) \/ T!LoadPort(s) \/ T!StorePort(s) \/ T!Connect(s)
  \/ T!LookUp(s) \/ T!Number(s) \/ T!Transmit(s)
  \/ T!Handle(s)
  \/ T!Push(s, "push") \/ T!Push(s, "fin") \/ T!Push(s, "last") \/ T!Resend(s)

LEMMA StepOfASession ==
  T!Next <=> \E s \in Sessions : Step(s)
BY DEF T!Next, Step

LEMMA SegmentOffered ==
  ASSUME SessionTypes, NEW s \in Sessions, T!Offer(s), pending'[s] \in Sent, connection'[s] \in Connections
  PROVE  wire' \in [Sessions -> Seq(Segments)]
<1>1. CASE UNCHANGED wire
  BY <1>1 DEF SessionTypes
<1>2. CASE ~UNCHANGED wire
  <2>. DEFINE e == [kind |-> pending'[s].kind, seq |-> pending'[s].seq, port |-> connection'[s].port,
                    ack |-> connection'[s].rcv, has |-> Len(received[s])]
  <2>1. Len(received[s]) \in Nat /\ wire[s] \in Seq(Segments)
    BY DEF SessionTypes
  <2>2. e \in Segments
    BY <2>1 DEF Segments, Sent, Connections
  <2>3. wire' = [wire EXCEPT ![s] = Append(@, e)]
    BY <1>2 DEF T!Offer
  <2>. HIDE DEF e
  <2>4. Append(wire[s], e) \in Seq(Segments)
    BY <2>1, <2>2
  <2>. QED BY <2>3, <2>4 DEF SessionTypes
<1>. QED BY <1>1, <1>2

LEMMA PendingAcknowledged ==
  ASSUME SessionTypes, NEW s \in Sessions, NEW port, NEW ack
  PROVE  /\ T!Acknowledged(s, port, ack) \in [Sessions -> Sent \cup {T!Nothing}]
         /\ \A u \in Sessions \ {s} : T!Acknowledged(s, port, ack)[u] = pending[u]
         /\ T!Acknowledged(s, port, ack)[s] \in {pending[s], T!Nothing}
BY DEF SessionTypes, T!Acknowledged

(* What the driver counts of a segment, and what the peer sends again. *)
LEMMA CountsOneOrNone ==
  ASSUME SessionTypes, NEW p
  PROVE  T!Counts(p) \in {0, 1}
BY DEF SessionTypes, T!Counts

LEMMA Repeated ==
  ASSUME SessionTypes, NEW s \in Sessions, T!Resend(s)
  PROVE  /\ pending[s] \in Sent /\ pending'[s] \in Sent /\ pending'[s].seq = pending[s].seq
         /\ pending' \in [Sessions -> Sent \cup {T!Nothing}]
         /\ \A u \in Sessions \ {s} : pending'[u] = pending[u]
<1>1. pending[s] \in [kind : {"synack", "push", "fin", "last"}, seq : Nat]
  BY DEF T!Resend, SessionTypes, Sent
<1>2. CASE UNCHANGED pending
  BY <1>1, <1>2 DEF SessionTypes, Sent
<1>3. CASE pending' = [pending EXCEPT ![s].kind = "fin"]
  <2>1. pending' = [pending EXCEPT ![s] = [pending[s] EXCEPT !.kind = "fin"]]
    BY <1>3
  <2>2. /\ [pending[s] EXCEPT !.kind = "fin"] \in Sent
        /\ [pending[s] EXCEPT !.kind = "fin"].seq = pending[s].seq
    BY <1>1 DEF Sent
  <2>. QED BY <1>1, <2>1, <2>2 DEF SessionTypes, Sent
<1>. QED BY <1>2, <1>3 DEF T!Resend

LEMMA NextTypes ==
  ASSUME T!ConstantsAssumption, SessionInv, NEW s \in Sessions, Step(s)
  PROVE  SessionTypes'
<1>0. SessionTypes
  BY DEF SessionInv
<1>p. /\ tcpswitchboardpointer \in T!LocalPorts /\ 0 \in T!LocalPorts /\ T!LocalPorts \subseteq Nat
      /\ doing[s] = "store" => from_port[s] + 1 \in Nat
  <2>1. CountInv
    BY DEF SessionInv
  <2>. QED BY <1>0, <2>1, PortsAreThere, Ports0 DEF SessionTypes
<1>q. peerPort[s] \in PeerPorts
  BY DEF PeerPorts
<1>r. UNCHANGED peerPort => PeerPorts' = PeerPorts
  BY DEF PeerPorts
<1>d. ASSUME NEW spot \in Places, T!Goto(s, spot) PROVE doing' \in [Sessions -> Places]
  BY <1>0, <1>d DEF T!Goto, SessionTypes
<1>e. T!Nothing \in Sent \cup {T!Nothing} /\ \A n \in Nat, k \in {"synack", "push", "fin", "last"} : [kind |-> k, seq |-> n] \in Sent
  BY DEF Sent
<1>1. CASE T!Assign(s)
  <2>1. tcpswitchboard' \in [PeerPorts -> T!LocalPorts]
    BY <1>0, <1>1, <1>p, <1>q DEF T!Assign, SessionTypes
  <2>2. entangled' \subseteq Sessions
    BY <1>0, <1>1 DEF T!Assign, SessionTypes
  <2>3. doing' \in [Sessions -> Places]
    BY <1>1, <1>d DEF T!Assign, Places, T!Creating
  <2>. QED BY <1>0, <1>1, <1>r, <2>1, <2>2, <2>3 DEF T!Assign, SessionTypes, T!peer
<1>2. CASE T!LoadPort(s)
  <2>1. doing' \in [Sessions -> Places]
    BY <1>2, <1>d DEF T!LoadPort, Places, T!Creating
  <2>. QED BY <1>0, <1>2, <1>p, <1>r, <2>1 DEF T!LoadPort, SessionTypes, T!peer, T!tables, T!ghosts
<1>3. CASE T!StorePort(s)
  <2>1. doing' \in [Sessions -> Places]
    BY <1>3, <1>d DEF T!StorePort, Places, T!Creating
  <2>. QED BY <1>0, <1>3, <1>p, <1>r, <2>1 DEF T!StorePort, SessionTypes, T!peer, T!ghosts
<1>4. CASE T!Connect(s)
  <2>1. connection' \in [Sessions -> Connections]
    <3>1. from_port[s] \in T!LocalPorts /\ tcp_creat_ito + 1 \in Nat
      BY <1>0 DEF SessionTypes
    <3>2. [port |-> from_port[s], rcv |-> tcp_creat_ito + 1, snd |-> 1] \in Connections
      BY <3>1 DEF Connections
    <3>. QED BY <1>0, <1>4, <3>2 DEF T!Connect, SessionTypes
  <2>2. pending' \in [Sessions -> Sent \cup {T!Nothing}]
    <3>1. [kind |-> "synack", seq |-> 0] \in Sent
      BY DEF Sent
    <3>. QED BY <1>0, <1>4, <3>1 DEF T!Connect, SessionTypes
  <2>4. wire' \in [Sessions -> Seq(Segments)]
    <3>1. CASE T!Offer(s) /\ pending' = [pending EXCEPT ![s] = [kind |-> "synack", seq |-> 0]]
      <4>1. pending'[s] \in Sent
        BY <1>0, <1>e, <3>1 DEF SessionTypes
      <4>2. connection'[s] \in Connections
        BY <2>1
      <4>. QED BY <1>0, <3>1, <4>1, <4>2, SegmentOffered
    <3>2. CASE UNCHANGED wire
      BY <1>0, <3>2 DEF SessionTypes
    <3>. QED BY <1>4, <3>1, <3>2 DEF T!Connect
  <2>5. tcp_creat_ito' \in Nat /\ ethjmplist' \in [PeerPorts -> Sessions \cup {None}]
    BY <1>0, <1>4, <1>q DEF T!Connect, SessionTypes
  <2>6. seqlist' \in [T!LocalPorts -> Nat] /\ acklist' \in [T!LocalPorts -> Nat]
    BY <1>0, <1>4 DEF T!Connect, SessionTypes
  <2>7. doing' \in [Sessions -> Places]
    BY <1>4, <1>d DEF T!Connect, Places
  <2>. QED BY <1>0, <1>4, <1>r, <2>1, <2>2, <2>4, <2>5, <2>6, <2>7
    DEF T!Connect, SessionTypes, T!ghosts
<1>5. CASE T!LookUp(s)
  <2>1. doing' \in [Sessions -> Places]
    BY <1>5, <1>d DEF T!LookUp, Places
  <2>2. calls' \in [Sessions -> Nat] /\ from_port' \in [Sessions -> T!LocalPorts]
    BY <1>0, <1>5, <1>q DEF T!LookUp, SessionTypes
  <2>. QED BY <1>0, <1>5, <1>r, <2>1, <2>2 DEF T!LookUp, SessionTypes, T!peer, T!tables, T!ghosts
<1>6. CASE T!Number(s)
  <2>1. doing' \in [Sessions -> Places]
    BY <1>6, <1>d DEF T!Number, Places
  <2>2. numbers' \in [Sessions -> [seq : Nat, ack : Nat]] /\ hasty' \in [Sessions -> SUBSET Nat]
    BY <1>0, <1>6 DEF T!Number, SessionTypes
  <2>. QED BY <1>0, <1>6, <1>r, <2>1, <2>2 DEF T!Number, SessionTypes, T!peer, T!tables
<1>7. CASE T!Transmit(s)
  <2>1. doing' \in [Sessions -> Places]
    BY <1>7, <1>d DEF T!Transmit, Places
  <2>2. pending' \in [Sessions -> Sent \cup {T!Nothing}]
    <3>1. T!Acknowledged(s, from_port[s], numbers[s].ack) \in [Sessions -> Sent \cup {T!Nothing}]
      BY <1>0, PendingAcknowledged
    <3>. QED BY <1>0, <1>7, <3>1 DEF T!Transmit, SessionTypes
  <2>3. received' \in [Sessions -> Seq(Nat)]
    <3>1. received[s] \in Seq(Nat) /\ calls[s] \in Nat
      BY <1>0 DEF SessionTypes
    <3>2. Append(received[s], calls[s]) \in Seq(Nat)
      BY <3>1
    <3>. QED BY <1>0, <1>7, <3>2 DEF T!Transmit, SessionTypes
  <2>4. connection' \in [Sessions -> Connections]
    <3>1. connection' \in {connection, [connection EXCEPT ![s].rcv = @ + 1]}
      BY <1>7 DEF T!Transmit
    <3>2. connection[s] \in Connections
      BY <1>0 DEF SessionTypes
    <3>3. [connection[s] EXCEPT !.rcv = @ + 1] \in Connections
      BY <3>2 DEF Connections
    <3>. QED BY <1>0, <3>1, <3>3 DEF SessionTypes
  <2>5. refused' \in [Sessions -> SUBSET Nat]
    <3>1. refused' \in {refused, [refused EXCEPT ![s] = @ \cup {calls[s]}]}
      BY <1>7 DEF T!Transmit
    <3>2. refused[s] \cup {calls[s]} \in SUBSET Nat
      BY <1>0 DEF SessionTypes
    <3>. QED BY <1>0, <3>1, <3>2 DEF SessionTypes
  <2>. QED BY <1>0, <1>7, <1>r, <2>1, <2>2, <2>3, <2>4, <2>5 DEF T!Transmit, SessionTypes, T!tables
<1>8. CASE T!Handle(s)
  <2>. DEFINE p == Head(wire[s])
  <2>1. wire[s] \in Seq(Segments) /\ p \in Segments /\ Tail(wire[s]) \in Seq(Segments)
    BY <1>0, <1>8 DEF T!Handle, SessionTypes
  <2>2. /\ p.kind \in {"synack", "push", "fin", "last"} /\ p.seq \in Nat /\ p.port \in T!LocalPorts
        /\ p.ack \in Nat /\ p.has \in Nat
    BY <2>1 DEF Segments
  <2>3. pending' \in [Sessions -> Sent \cup {T!Nothing}]
    <3>1. pending' \in {pending, T!Acknowledged(s, p.port, p.seq + T!Counts(p))}
      BY <1>8 DEF T!Handle
    <3>2. T!Acknowledged(s, p.port, p.seq + T!Counts(p)) \in [Sessions -> Sent \cup {T!Nothing}]
      BY <1>0, PendingAcknowledged
    <3>. QED BY <1>0, <3>1, <3>2 DEF SessionTypes
  <2>4. delivered' \in [Sessions -> Seq(Heard)]
    <3>. DEFINE e == [kind |-> p.kind, by |-> s, seq |-> p.seq]
    <3>1. e \in Heard
      BY <2>2 DEF Heard
    <3>2. CASE ethjmplist[peerPort[s]] = None
      BY <1>0, <1>8, <3>2 DEF T!Handle, SessionTypes
    <3>3. CASE ethjmplist[peerPort[s]] # None
      <4>1. PICK c \in Sessions : c = ethjmplist[peerPort[s]]
        BY <1>0, <1>q, <3>3 DEF SessionTypes
      <4>2. delivered[c] \in Seq(Heard)
        BY <1>0, <4>1 DEF SessionTypes
      <4>3. Append(delivered[c], e) \in Seq(Heard)
        BY <4>2, <3>1
      <4>4. delivered' = [delivered EXCEPT ![c] = Append(@, e)]
        <5>1. delivered' = IF ethjmplist[peerPort[s]] = None THEN delivered
                           ELSE [delivered EXCEPT ![ethjmplist[peerPort[s]]] = Append(@, e)]
          BY <1>8 DEF T!Handle
        <5>. HIDE DEF e
        <5>. QED BY <3>3, <4>1, <5>1
      <4>. HIDE DEF e
      <4>. QED BY <1>0, <4>1, <4>3, <4>4 DEF SessionTypes
    <3>. QED BY <3>2, <3>3
  <2>5. wire' \in [Sessions -> Seq(Segments)] /\ heard' \in [Sessions -> Nat \cup {-1}]
    BY <1>0, <1>8, <2>1, <2>2 DEF T!Handle, SessionTypes
  <2>6. seqlist' \in [T!LocalPorts -> Nat] /\ acklist' \in [T!LocalPorts -> Nat]
    <3>1. /\ seqlist' = [seqlist EXCEPT ![p.port] = p.ack]
          /\ acklist' = [acklist EXCEPT ![p.port] = p.seq + T!Counts(p)]
      BY <1>8 DEF T!Handle, T!NumbersAfter
    <3>2. p.ack \in Nat /\ p.seq + T!Counts(p) \in Nat
      BY <1>0, <2>2, CountsOneOrNone
    <3>. HIDE DEF p
    <3>. QED BY <1>0, <3>1, <3>2 DEF SessionTypes
  <2>. HIDE DEF p
  <2>7. UNCHANGED <<checksum, peerPort, tcpswitchboard, tcpswitchboardpointer, ethjmplist, tcp_creat_ito, T!program,
                    connection, resent, received, hasty, refused, entangled>>
    BY <1>8 DEF T!Handle
  <2>. QED BY <1>0, <1>r, <2>3, <2>4, <2>5, <2>6, <2>7 DEF SessionTypes, T!program
<1>9. ASSUME NEW kind \in {"push", "fin", "last"}, T!Push(s, kind) PROVE SessionTypes'
  <2>1. connection' \in [Sessions -> Connections]
    <3>1. MaxPushes[s] + 1 \in Nat
      BY DEF T!ConstantsAssumption
    <3>. DEFINE n == IF kind = "push" THEN connection[s].snd + 1 ELSE MaxPushes[s] + 1
    <3>2. connection' = [connection EXCEPT ![s].snd = n]
      BY <1>9 DEF T!Push
    <3>3. connection[s] \in Connections
      BY <1>0 DEF SessionTypes
    <3>5. n \in Nat
      BY <3>1, <3>3 DEF Connections
    <3>. HIDE DEF n
    <3>4. [connection[s] EXCEPT !.snd = n] \in Connections
      BY <3>5, <3>3 DEF Connections
    <3>. QED BY <1>0, <3>2, <3>4 DEF SessionTypes
  <2>2. connection[s].snd \in Nat
    BY <1>0 DEF SessionTypes, Connections
  <2>3. [kind |-> kind, seq |-> connection[s].snd] \in Sent
    BY <2>2 DEF Sent
  <2>4. pending' \in [Sessions -> Sent \cup {T!Nothing}] /\ pending'[s] \in Sent
    BY <1>0, <1>9, <2>3 DEF T!Push, SessionTypes
  <2>5. wire' \in [Sessions -> Seq(Segments)]
    BY <1>0, <1>9, <2>1, <2>4, SegmentOffered DEF T!Push
  <2>. QED BY <1>0, <1>9, <1>r, <2>1, <2>4, <2>5 DEF T!Push, SessionTypes, T!program, T!tables,
    T!ghosts
<1>10. CASE T!Resend(s)
  <2>1. pending'[s] \in Sent /\ pending' \in [Sessions -> Sent \cup {T!Nothing}]
    BY <1>0, <1>10, Repeated
  <2>4. connection'[s] \in Connections
    BY <1>0, <1>10 DEF T!Resend, SessionTypes
  <2>2. wire' \in [Sessions -> Seq(Segments)]
    BY <1>0, <1>10, <2>1, <2>4, SegmentOffered DEF T!Resend
  <2>3. resent' \in [Sessions -> Nat]
    BY <1>0, <1>10 DEF T!Resend, SessionTypes
  <2>. QED BY <1>0, <1>10, <1>r, <2>1, <2>2, <2>3 DEF T!Resend, SessionTypes, T!program, T!tables,
    T!ghosts
<1>. QED BY <1>1, <1>2, <1>3, <1>4, <1>5, <1>6, <1>7, <1>8, <1>9, <1>10 DEF Step

(* A step of a session leaves alone what is of the others, but for the function that gets what *)
(* arrives.                                                                                    *)
LEMMA OthersAreLeft ==
  ASSUME SessionTypes, NEW s \in Sessions, Step(s), NEW u \in Sessions \ {s}
  PROVE  /\ UNCHANGED <<peerPort, doing[u], from_port[u], numbers[u], calls[u], connection[u],
                        pending[u], wire[u], received[u], heard[u], hasty[u], refused[u]>>
         /\ u \notin entangled' => u \notin entangled
<1>1. CASE T!Assign(s) \/ T!LoadPort(s) \/ T!StorePort(s)
  BY <1>1 DEF T!Assign, T!LoadPort, T!StorePort, T!Goto, SessionTypes, T!peer, T!tables, T!ghosts
<1>2. CASE T!Connect(s)
  BY <1>2 DEF T!Connect, T!Offer, T!Goto, SessionTypes, T!ghosts
<1>3. CASE T!LookUp(s) \/ T!Number(s)
  BY <1>3 DEF T!LookUp, T!Number, T!Goto, SessionTypes, T!peer, T!ghosts
<1>4. CASE T!Transmit(s)
  <2>1. UNCHANGED pending[u]
    <3>1. T!Acknowledged(s, from_port[s], numbers[s].ack)[u] = pending[u]
      BY PendingAcknowledged
    <3>. QED BY <1>4, <3>1 DEF T!Transmit
  <2>. QED BY <1>4, <2>1 DEF T!Transmit, T!Goto, SessionTypes
<1>5. CASE T!Handle(s)
  <2>1. UNCHANGED pending[u]
    <3>1. pending' \in {pending, T!Acknowledged(s, Head(wire[s]).port, Head(wire[s]).seq + T!Counts(Head(wire[s])))}
      BY <1>5 DEF T!Handle
    <3>2. T!Acknowledged(s, Head(wire[s]).port, Head(wire[s]).seq + T!Counts(Head(wire[s])))[u] = pending[u]
      BY PendingAcknowledged
    <3>. QED BY <3>1, <3>2
  <2>. QED BY <1>5, <2>1 DEF T!Handle, SessionTypes, T!program
<1>6. CASE T!Push(s, "push") \/ T!Push(s, "fin") \/ T!Push(s, "last") \/ T!Resend(s)
  BY <1>6 DEF T!Push, T!Resend, T!Offer, SessionTypes, T!program, T!ghosts
<1>. QED BY <1>1, <1>2, <1>3, <1>4, <1>5, <1>6 DEF Step

LEMMA NextCount ==
  ASSUME T!ConstantsAssumption, SessionInv, NEW s \in Sessions, Step(s)
  PROVE  CountInv'
<1>0. SessionTypes /\ CountInv /\ FreshInv
  BY DEF SessionInv
<1>1. /\ IsFiniteSet(Made) /\ Cardinality(Made) \in Nat
  BY MadeBound
<1>2. CASE T!StorePort(s)
  <2>1. s \notin Made /\ Made' = Made \cup {s}
    BY <1>0, <1>2 DEF T!StorePort, T!Goto, Made, SessionTypes
  <2>2. Cardinality(Made') = Cardinality(Made) + 1
    BY <1>1, <2>1, FS_AddElement
  <2>3. \A u \in Sessions : UNCHANGED from_port[u] /\ (doing'[u] = "store" => doing[u] = "store")
    BY <1>0, <1>2 DEF T!StorePort, T!Goto, SessionTypes
  <2>4. tcpswitchboardpointer' = from_port[s] + 1 /\ doing[s] = "store"
    BY <1>2 DEF T!StorePort
  <2>. QED BY <1>0, <1>1, <2>2, <2>3, <2>4 DEF CountInv, T!FirstPort
<1>3. CASE ~T!StorePort(s)
  <2>1. UNCHANGED tcpswitchboardpointer
    BY <1>3 DEF Step, T!Assign, T!LoadPort, T!Connect, T!LookUp, T!Number, T!Transmit, T!Handle,
      T!Push, T!Resend, T!tables
  <2>2. s \in Made' <=> s \in Made
    BY <1>0, <1>3 DEF Step, T!Assign, T!LoadPort, T!Connect, T!LookUp, T!Number, T!Transmit,
      T!Handle, T!Push, T!Resend, T!Goto,
      T!program, SessionTypes, Made
  <2>3. \A u \in Sessions \ {s} : u \in Made' <=> u \in Made
    BY <1>0, OthersAreLeft DEF Made
  <2>4. Made' = Made
    BY <2>2, <2>3 DEF Made
  <2>5. doing'[s] = "store" => from_port'[s] = tcpswitchboardpointer \/ (doing[s] = "store" /\ UNCHANGED from_port[s])
    BY <1>0, <1>3 DEF Step, T!Assign, T!LoadPort, T!Connect, T!LookUp, T!Number, T!Transmit,
      T!Handle, T!Push, T!Resend, T!Goto,
      T!program, SessionTypes
  <2>6. \A u \in Sessions \ {s} : UNCHANGED <<doing[u], from_port[u]>>
    BY <1>0, OthersAreLeft
  <2>. QED BY <1>0, <1>1, <2>1, <2>4, <2>5, <2>6 DEF CountInv
<1>. QED BY <1>2, <1>3

(* What a step makes of what the peer knows of its connection. *)
LEMMA ConnectionMoves ==
  ASSUME SessionTypes, NEW s \in Sessions
  PROVE  /\ connection[s].port \in T!LocalPorts /\ connection[s].rcv \in Nat
         /\ connection[s].snd \in Nat
         /\ T!Transmit(s) =>
              /\ connection'[s].port = connection[s].port /\ connection'[s].snd = connection[s].snd
              /\ connection'[s].rcv = IF UNCHANGED received THEN connection[s].rcv ELSE connection[s].rcv + 1
         /\ T!Push(s, "push") =>
              /\ connection'[s].port = connection[s].port /\ connection'[s].rcv = connection[s].rcv
              /\ connection'[s].snd = connection[s].snd + 1
         /\ T!Push(s, "fin") \/ T!Push(s, "last") =>
              /\ connection'[s].port = connection[s].port /\ connection'[s].rcv = connection[s].rcv
              /\ connection'[s].snd = MaxPushes[s] + 1
<1>1. connection[s] \in [port : T!LocalPorts, rcv : Nat, snd : Nat]
  BY DEF SessionTypes, Connections
<1>2. ASSUME T!Transmit(s)
      PROVE  /\ connection'[s].port = connection[s].port /\ connection'[s].snd = connection[s].snd
             /\ connection'[s].rcv = IF UNCHANGED received THEN connection[s].rcv ELSE connection[s].rcv + 1
  <2>1. CASE UNCHANGED connection
    <3>1. UNCHANGED received
      <4>1. connection' = [connection EXCEPT ![s].rcv = @ + 1] => connection'[s] = [connection[s] EXCEPT !.rcv = @ + 1]
        BY DEF SessionTypes
      <4>2. [connection[s] EXCEPT !.rcv = @ + 1].rcv = connection[s].rcv + 1
        BY <1>1
      <4>3. connection' # [connection EXCEPT ![s].rcv = @ + 1]
        BY <1>1, <2>1, <4>1, <4>2
      <4>. QED BY <1>2, <4>3, Zenon DEF T!Transmit
    <3>. QED BY <2>1, <3>1
  <2>2. CASE ~UNCHANGED connection
    <3>1. /\ connection' = [connection EXCEPT ![s].rcv = @ + 1]
          /\ received' = [received EXCEPT ![s] = Append(@, calls[s])]
      BY <1>2, <2>2, Zenon DEF T!Transmit
    <3>2. connection'[s] = [connection[s] EXCEPT !.rcv = @ + 1]
      BY <3>1 DEF SessionTypes
    <3>3. received' # received
      <4>1. received[s] \in Seq(Nat) /\ received'[s] = Append(received[s], calls[s])
        BY <3>1 DEF SessionTypes
      <4>. QED BY <4>1
    <3>. QED BY <1>1, <3>2, <3>3
  <2>. QED BY <2>1, <2>2
<1>3. ASSUME NEW kind \in {"push", "fin", "last"}, T!Push(s, kind)
      PROVE  /\ connection'[s].port = connection[s].port /\ connection'[s].rcv = connection[s].rcv
             /\ connection'[s].snd = IF kind = "push" THEN connection[s].snd + 1 ELSE MaxPushes[s] + 1
  <2>. DEFINE n == IF kind = "push" THEN connection[s].snd + 1 ELSE MaxPushes[s] + 1
  <2>1. connection' = [connection EXCEPT ![s].snd = n]
    BY <1>3 DEF T!Push
  <2>. HIDE DEF n
  <2>2. connection'[s] = [connection[s] EXCEPT !.snd = n]
    BY <2>1 DEF SessionTypes
  <2>3. /\ connection'[s].port = connection[s].port /\ connection'[s].rcv = connection[s].rcv
        /\ connection'[s].snd = n
    BY <1>1, <2>2
  <2>. QED BY <2>3 DEF n
<1>. QED BY <1>1, <1>2, <1>3

(* Segments on their way come from the port that the peer knows. *)
LEMMA OfferedPort ==
  ASSUME SessionTypes, NEW s \in Sessions, T!Offer(s), connection'[s].port = connection[s].port,
         \A i \in DOMAIN wire[s] : wire[s][i].port = connection[s].port
  PROVE  \A i \in DOMAIN wire'[s] : wire'[s][i].port = connection[s].port
<1>. DEFINE e == [kind |-> pending'[s].kind, seq |-> pending'[s].seq, port |-> connection'[s].port,
                  ack |-> connection'[s].rcv, has |-> Len(received[s])]
<1>1. CASE UNCHANGED wire
  BY <1>1
<1>2. CASE wire' = [wire EXCEPT ![s] = Append(@, e)]
  <2>1. e.port = connection[s].port
    OBVIOUS
  <2>2. wire[s] \in Seq(Segments) /\ wire'[s] = Append(wire[s], e)
    BY <1>2 DEF SessionTypes
  <2>. HIDE DEF e
  <2>. QED BY <2>1, <2>2
<1>. QED BY <1>1, <1>2 DEF T!Offer

LEMMA NextFresh ==
  ASSUME T!ConstantsAssumption, SessionInv, NEW s \in Sessions, Step(s)
  PROVE  FreshInv'
<1>0. SessionTypes /\ FreshInv /\ SessionTypes'
  BY NextTypes DEF SessionInv
<1>. DEFINE Fresh(r) ==
       /\ connection[r] = T!Closed /\ pending[r] = T!Nothing /\ wire[r] = <<>>
       /\ received[r] = <<>> /\ delivered[r] = <<>> /\ heard[r] = -1
       /\ calls[r] = 0 /\ hasty[r] = {} /\ refused[r] = {}
     Early == {"start"} \cup T!Creating
<1>o. \A u \in Sessions \ {s} : UNCHANGED <<doing[u], from_port[u], calls[u], connection[u], pending[u],
                                         wire[u], received[u], heard[u], hasty[u], refused[u]>>
  BY <1>0, OthersAreLeft
<1>f. /\ \A r \in Sessions : doing[r] \in Early => Fresh(r)
      /\ \A r \in Sessions : doing[r] \in {"start", "load"} => from_port[r] = 0
      /\ \A r \in Sessions : \A i \in DOMAIN wire[r] : wire[r][i].port = connection[r].port
  BY <1>0 DEF FreshInv
<1>j. \A p \in PeerPorts : ethjmplist[p] # None =>
        ethjmplist[p] \in Sessions /\ peerPort[ethjmplist[p]] = p /\ doing[ethjmplist[p]] \notin Early
  BY <1>0 DEF FreshInv
<1>1. \A r \in Sessions : doing[r] \in Early => UNCHANGED delivered[r]
  <2>1. CASE T!Handle(s)
    <3>. DEFINE e == [kind |-> Head(wire[s]).kind, by |-> s, seq |-> Head(wire[s]).seq]
    <3>1. delivered' = IF ethjmplist[peerPort[s]] = None THEN delivered
                       ELSE [delivered EXCEPT ![ethjmplist[peerPort[s]]] = Append(@, e)]
      BY <2>1 DEF T!Handle
    <3>2. peerPort[s] \in PeerPorts
      BY DEF PeerPorts
    <3>. HIDE DEF e, Early
    <3>. QED BY <1>0, <1>j, <3>1, <3>2 DEF SessionTypes
  <2>2. CASE ~T!Handle(s)
    BY <2>2 DEF Step, T!Assign, T!LoadPort, T!StorePort, T!Connect, T!LookUp, T!Number, T!Transmit,
      T!Push, T!Resend
  <2>. QED BY <2>1, <2>2
<1>2. doing'[s] \in Early => Fresh(s)'
  <2>1. CASE T!Assign(s) \/ T!LoadPort(s) \/ T!StorePort(s)
    <3>1. doing[s] \in Early
      BY <2>1 DEF T!Assign, T!LoadPort, T!StorePort, T!Creating
    <3>2. UNCHANGED <<connection, pending, wire, received, delivered, heard, calls, hasty, refused>>
      BY <2>1 DEF T!Assign, T!LoadPort, T!StorePort, T!peer, T!ghosts
    <3>. QED BY <1>f, <3>1, <3>2
  <2>2. CASE T!Connect(s) \/ T!LookUp(s) \/ T!Number(s) \/ T!Transmit(s)
    <3>1. doing'[s] \in {"idle", "number", "transmit"}
      BY <1>0, <2>2 DEF T!Connect, T!LookUp, T!Number, T!Transmit, T!Goto, SessionTypes
    <3>. QED BY <3>1 DEF T!Creating
  <2>3. CASE T!Handle(s) \/ T!Push(s, "push") \/ T!Push(s, "fin") \/ T!Push(s, "last") \/ T!Resend(s)
    <3>1. UNCHANGED doing
      BY <2>3 DEF T!Handle, T!Push, T!Resend, T!program
    <3>2. ~Fresh(s)
      BY <2>3 DEF T!Handle, T!Push, T!Resend, T!Closed
    <3>. QED BY <1>f, <3>1, <3>2
  <2>. QED BY <2>1, <2>2, <2>3 DEF Step
<1>3. \A r \in Sessions : doing'[r] \in Early => Fresh(r)'
  BY <1>1, <1>2, <1>f, <1>o
<1>4. \A r \in Sessions : doing'[r] \in {"start", "load"} => from_port'[r] = 0
  <2>1. doing'[s] \in {"start", "load"} => doing[s] \in {"start", "load"} /\ UNCHANGED from_port[s]
    BY <1>0 DEF Step, T!Assign, T!LoadPort, T!StorePort, T!Connect, T!LookUp, T!Number, T!Transmit,
      T!Handle, T!Push, T!Resend, T!Goto,
      T!program, SessionTypes
  <2>. QED BY <1>f, <1>o, <2>1
<1>5. \A i \in DOMAIN wire'[s] : wire'[s][i].port = connection'[s].port
  <2>1. CASE T!Connect(s)
    <3>. DEFINE e == [kind |-> pending'[s].kind, seq |-> pending'[s].seq, port |-> connection'[s].port,
                      ack |-> connection'[s].rcv, has |-> Len(received[s])]
    <3>1. wire[s] = <<>>
      BY <1>f, <2>1 DEF T!Connect, T!Creating
    <3>2. wire' = wire \/ wire' = [wire EXCEPT ![s] = Append(@, e)]
      BY <2>1 DEF T!Connect, T!Offer
    <3>3. e.port = connection'[s].port
      OBVIOUS
    <3>. HIDE DEF e
    <3>4. s \in DOMAIN wire
      BY <1>0 DEF SessionTypes
    <3>5. wire'[s] = <<>> \/ wire'[s] = <<e>>
      BY <3>1, <3>2, <3>4
    <3>. QED BY <3>3, <3>5
  <2>2. CASE T!Handle(s)
    <3>1. /\ wire[s] \in Seq(Segments) /\ wire[s] # <<>> /\ wire'[s] = Tail(wire[s])
          /\ UNCHANGED connection
      BY <1>0, <2>2 DEF T!Handle, SessionTypes
    <3>. QED BY <1>f, <3>1
  <2>3. CASE T!Push(s, "push") \/ T!Push(s, "fin") \/ T!Push(s, "last") \/ T!Resend(s)
    <3>1. connection'[s].port = connection[s].port /\ T!Offer(s)
      BY <1>0, <2>3, ConnectionMoves DEF T!Push, T!Resend
    <3>. QED BY <1>0, <1>f, <3>1, OfferedPort
  <2>4. CASE T!Assign(s) \/ T!LoadPort(s) \/ T!StorePort(s) \/ T!LookUp(s) \/ T!Number(s) \/ T!Transmit(s)
    <3>1. UNCHANGED wire /\ connection'[s].port = connection[s].port
      BY <1>0, <2>4, ConnectionMoves DEF T!Assign, T!LoadPort, T!StorePort, T!LookUp, T!Number,
        T!Transmit, T!peer
    <3>. QED BY <1>f, <3>1
  <2>. QED BY <2>1, <2>2, <2>3, <2>4 DEF Step
<1>6. \A p \in PeerPorts' :
        ethjmplist'[p] # None =>
          ethjmplist'[p] \in Sessions /\ peerPort'[ethjmplist'[p]] = p /\ doing'[ethjmplist'[p]] \notin Early
  <2>1. UNCHANGED peerPort /\ PeerPorts' = PeerPorts
    BY DEF PeerPorts, Step, T!Assign, T!LoadPort, T!StorePort, T!Connect, T!LookUp, T!Number,
      T!Transmit, T!Handle, T!Push, T!Resend
  <2>2. doing[s] \notin Early => doing'[s] \notin Early
    BY <1>0 DEF Step, T!Assign, T!LoadPort, T!StorePort, T!Connect, T!LookUp, T!Number, T!Transmit,
      T!Handle, T!Push, T!Resend, T!Goto,
      T!program, SessionTypes, T!Creating
  <2>3. \A r \in Sessions : doing[r] \notin Early => doing'[r] \notin Early
    BY <1>o, <2>2
  <2>4. CASE T!Connect(s)
    <3>1. ethjmplist' = [ethjmplist EXCEPT ![peerPort[s]] = s]
      BY <2>4 DEF T!Connect
    <3>2. doing'[s] \notin Early
      BY <1>0, <2>4 DEF T!Connect, T!Goto, SessionTypes, T!Creating
    <3>. QED BY <1>0, <1>j, <2>1, <2>3, <3>1, <3>2 DEF SessionTypes
  <2>5. CASE ~T!Connect(s)
    <3>1. UNCHANGED ethjmplist
      BY <2>5 DEF Step, T!Assign, T!LoadPort, T!StorePort, T!LookUp, T!Number, T!Transmit,
        T!Handle, T!Push, T!Resend, T!tables
    <3>. QED BY <1>j, <2>1, <2>3, <3>1
  <2>. QED BY <2>4, <2>5
<1>. QED BY <1>3, <1>4, <1>5, <1>6, <1>f, <1>o DEF FreshInv

(* What a step does to the ports. *)
Quiet(s) ==
  /\ <<doing[s], doing'[s]>> \in {<<"number", "transmit">>, <<"transmit", "idle">>} \/ UNCHANGED doing[s]
  /\ UNCHANGED <<tcpswitchboardpointer, tcpswitchboard, from_port>>
  /\ connection'[s].port = connection[s].port

LEMMA PortMoves ==
  ASSUME SessionTypes, NEW s \in Sessions, Step(s)
  PROVE  /\ Local(s) \in T!LocalPorts /\ from_port[s] \in T!LocalPorts
         /\ connection[s].port \in T!LocalPorts
         /\ \/ T!Assign(s)
            \/ /\ doing[s] = "load" /\ doing'[s] = "store"
               /\ UNCHANGED <<tcpswitchboardpointer, tcpswitchboard, connection>>
               /\ from_port'[s] = tcpswitchboardpointer
            \/ /\ doing[s] = "store" /\ doing'[s] = "connect"
               /\ UNCHANGED <<tcpswitchboard, connection, from_port>>
               /\ tcpswitchboardpointer' = from_port[s] + 1
            \/ /\ doing[s] = "connect" /\ doing'[s] = "idle"
               /\ UNCHANGED <<tcpswitchboardpointer, tcpswitchboard, from_port>>
               /\ connection'[s].port \in {connection[s].port, from_port[s]}
            \/ /\ doing[s] = "idle" /\ doing'[s] = "number"
               /\ UNCHANGED <<tcpswitchboardpointer, tcpswitchboard, connection>>
               /\ from_port'[s] = Local(s)
            \/ Quiet(s)
<1>1. peerPort[s] \in PeerPorts
  BY DEF PeerPorts
<1>2. /\ Local(s) \in T!LocalPorts /\ from_port[s] \in T!LocalPorts
      /\ connection[s].port \in T!LocalPorts
  BY <1>1, ConnectionMoves DEF SessionTypes, Local
<1>3. CASE T!LoadPort(s)
  BY <1>2, <1>3 DEF T!LoadPort, T!Goto, SessionTypes, T!peer, T!tables
<1>4. CASE T!StorePort(s)
  BY <1>2, <1>4 DEF T!StorePort, T!Goto, SessionTypes, T!peer
<1>5. CASE T!Connect(s)
  BY <1>2, <1>5 DEF T!Connect, T!Goto, SessionTypes
<1>6. CASE T!LookUp(s)
  BY <1>2, <1>6 DEF T!LookUp, T!Goto, SessionTypes, T!tables, T!peer, Local
<1>7. CASE T!Number(s)
  <2>1. /\ UNCHANGED <<T!tables, from_port, T!peer>> /\ doing[s] = "number"
        /\ doing' = [doing EXCEPT ![s] = "transmit"]
    BY <1>7 DEF T!Number, T!Goto
  <2>. QED BY <1>2, <2>1 DEF SessionTypes, T!tables, T!peer, Quiet
<1>10. CASE T!Transmit(s)
  <2>1. connection'[s].port = connection[s].port
    BY <1>10, ConnectionMoves
  <2>2. /\ UNCHANGED <<T!tables, from_port>> /\ doing[s] = "transmit"
        /\ doing' = [doing EXCEPT ![s] = "idle"]
    BY <1>10 DEF T!Transmit, T!Goto
  <2>. QED BY <1>2, <2>1, <2>2 DEF SessionTypes, T!tables, Quiet
<1>8. CASE T!Handle(s)
  BY <1>2, <1>8 DEF T!Handle, T!program, Quiet
<1>9. CASE T!Push(s, "push") \/ T!Push(s, "fin") \/ T!Push(s, "last") \/ T!Resend(s)
  BY <1>2, <1>9, ConnectionMoves DEF T!Push, T!Resend, T!program, T!tables, Quiet
<1>. QED BY <1>2, <1>3, <1>4, <1>5, <1>6, <1>7, <1>8, <1>9, <1>10 DEF Step

LEMMA NextPortOfAssign ==
  ASSUME T!ConstantsAssumption, SessionInv, NEW s \in Sessions, T!Assign(s)
  PROVE  PortInv'
<1>0. SessionTypes /\ CountInv /\ FreshInv /\ PortInv
  BY DEF SessionInv
<1>1. /\ \A u \in Sessions : peerPort[u] \in PeerPorts
      /\ tcpswitchboardpointer \in Nat /\ tcpswitchboardpointer >= T!FirstPort
      /\ \A u \in Sessions : Local(u) \in Nat
  <2>1. Cardinality(Made) \in Nat
    BY MadeBound
  <2>2. \A u \in Sessions : peerPort[u] \in PeerPorts
    BY DEF PeerPorts
  <2>3. \A u \in Sessions : Local(u) \in Nat
    BY <1>0, <2>2, Ports0 DEF SessionTypes, Local
  <2>. QED BY <1>0, <2>1, <2>2, <2>3 DEF SessionTypes, CountInv, T!FirstPort
<1>2. /\ doing[s] = "start" /\ doing'[s] = "load"
      /\ UNCHANGED <<peerPort, tcpswitchboardpointer, from_port, connection>>
      /\ \A u \in Sessions \ {s} : UNCHANGED doing[u]
      /\ from_port[s] = 0 /\ connection[s].port = 0
  BY <1>0 DEF T!Assign, T!Goto, SessionTypes, FreshInv, T!peer, T!Closed
<1>3. /\ Local(s)' = tcpswitchboardpointer
      /\ \A u \in Sessions : peerPort[u] # peerPort[s] => Local(u)' = Local(u)
  BY <1>0, <1>1, <1>2 DEF T!Assign, SessionTypes, Local
<1>4. \A u \in Sessions \ {s} : doing[u] # "start" /\ T!Meets(s, u) => u \in entangled' /\ s \in entangled'
  <2>. DEFINE with == {u \in Sessions \ {s} : doing[u] # "start" /\ T!Meets(s, u)}
  <2>1. entangled' = IF with = {} THEN entangled ELSE entangled \cup with \cup {s}
    BY DEF T!Assign
  <2>. QED BY <2>1
<1>5. entangled \subseteq entangled'
  BY DEF T!Assign
<1>6. \A u \in Sessions \ {s} :
        doing[u] # "start" /\ (s \notin entangled' \/ u \notin entangled') =>
          /\ doing[u] \notin T!Creating /\ peerPort[u] # peerPort[s]
          /\ tcpswitchboardpointer \notin T!LocalPortsOf(u)
          /\ Local(u)' = Local(u) /\ T!LocalPortsOf(u)' = T!LocalPortsOf(u)
  BY <1>2, <1>3, <1>4 DEF T!Meets, T!LocalPortsOf, Local
<1>7. s \notin entangled' => OwnPort(s)' /\ \A u \in Sessions \ {s} : doing'[u] # "start" => Apart(s, u)'
  <2>1. OwnPort(s)'
    BY <1>1, <1>2, <1>3 DEF OwnPort
  <2>2. ASSUME s \notin entangled', NEW u \in Sessions \ {s}, doing'[u] # "start" PROVE Apart(s, u)'
    BY <2>2, <1>2, <1>3, <1>6 DEF Apart, T!Creating
  <2>. QED BY <2>1, <2>2
<1>8. ASSUME NEW r \in Sessions \ entangled', r # s, doing'[r] # "start"
      PROVE  OwnPort(r)' /\ \A u \in Sessions \ {r} : doing'[u] # "start" => Apart(r, u)'
  <2>1. OwnPort(r) /\ \A u \in Sessions \ {r} : doing[u] # "start" => Apart(r, u)
    BY <1>0, <1>2, <1>5, <1>8 DEF PortInv
  <2>2. /\ doing[r] \notin T!Creating /\ peerPort[r] # peerPort[s] /\ Local(r)' = Local(r)
        /\ UNCHANGED doing[r]
    BY <1>2, <1>6, <1>8
  <2>3. OwnPort(r)'
    BY <1>2, <2>1, <2>2 DEF OwnPort
  <2>4. Apart(r, s)'
    <3>1. T!LocalPortsOf(s)' = {tcpswitchboardpointer, 0}
      BY <1>2, <1>3 DEF T!LocalPortsOf, Local
    <3>2. tcpswitchboardpointer # Local(r) /\ Local(r) # 0
      BY <1>1, <2>1, <2>2 DEF OwnPort, T!Creating, T!FirstPort
    <3>. QED BY <1>2, <2>2, <3>1, <3>2 DEF Apart
  <2>5. ASSUME NEW u \in Sessions \ {r, s}, doing'[u] # "start" PROVE Apart(r, u)'
    <3>1. Apart(r, u) /\ UNCHANGED doing[u]
      BY <1>2, <2>1, <2>5
    <3>2. CASE peerPort[u] # peerPort[s]
      <4>1. T!LocalPortsOf(u)' = T!LocalPortsOf(u)
        BY <1>2, <1>3, <3>2 DEF T!LocalPortsOf, Local
      <4>. QED BY <1>2, <2>2, <3>1, <4>1 DEF Apart
    <3>3. CASE peerPort[u] = peerPort[s]
      <4>1. T!LocalPortsOf(u)' = {tcpswitchboardpointer, from_port[u], connection[u].port}
        BY <1>2, <1>3, <3>3 DEF T!LocalPortsOf, Local
      <4>2. tcpswitchboardpointer # Local(r)
        BY <1>1, <2>1, <2>2 DEF OwnPort, T!Creating
      <4>. QED BY <1>2, <2>2, <3>1, <4>1, <4>2 DEF Apart, T!LocalPortsOf
    <3>. QED BY <3>2, <3>3
  <2>. QED BY <2>3, <2>4, <2>5
<1>. QED BY <1>7, <1>8 DEF PortInv

LEMMA NextPort ==
  ASSUME T!ConstantsAssumption, SessionInv, NEW s \in Sessions, Step(s)
  PROVE  PortInv'
<1>0. SessionTypes /\ CountInv /\ FreshInv /\ PortInv
  BY DEF SessionInv
<1>1. CASE T!Assign(s)
  BY <1>1, NextPortOfAssign
<1>2. CASE ~T!Assign(s)
  <2>1. /\ UNCHANGED <<tcpswitchboard, peerPort, entangled>>
        /\ \A u \in Sessions \ {s} : UNCHANGED <<doing[u], from_port[u], connection[u]>>
    <3>1. UNCHANGED <<tcpswitchboard, peerPort, entangled>>
      BY <1>2 DEF Step, T!LoadPort, T!StorePort, T!Connect, T!LookUp, T!Number, T!Transmit,
        T!Handle, T!Push, T!Resend, T!tables, T!ghosts
    <3>. QED BY <1>0, <3>1, OthersAreLeft
  <2>2. /\ \A r \in Sessions : Local(r)' = Local(r)
        /\ \A r \in Sessions \ {s} : T!LocalPortsOf(r)' = T!LocalPortsOf(r)
    BY <2>1 DEF Local, T!LocalPortsOf
  <2>3. doing[s] # "start"
    <3>1. doing[s] = "start" => connection[s].snd = 0 /\ wire[s] = <<>> /\ pending[s] = T!Nothing
      BY <1>0 DEF FreshInv, T!Closed
    <3>. QED BY <1>2, <3>1 DEF Step, T!LoadPort, T!StorePort, T!Connect, T!LookUp, T!Number,
      T!Transmit, T!Handle, T!Push, T!Resend
  <2>4. T!LocalPortsOf(s)' \subseteq T!LocalPortsOf(s) \cup IF doing[s] = "load" THEN {tcpswitchboardpointer} ELSE {}
    BY <1>0, <1>2, <2>1, PortMoves DEF T!LocalPortsOf, Local, Quiet
  <2>p. /\ \A r \in Sessions : Local(r) \in Nat /\ from_port[r] \in Nat
        /\ tcpswitchboardpointer \in Nat
    <3>1. \A r \in Sessions : peerPort[r] \in PeerPorts
      BY DEF PeerPorts
    <3>. QED BY <1>0, <3>1, Ports0 DEF SessionTypes, Local
  <2>5. s \notin entangled => OwnPort(s)' /\ \A u \in Sessions \ {s} : doing'[u] # "start" => Apart(s, u)'
    <3>. SUFFICES ASSUME s \notin entangled
                  PROVE  OwnPort(s)' /\ \A u \in Sessions \ {s} : doing'[u] # "start" => Apart(s, u)'
      OBVIOUS
    <3>1. OwnPort(s) /\ \A u \in Sessions \ {s} : doing[u] # "start" => Apart(s, u)
      BY <1>0, <2>3 DEF PortInv
    <3>2. OwnPort(s)'
      BY <1>0, <1>2, <2>1, <2>2, <2>3, <2>p, <3>1, PortMoves DEF OwnPort, Quiet, Local
    <3>3. doing'[s] \in T!Creating => doing[s] \in T!Creating
      BY <1>0, <1>2, <2>3, PortMoves DEF T!Creating, Quiet
    <3>4. ASSUME NEW u \in Sessions \ {s}, doing'[u] # "start" PROVE Apart(s, u)'
      BY <2>1, <2>2, <3>1, <3>3, <3>4 DEF Apart
    <3>. QED BY <3>2, <3>4
  <2>6. ASSUME NEW r \in Sessions \ entangled, r # s, doing[r] # "start"
        PROVE  OwnPort(r)' /\ \A u \in Sessions \ {r} : doing'[u] # "start" => Apart(r, u)'
    <3>1. OwnPort(r) /\ Apart(r, s) /\ \A u \in Sessions \ {r} : doing[u] # "start" => Apart(r, u)
      BY <1>0, <2>3, <2>6 DEF PortInv
    <3>2. doing[s] \in {"load", "store"} => doing[r] \notin T!Creating
      BY <3>1 DEF Apart, T!Creating
    <3>3. OwnPort(r)'
      <4>1. doing[s] = "store" => from_port[s] > Local(r)
        BY <3>1 DEF Apart
      <4>. QED BY <1>0, <1>2, <2>1, <2>2, <2>6, <2>p, <3>1, <3>2, <4>1, PortMoves
        DEF OwnPort, Quiet, T!Creating
    <3>4. Apart(r, s)'
      <4>1. doing[s] = "load" => tcpswitchboardpointer > Local(r)
        BY <3>1, <3>2 DEF OwnPort, T!Creating
      <4>2. Local(r) \notin T!LocalPortsOf(s)'
        BY <2>4, <2>p, <3>1, <4>1 DEF Apart
      <4>3. doing'[s] = "store" => from_port'[s] > Local(r)
        BY <1>0, <1>2, <2>1, <2>3, <3>1, <4>1, PortMoves DEF Apart, Quiet
      <4>4. doing'[s] \in T!Creating => doing[s] \in T!Creating
        BY <1>0, <1>2, <2>3, PortMoves DEF T!Creating, Quiet
      <4>. QED BY <2>1, <2>2, <2>6, <3>1, <4>2, <4>3, <4>4 DEF Apart
    <3>5. ASSUME NEW u \in Sessions \ {r, s}, doing'[u] # "start" PROVE Apart(r, u)'
      <4>1. Apart(r, u)
        BY <2>1, <3>1, <3>5
      <4>. QED BY <2>1, <2>2, <2>6, <4>1 DEF Apart
    <3>. QED BY <3>3, <3>4, <3>5
  <2>. QED BY <2>1, <2>3, <2>5, <2>6 DEF PortInv
<1>. QED BY <1>1, <1>2

-----------------------------------------------------------------------------
LEMMA NotStarted ==
  ASSUME SessionTypes, FreshInv, NEW s \in Sessions, Step(s)
  PROVE  /\ doing'[s] # "start"
         /\ ~T!Assign(s) => doing[s] # "start"
<1>1. doing[s] = "start" => connection[s].snd = 0 /\ wire[s] = <<>> /\ pending[s] = T!Nothing
  BY DEF FreshInv, T!Closed
<1>2. ~T!Assign(s) => doing[s] # "start"
  BY <1>1 DEF Step, T!LoadPort, T!StorePort, T!Connect, T!LookUp, T!Number, T!Transmit, T!Handle,
    T!Push, T!Resend
<1>3. T!Assign(s) => doing'[s] = "load"
  BY DEF T!Assign, T!Goto, SessionTypes
<1>. QED BY <1>2, <1>3, PortMoves DEF Quiet

(* The step of one session changes nothing of what another knows of its peer. *)
LEMMA OwnSessionIsLeft ==
  ASSUME T!ConstantsAssumption, SessionInv, NEW s \in Sessions, Step(s),
         NEW r \in Sessions \ entangled', r # s, doing[r] # "start"
  PROVE  /\ Local(r)' = Local(r)
         /\ UNCHANGED <<ethjmplist[peerPort[r]], seqlist[Local(r)], acklist[Local(r)], delivered[r]>>
<1>0. SessionTypes /\ FreshInv /\ PortInv /\ PortInv'
  BY NextPort DEF SessionInv
<1>1. UNCHANGED <<peerPort, doing[r]>> /\ r \in Sessions \ entangled
  BY <1>0, OthersAreLeft
<1>2. peerPort[r] # peerPort[s]
  <2>1. Apart(r, s)'
    BY <1>0, <1>1, NotStarted DEF PortInv
  <2>. QED BY <1>1, <2>1 DEF Apart
<1>3. peerPort[s] \in PeerPorts /\ peerPort[r] \in PeerPorts
  BY DEF PeerPorts
<1>4. Local(r)' = Local(r)
  BY <1>0, <1>1, <1>2, <1>3 DEF Step, T!Assign, T!LoadPort, T!StorePort, T!Connect, T!LookUp,
    T!Number, T!Transmit, T!Handle, T!Push,
    T!Resend, T!tables, SessionTypes, Local
<1>5. UNCHANGED ethjmplist[peerPort[r]]
  BY <1>0, <1>1, <1>2, <1>3 DEF Step, T!Assign, T!LoadPort, T!StorePort, T!Connect, T!LookUp,
    T!Number, T!Transmit, T!Handle, T!Push,
    T!Resend, T!tables, SessionTypes
<1>6. UNCHANGED delivered[r]
  <2>1. CASE T!Handle(s)
    <3>. DEFINE e == [kind |-> Head(wire[s]).kind, by |-> s, seq |-> Head(wire[s]).seq]
    <3>1. delivered' = IF ethjmplist[peerPort[s]] = None THEN delivered
                       ELSE [delivered EXCEPT ![ethjmplist[peerPort[s]]] = Append(@, e)]
      BY <2>1 DEF T!Handle
    <3>2. ethjmplist[peerPort[s]] # r
      BY <1>0, <1>2, <1>3 DEF FreshInv, T!ConstantsAssumption
    <3>. HIDE DEF e
    <3>. QED BY <1>0, <3>1, <3>2 DEF SessionTypes
  <2>2. CASE ~T!Handle(s)
    BY <2>2 DEF Step, T!Assign, T!LoadPort, T!StorePort, T!Connect, T!LookUp, T!Number, T!Transmit,
      T!Push, T!Resend
  <2>. QED BY <2>1, <2>2
<1>7. UNCHANGED <<seqlist[Local(r)], acklist[Local(r)]>>
  <2>1. CASE T!Assign(s)
    BY <1>4, <2>1 DEF T!Assign
  <2>2. CASE ~T!Assign(s)
    <3>1. Apart(r, s)
      BY <1>0, <1>1, <2>2, NotStarted DEF PortInv
    <3>2. Local(r) # from_port[s] /\ Local(r) # connection[s].port
      BY <3>1 DEF Apart, T!LocalPortsOf
    <3>3. Local(r) \in T!LocalPorts
      BY <1>0, <1>3 DEF SessionTypes, Local
    <3>4. CASE T!Connect(s)
      BY <1>0, <1>4, <3>2, <3>3, <3>4 DEF T!Connect, SessionTypes
    <3>5. CASE T!Handle(s)
      <4>1. Head(wire[s]).port = connection[s].port
        <5>1. wire[s] \in Seq(Segments) /\ wire[s] # <<>>
          BY <1>0, <3>5 DEF T!Handle, SessionTypes
        <5>2. 1 \in DOMAIN wire[s] /\ Head(wire[s]) = wire[s][1]
          BY <5>1
        <5>. QED BY <1>0, <5>2 DEF FreshInv
      <4>2. T!NumbersAfter(Head(wire[s]))
        BY <3>5 DEF T!Handle
      <4>3. PICK seq, ack : /\ seqlist' = [seqlist EXCEPT ![connection[s].port] = seq]
                            /\ acklist' = [acklist EXCEPT ![connection[s].port] = ack]
        BY <4>1, <4>2, Zenon DEF T!NumbersAfter
      <4>4. DOMAIN seqlist = T!LocalPorts /\ DOMAIN acklist = T!LocalPorts
        BY <1>0 DEF SessionTypes
      <4>. QED BY <1>4, <3>2, <3>3, <4>3, <4>4
    <3>6. CASE ~T!Connect(s) /\ ~T!Handle(s)
      BY <1>4, <2>2, <3>6 DEF Step, T!LoadPort, T!StorePort, T!LookUp, T!Number, T!Transmit,
        T!Push, T!Resend, T!tables
    <3>. QED BY <3>4, <3>5, <3>6
  <2>. QED BY <2>1, <2>2
<1>. QED BY <1>4, <1>5, <1>6, <1>7

Own(s) ==
  /\ refused[s] \subseteq hasty[s]
  /\ \A i \in 2 .. Len(received[s]) : received[s][i - 1] < received[s][i]
  /\ \A i \in 1 .. Len(delivered[s]) :
       /\ delivered[s][i].by = s
       /\ IF i = 1 THEN delivered[s][i].seq = 0
          ELSE delivered[s][i].seq - delivered[s][i - 1].seq \in {0, 1}

Talking == {"idle", "number", "transmit"}

LEMMA NextTalkOfOthers ==
  ASSUME T!ConstantsAssumption, SessionInv, NEW s \in Sessions, Step(s),
         NEW r \in Sessions \ entangled', r # s
  PROVE  /\ doing'[r] \in Talking => Talks(r)'
         /\ Own(r)'
<1>0. SessionTypes /\ FreshInv /\ TalkInv /\ T!SessionsAreOwn
  BY DEF SessionInv
<1>1. /\ UNCHANGED <<peerPort, doing[r], from_port[r], numbers[r], calls[r], connection[r],
                     pending[r], wire[r], received[r], heard[r], hasty[r], refused[r]>>
      /\ r \in Sessions \ entangled
  BY <1>0, OthersAreLeft
<1>2. Own(r)
  BY <1>0, <1>1 DEF T!SessionsAreOwn, Own
<1>3. CASE doing[r] = "start"
  <2>1. delivered[r] = <<>>
    BY <1>0, <1>3 DEF FreshInv
  <2>2. UNCHANGED delivered[r]
    <3>1. CASE T!Handle(s)
      <4>. DEFINE e == [kind |-> Head(wire[s]).kind, by |-> s, seq |-> Head(wire[s]).seq]
      <4>1. delivered' = IF ethjmplist[peerPort[s]] = None THEN delivered
                         ELSE [delivered EXCEPT ![ethjmplist[peerPort[s]]] = Append(@, e)]
        BY <3>1 DEF T!Handle
      <4>2. ethjmplist[peerPort[s]] # r
        <5>1. peerPort[s] \in PeerPorts
          BY DEF PeerPorts
        <5>. QED BY <1>0, <1>3, <5>1 DEF FreshInv, T!ConstantsAssumption
      <4>. HIDE DEF e
      <4>. QED BY <1>0, <4>1, <4>2 DEF SessionTypes
    <3>2. CASE ~T!Handle(s)
      BY <3>2 DEF Step, T!Assign, T!LoadPort, T!StorePort, T!Connect, T!LookUp, T!Number,
        T!Transmit, T!Push, T!Resend
    <3>. QED BY <3>1, <3>2
  <2>. QED BY <1>1, <1>2, <1>3, <2>2 DEF Own, Talking
<1>4. CASE doing[r] # "start"
  <2>1. /\ Local(r)' = Local(r)
        /\ UNCHANGED <<ethjmplist[peerPort[r]], seqlist[Local(r)], acklist[Local(r)], delivered[r]>>
    BY <1>4, OwnSessionIsLeft
  <2>2. Own(r)'
    BY <1>1, <1>2, <2>1 DEF Own
  <2>3. ASSUME doing'[r] \in Talking PROVE Talks(r)'
    <3>1. Talks(r)
      BY <1>0, <1>1, <2>3 DEF TalkInv, Talking
    <3>2. Handled(r)' = Handled(r)
      BY <2>1 DEF Handled
    <3>3. PeerInv(r)'
      BY <1>1, <3>1, <3>2 DEF Talks, PeerInv
    <3>4. WireInv(r)'
      BY <1>1, <3>1, <3>2 DEF Talks, WireInv
    <3>5. NumbersInv(r)'
      BY <1>1, <2>1, <3>1, <3>2 DEF Talks, NumbersInv
    <3>6. MessagesInv(r)'
      BY <1>1, <2>1, <3>1 DEF Talks, MessagesInv
    <3>. QED BY <3>3, <3>4, <3>5, <3>6 DEF Talks
  <2>. QED BY <2>2, <2>3
<1>. QED BY <1>3, <1>4

-----------------------------------------------------------------------------
LEMMA HandledIs ==
  ASSUME SessionTypes, NEW s \in Sessions
  PROVE  Handled(s) \in Int /\ Handled(s) >= -1
<1>1. delivered[s] \in Seq(Heard)
  BY DEF SessionTypes
<1>2. CASE delivered[s] = <<>>
  BY <1>2 DEF Handled
<1>3. CASE delivered[s] # <<>>
  <2>1. Len(delivered[s]) \in DOMAIN delivered[s]
    BY <1>1, <1>3
  <2>2. delivered[s][Len(delivered[s])] \in Heard
    BY <1>1, <2>1
  <2>. QED BY <1>3, <2>2 DEF Handled, Heard
<1>. QED BY <1>2, <1>3

LEMMA SegmentTypes ==
  ASSUME SessionTypes, NEW s \in Sessions
  PROVE  /\ wire[s] \in Seq(Segments)
         /\ \A i \in DOMAIN wire[s] :
              wire[s][i].seq \in Nat /\ wire[s][i].ack \in Nat /\ wire[s][i].has \in Nat /\ wire[s][i].port \in T!LocalPorts
         /\ received[s] \in Seq(Nat) /\ Len(received[s]) \in Nat
<1>1. wire[s] \in Seq(Segments) /\ received[s] \in Seq(Nat)
  BY DEF SessionTypes
<1>2. \A i \in DOMAIN wire[s] : wire[s][i] \in Segments
  BY <1>1
<1>. QED BY <1>1, <1>2 DEF Segments

(* What is on its way when its peer has sent something more. *)
LEMMA OfferedWire ==
  ASSUME SessionTypes, NEW s \in Sessions, T!Offer(s), pending'[s] \in Sent, connection'[s] \in Connections,
         UNCHANGED <<received, delivered>>,
         pending'[s].seq \in {Handled(s), Handled(s) + 1},
         connection'[s].rcv - Len(received[s]) = connection[s].rcv - Len(received[s]) \/ wire[s] = <<>>,
         \A i \in DOMAIN wire[s] : wire[s][i].seq <= pending'[s].seq,
         WireInv(s)
  PROVE  WireInv(s)'
<1>. DEFINE e == [kind |-> pending'[s].kind, seq |-> pending'[s].seq, port |-> connection'[s].port,
                  ack |-> connection'[s].rcv, has |-> Len(received[s])]
<1>1. Handled(s)' = Handled(s) /\ Handled(s) \in Int
  BY HandledIs DEF Handled
<1>2. pending'[s] # T!Nothing /\ pending'[s].seq \in Nat
  BY DEF Sent, T!Nothing
<1>3. /\ e.seq = pending'[s].seq /\ e.ack - e.has = connection'[s].rcv - Len(received'[s])
      /\ e.seq \in Nat
  BY <1>2
<1>4. wire' = wire \/ wire' = [wire EXCEPT ![s] = Append(@, e)]
  BY DEF T!Offer
<1>. HIDE DEF e
<1>5. wire'[s] = wire[s] \/ wire'[s] = Append(wire[s], e)
  BY <1>4 DEF SessionTypes
<1>6. wire[s] \in Seq(Segments)
  BY DEF SessionTypes
<1>7. \A i \in DOMAIN wire'[s] :
        \/ i \in DOMAIN wire[s] /\ wire'[s][i] = wire[s][i]
        \/ wire'[s][i] = e /\ (\A j \in DOMAIN wire'[s] : j <= i)
  BY <1>5, <1>6
<1>8. \A i \in DOMAIN wire[s] :
        /\ wire[s][i].seq \in {Handled(s), Handled(s) + 1} /\ wire[s][i].seq <= pending'[s].seq
        /\ wire[s][i].ack - wire[s][i].has = connection'[s].rcv - Len(received'[s])
  BY DEF WireInv
<1>9. \A i \in DOMAIN wire'[s] :
        /\ wire'[s][i].seq \in {Handled(s), Handled(s) + 1} /\ wire'[s][i].seq <= pending'[s].seq
        /\ wire'[s][i].ack - wire'[s][i].has = connection'[s].rcv - Len(received'[s])
  BY <1>2, <1>3, <1>7, <1>8
<1>10. ASSUME NEW i \in DOMAIN wire'[s], NEW j \in DOMAIN wire'[s], i <= j
       PROVE wire'[s][i].seq <= wire'[s][j].seq
  <2>0. /\ DOMAIN wire'[s] \subseteq Nat \ {0} /\ DOMAIN wire[s] = 1 .. Len(wire[s])
        /\ Len(wire[s]) \in Nat
    BY <1>5, <1>6
  <2>1. CASE wire'[s][j] = e
    BY <1>3, <1>9, <2>1
  <2>2. CASE wire'[s][j] # e
    <3>1. /\ j \in DOMAIN wire[s] /\ wire'[s][j] = wire[s][j] /\ i \in DOMAIN wire[s]
          /\ wire'[s][i] = wire[s][i]
      <4>1. j \in DOMAIN wire[s] /\ wire'[s][j] = wire[s][j]
        BY <1>7, <2>2
      <4>2. i \in DOMAIN wire[s]
        BY <1>10, <2>0, <4>1
      <4>3. wire'[s][i] = wire[s][i]
        BY <1>5, <1>6, <4>2
      <4>. QED BY <4>1, <4>2, <4>3
    <3>. QED BY <1>10, <3>1 DEF WireInv
  <2>. QED BY <2>1, <2>2
<1>. QED BY <1>1, <1>2, <1>9, <1>10 DEF WireInv

LEMMA TalkAfterConnect ==
  ASSUME T!ConstantsAssumption, SessionInv, NEW s \in Sessions, s \notin entangled', T!Connect(s)
  PROVE  Talks(s)' /\ Own(s)'
<1>0. SessionTypes /\ FreshInv /\ PortInv /\ SessionTypes'
  BY NextTypes DEF SessionInv, Step
<1>1. doing[s] = "connect" /\ doing'[s] = "idle"
  BY <1>0 DEF T!Connect, T!Goto, SessionTypes
<1>2. /\ connection[s] = T!Closed /\ pending[s] = T!Nothing /\ wire[s] = <<>>
      /\ received[s] = <<>> /\ delivered[s] = <<>> /\ heard[s] = -1
      /\ calls[s] = 0 /\ hasty[s] = {} /\ refused[s] = {}
  BY <1>0, <1>1 DEF FreshInv, T!Creating
<1>3. UNCHANGED <<peerPort, tcpswitchboard, from_port, calls, received, delivered, heard, hasty, refused, entangled>>
  BY DEF T!Connect, T!ghosts
<1>4. Handled(s) = -1 /\ Handled(s)' = -1 /\ Local(s)' = Local(s)
  BY <1>2, <1>3 DEF Handled, Local
<1>5. from_port[s] = Local(s) /\ Local(s) \in T!LocalPorts /\ Local(s) >= T!FirstPort
  <2>1. OwnPort(s)
    BY <1>0, <1>1, <1>3 DEF PortInv
  <2>2. peerPort[s] \in PeerPorts
    BY DEF PeerPorts
  <2>. QED BY <1>0, <1>1, <2>1, <2>2 DEF OwnPort, SessionTypes, Local
<1>6. Len(<<>>) = 0
  OBVIOUS
<1>7. Own(s)'
  BY <1>2, <1>3, <1>6 DEF Own
<1>8. NumbersInv(s)'
  <2>1. ethjmplist'[peerPort[s]] = s
    <3>1. peerPort[s] \in PeerPorts
      BY DEF PeerPorts
    <3>. QED BY <1>0, <3>1 DEF T!Connect, SessionTypes
  <2>2. acklist'[Local(s)] = 0
    BY <1>0, <1>5 DEF T!Connect, SessionTypes
  <2>. QED BY <1>1, <1>2, <1>3, <1>4, <2>1, <2>2 DEF NumbersInv
<1>9. MessagesInv(s)'
  BY <1>1, <1>2, <1>3 DEF MessagesInv
<1>10. CASE UNCHANGED <<connection, pending, wire>>
  <2>1. PeerInv(s)'
    BY <1>2, <1>3, <1>10 DEF PeerInv, T!Closed
  <2>2. WireInv(s)'
    BY <1>2, <1>10 DEF WireInv
  <2>. QED BY <1>7, <1>8, <1>9, <2>1, <2>2 DEF Talks
<1>11. CASE ~UNCHANGED <<connection, pending, wire>>
  <2>1. /\ connection' = [connection EXCEPT ![s] = [port |-> from_port[s], rcv |-> tcp_creat_ito + 1, snd |-> 1]]
        /\ pending' = [pending EXCEPT ![s] = [kind |-> "synack", seq |-> 0]]
        /\ T!Offer(s)
    BY <1>11 DEF T!Connect
  <2>2. connection'[s] = [port |-> from_port[s], rcv |-> tcp_creat_ito + 1, snd |-> 1]
    BY <1>0, <2>1 DEF SessionTypes
  <2>3. pending'[s] = [kind |-> "synack", seq |-> 0]
    BY <1>0, <2>1 DEF SessionTypes
  <2>4. pending'[s] # T!Nothing /\ pending'[s] \in Sent /\ pending'[s].seq = 0
    BY <2>3 DEF T!Nothing, Sent
  <2>5. connection'[s].port # 0 /\ connection'[s].snd = 1
    BY <1>5, <2>2 DEF T!FirstPort
  <2>6. PeerInv(s)'
    BY <1>4, <2>4, <2>5 DEF PeerInv
  <2>7. WireInv(s)
    BY <1>2 DEF WireInv
  <2>8. connection'[s] \in Connections
    BY <1>0 DEF SessionTypes
  <2>9. WireInv(s)'
    BY <1>0, <1>2, <1>3, <1>4, <2>1, <2>4, <2>7, <2>8, OfferedWire
  <2>. QED BY <1>7, <1>8, <1>9, <2>6, <2>9 DEF Talks
<1>. QED BY <1>10, <1>11

(* What is known of a session that has been made. *)
LEMMA TalksNow ==
  ASSUME T!ConstantsAssumption, SessionInv, NEW s \in Sessions \ entangled, doing[s] \in Talking
  PROVE  /\ Talks(s) /\ Own(s)
         /\ Local(s) \in T!LocalPorts /\ Local(s) >= T!FirstPort
         /\ from_port[s] = Local(s) /\ connection[s].port \in {0, Local(s)}
         /\ connection[s].rcv \in Nat /\ connection[s].snd \in Nat
         /\ numbers[s].seq \in Nat /\ numbers[s].ack \in Nat /\ calls[s] \in Nat
         /\ hasty[s] \subseteq Nat /\ refused[s] \subseteq Nat /\ heard[s] \in Int
         /\ seqlist[Local(s)] \in Nat /\ acklist[Local(s)] \in Nat
         /\ pending[s] # T!Nothing => pending[s] \in Sent /\ pending[s].seq \in Nat
<1>0. SessionTypes /\ PortInv /\ TalkInv /\ T!SessionsAreOwn
  BY DEF SessionInv
<1>1. Talks(s) /\ Own(s)
  BY <1>0 DEF TalkInv, T!SessionsAreOwn, Own, Talking
<1>2. OwnPort(s)
  BY <1>0 DEF PortInv, Talking
<1>3. peerPort[s] \in PeerPorts
  BY DEF PeerPorts
<1>4. Local(s) \in T!LocalPorts
  BY <1>0, <1>3 DEF SessionTypes, Local
<1>5. Local(s) >= T!FirstPort /\ from_port[s] = Local(s) /\ connection[s].port \in {0, Local(s)}
  BY <1>2 DEF OwnPort, Talking
<1>6. numbers[s] \in [seq : Nat, ack : Nat]
  BY <1>0 DEF SessionTypes
<1>7. connection[s].rcv \in Nat /\ connection[s].snd \in Nat
  BY <1>0, ConnectionMoves
<1>8. pending[s] # T!Nothing => pending[s] \in Sent /\ pending[s].seq \in Nat
  BY <1>0 DEF SessionTypes, Sent
<1>9. calls[s] \in Nat /\ hasty[s] \subseteq Nat /\ refused[s] \subseteq Nat /\ heard[s] \in Int
  BY <1>0 DEF SessionTypes
<1>10. seqlist[Local(s)] \in Nat /\ acklist[Local(s)] \in Nat
  BY <1>0, <1>4 DEF SessionTypes
<1>. QED BY <1>1, <1>4, <1>5, <1>6, <1>7, <1>8, <1>9, <1>10

LEMMA TalkAfterLookUp ==
  ASSUME T!ConstantsAssumption, SessionInv, NEW s \in Sessions, s \notin entangled', T!LookUp(s)
  PROVE  Talks(s)' /\ Own(s)'
<1>0. SessionTypes
  BY DEF SessionInv
<1>1. doing[s] = "idle" /\ doing'[s] = "number" /\ calls'[s] = calls[s] + 1
  BY <1>0 DEF T!LookUp, T!Goto, SessionTypes
<1>2. UNCHANGED <<peerPort, T!tables, numbers, connection, pending, wire, received, delivered, T!ghosts>>
  BY DEF T!LookUp, T!peer
<1>3. s \in Sessions \ entangled
  BY <1>2 DEF T!ghosts
<1>4. /\ Talks(s) /\ Own(s) /\ calls[s] \in Nat /\ hasty[s] \subseteq Nat
  BY <1>1, <1>3, TalksNow DEF Talking
<1>5. Handled(s)' = Handled(s) /\ Local(s)' = Local(s)
  BY <1>2 DEF Handled, Local, T!tables
<1>6. Own(s)'
  BY <1>2, <1>4 DEF Own, T!ghosts
<1>7. PeerInv(s)' /\ WireInv(s)'
  BY <1>2, <1>4, <1>5 DEF Talks, PeerInv, WireInv, T!ghosts
<1>8. NumbersInv(s)'
  BY <1>1, <1>2, <1>4, <1>5 DEF Talks, NumbersInv, T!ghosts, T!tables
<1>9. MessagesInv(s)'
  <2>1. MessagesInv(s) /\ UNCHANGED <<hasty, received>>
    BY <1>2, <1>4 DEF Talks, T!ghosts
  <2>2. \A n \in hasty[s] : n <= calls[s] + 1 /\ n # calls[s] + 1
    BY <1>4, <2>1 DEF MessagesInv
  <2>3. \A i \in DOMAIN received[s] : received[s][i] <= calls[s] + 1 /\ received[s][i] < calls[s] + 1
    <3>1. \A i \in DOMAIN received[s] : received[s][i] \in Nat
      BY <1>0 DEF SessionTypes
    <3>. QED BY <1>4, <2>1, <3>1 DEF MessagesInv
  <2>. QED BY <1>1, <2>1, <2>2, <2>3 DEF MessagesInv
<1>. QED BY <1>6, <1>7, <1>8, <1>9 DEF Talks

LEMMA TalkAfterNumber ==
  ASSUME T!ConstantsAssumption, SessionInv, NEW s \in Sessions, s \notin entangled', T!Number(s)
  PROVE  Talks(s)' /\ Own(s)'
<1>0. SessionTypes
  BY DEF SessionInv
<1>1. doing[s] = "number" /\ doing'[s] = "transmit"
  BY <1>0 DEF T!Number, T!Goto, SessionTypes
<1>2. UNCHANGED <<peerPort, T!tables, from_port, calls, connection, pending, wire, received, delivered, heard, refused, entangled>>
  BY DEF T!Number, T!peer
<1>3. s \in Sessions \ entangled
  BY <1>2
<1>4. /\ Talks(s) /\ Own(s) /\ calls[s] \in Nat /\ hasty[s] \subseteq Nat
      /\ from_port[s] = Local(s) /\ connection[s].port \in {0, Local(s)}
      /\ connection[s].rcv \in Nat /\ seqlist[Local(s)] \in Nat /\ acklist[Local(s)] \in Nat
  BY <1>1, <1>3, TalksNow DEF Talking
<1>5. Handled(s)' = Handled(s) /\ Local(s)' = Local(s) /\ Handled(s) \in Int
  BY <1>0, <1>2, HandledIs DEF Handled, Local, T!tables
<1>6. numbers'[s] = [seq |-> seqlist[Local(s)], ack |-> acklist[Local(s)]]
  BY <1>0, <1>4 DEF T!Number, SessionTypes
<1>7. hasty'[s] = IF heard[s] = Len(received[s]) THEN hasty[s] ELSE hasty[s] \cup {calls[s]}
  BY <1>0 DEF T!Number, SessionTypes
<1>8. Own(s)'
  BY <1>2, <1>4, <1>7 DEF Own
<1>9. PeerInv(s)' /\ WireInv(s)'
  BY <1>2, <1>4, <1>5 DEF Talks, PeerInv, WireInv
<1>10. NumbersInv(s)'
  BY <1>1, <1>2, <1>4, <1>5, <1>6 DEF Talks, NumbersInv, T!tables
<1>11. MessagesInv(s)'
  <2>1. MessagesInv(s)
    BY <1>4 DEF Talks
  <2>2. \A n \in hasty'[s] : n <= calls[s]
    BY <1>4, <1>7, <2>1 DEF MessagesInv
  <2>3. ASSUME calls[s] \notin hasty'[s]
        PROVE connection[s].port = Local(s) /\ numbers'[s].seq = connection[s].rcv
    <3>1. heard[s] = Len(received[s]) /\ Len(received[s]) \in Nat
      BY <1>0, <1>7, <2>3, SegmentTypes
    <3>2. heard[s] >= 0 /\ heard[s] # -1
      BY <3>1
    <3>3. connection[s].port = Local(s)
      BY <1>4, <3>2 DEF Talks, PeerInv
    <3>4. seqlist[Local(s)] - heard[s] = connection[s].rcv - Len(received[s])
      BY <1>4, <3>2 DEF Talks, NumbersInv
    <3>5. seqlist[Local(s)] = connection[s].rcv
      BY <1>4, <3>1, <3>4
    <3>. QED BY <1>6, <3>3, <3>5
  <2>. QED BY <1>1, <1>2, <1>5, <2>1, <2>2, <2>3 DEF MessagesInv
<1>. QED BY <1>8, <1>9, <1>10, <1>11 DEF Talks

(* A segment that acknowledges what the peer waits for frees it. *)
LEMMA AcknowledgedIs ==
  ASSUME SessionTypes, NEW s \in Sessions, NEW port, NEW ack
  PROVE  T!Acknowledged(s, port, ack)[s] # pending[s] =>
           /\ T!Acknowledged(s, port, ack)[s] = T!Nothing
           /\ pending[s] # T!Nothing /\ ack = pending[s].seq + 1 /\ connection[s].port = port
BY DEF T!Acknowledged, SessionTypes

LEMMA TalkAfterTransmit ==
  ASSUME T!ConstantsAssumption, SessionInv, NEW s \in Sessions, s \notin entangled', T!Transmit(s)
  PROVE  Talks(s)' /\ Own(s)'
<1>0. SessionTypes /\ SessionTypes'
  BY NextTypes DEF SessionInv, Step
<1>1. doing[s] = "transmit" /\ doing'[s] = "idle"
  BY <1>0 DEF T!Transmit, T!Goto, SessionTypes
<1>2. UNCHANGED <<peerPort, T!tables, from_port, numbers, calls, wire, delivered, heard, hasty, entangled>>
  BY DEF T!Transmit
<1>3. s \in Sessions \ entangled
  BY <1>2
<1>4. /\ Talks(s) /\ Own(s) /\ calls[s] \in Nat /\ hasty[s] \subseteq Nat
      /\ from_port[s] = Local(s) /\ connection[s].port \in {0, Local(s)}
      /\ connection[s].rcv \in Nat /\ connection[s].snd \in Nat
      /\ numbers[s].seq \in Nat /\ numbers[s].ack \in Nat
      /\ pending[s] # T!Nothing => pending[s].seq \in Nat
  BY <1>1, <1>3, TalksNow DEF Talking
<1>5. Handled(s)' = Handled(s) /\ Local(s)' = Local(s) /\ Handled(s) \in Int
  BY <1>0, <1>2, HandledIs DEF Handled, Local, T!tables
<1>6. PeerInv(s) /\ WireInv(s) /\ NumbersInv(s) /\ MessagesInv(s)
  BY <1>4 DEF Talks
<1>7. /\ connection'[s].port = connection[s].port /\ connection'[s].snd = connection[s].snd
      /\ connection'[s].rcv = IF UNCHANGED received THEN connection[s].rcv ELSE connection[s].rcv + 1
  BY <1>0, ConnectionMoves
<1>8. pending'[s] # pending[s] =>
        pending'[s] = T!Nothing /\ pending[s] # T!Nothing /\ pending[s].seq = Handled(s) /\ connection[s].port = Local(s)
  <2>1. CASE pending' = T!Acknowledged(s, from_port[s], numbers[s].ack)
    <3>. SUFFICES ASSUME pending'[s] # pending[s]
                  PROVE  pending'[s] = T!Nothing /\ pending[s] # T!Nothing /\ pending[s].seq = Handled(s) /\ connection[s].port = Local(s)
      OBVIOUS
    <3>1. /\ pending'[s] = T!Nothing /\ pending[s] # T!Nothing
          /\ numbers[s].ack = pending[s].seq + 1
          /\ connection[s].port = Local(s)
      BY <1>0, <1>4, <2>1, AcknowledgedIs
    <3>2. numbers[s].ack <= Handled(s) + 1
      BY <1>1, <1>6 DEF NumbersInv
    <3>3. pending[s].seq \in {Handled(s), Handled(s) + 1}
      BY <1>6, <3>1 DEF PeerInv
    <3>. QED BY <1>4, <1>5, <3>1, <3>2, <3>3
  <2>2. CASE UNCHANGED pending
    BY <2>2
  <2>. QED BY <2>1, <2>2 DEF T!Transmit
<1>9. \/ UNCHANGED received[s] /\ UNCHANGED received
      \/ /\ received'[s] = Append(received[s], calls[s]) /\ ~UNCHANGED received
         /\ UNCHANGED refused
  <2>1. received' = [received EXCEPT ![s] = Append(@, calls[s])] => received'[s] = Append(received[s], calls[s])
    BY <1>0 DEF SessionTypes
  <2>2. Append(received[s], calls[s]) # received[s]
    BY <1>0, SegmentTypes
  <2>. QED BY <2>1, <2>2, Zenon DEF T!Transmit
<1>10. received[s] \in Seq(Nat) /\ Len(received[s]) \in Nat /\ \A i \in DOMAIN received[s] : received[s][i] \in Nat
  BY <1>0, SegmentTypes
<1>11. connection'[s].rcv - Len(received'[s]) = connection[s].rcv - Len(received[s])
  <2>1. CASE UNCHANGED received
    BY <1>7, <2>1
  <2>2. CASE ~UNCHANGED received
    <3>1. received'[s] = Append(received[s], calls[s]) /\ connection'[s].rcv = connection[s].rcv + 1
      BY <1>7, <1>9, <2>2
    <3>2. Len(received'[s]) = Len(received[s]) + 1
      BY <1>10, <3>1
    <3>. QED BY <1>4, <1>10, <3>1, <3>2
  <2>. QED BY <2>1, <2>2
<1>12. PeerInv(s)'
  <2>1. connection[s].port = 0 => connection'[s] = T!Closed /\ pending'[s] = T!Nothing /\ wire'[s] = <<>> /\ heard'[s] = -1
    <3>. SUFFICES ASSUME connection[s].port = 0
                  PROVE  connection'[s] = T!Closed /\ pending'[s] = T!Nothing /\ wire'[s] = <<>> /\ heard'[s] = -1
      OBVIOUS
    <3>1. connection[s] = T!Closed /\ pending[s] = T!Nothing /\ wire[s] = <<>> /\ heard[s] = -1
      BY <1>6 DEF PeerInv
    <3>2. pending'[s] = T!Nothing
      BY <1>8, <3>1
    <3>3. connection[s].port # from_port[s]
      BY <1>4, TalksNow, <1>1, <1>3 DEF Talking, T!FirstPort
    <3>4. UNCHANGED connection
      BY <3>3, Zenon DEF T!Transmit
    <3>. QED BY <1>2, <3>1, <3>2, <3>4
  <2>2. CASE UNCHANGED pending[s]
    BY <1>5, <1>6, <1>7, <2>1, <2>2 DEF PeerInv
  <2>3. CASE ~UNCHANGED pending[s]
    BY <1>5, <1>6, <1>7, <1>8, <2>1, <2>3 DEF PeerInv
  <2>. QED BY <2>2, <2>3
<1>13. WireInv(s)'
  <2>1. \A i \in DOMAIN wire[s] : wire[s][i].ack - wire[s][i].has = connection'[s].rcv - Len(received'[s])
    BY <1>6, <1>11 DEF WireInv
  <2>2. \A i \in DOMAIN wire[s] : wire[s][i].seq <= IF pending'[s] = T!Nothing THEN Handled(s) ELSE pending'[s].seq
    BY <1>6, <1>8 DEF WireInv
  <2>. QED BY <1>2, <1>5, <1>6, <2>1, <2>2 DEF WireInv
<1>14. NumbersInv(s)'
  BY <1>1, <1>2, <1>5, <1>6, <1>11 DEF NumbersInv, T!tables
<1>15. MessagesInv(s)'
  <2>1. \A i \in DOMAIN received'[s] : received'[s][i] <= calls[s]
    <3>1. \A i \in DOMAIN received[s] : received[s][i] <= calls[s]
      BY <1>6 DEF MessagesInv
    <3>2. CASE UNCHANGED received[s]
      BY <3>1, <3>2
    <3>3. CASE received'[s] = Append(received[s], calls[s])
      BY <1>4, <1>10, <3>1, <3>3
    <3>. QED BY <1>9, <3>2, <3>3
  <2>. QED BY <1>1, <1>2, <1>6, <2>1 DEF MessagesInv
<1>16. Own(s)'
  <2>1. \A i \in 2 .. Len(received'[s]) : received'[s][i - 1] < received'[s][i]
    <3>1. CASE UNCHANGED received[s]
      BY <1>4, <3>1 DEF Own
    <3>2. CASE received'[s] = Append(received[s], calls[s])
      <4>. SUFFICES ASSUME NEW i \in 2 .. Len(received'[s]) PROVE received'[s][i - 1] < received'[s][i]
        OBVIOUS
      <4>1. Len(received'[s]) = Len(received[s]) + 1
        BY <1>10, <3>2
      <4>2. CASE i = Len(received[s]) + 1
        <5>1. i - 1 \in DOMAIN received[s] /\ i - 1 \in 1 .. Len(received[s])
          BY <1>10, <4>1, <4>2
        <5>2. received'[s][i] = calls[s] /\ received'[s][i - 1] = received[s][i - 1]
          BY <1>10, <3>2, <4>2, <5>1
        <5>3. received[s][i - 1] < calls[s]
          BY <1>1, <1>6, <5>1 DEF MessagesInv
        <5>. QED BY <5>2, <5>3
      <4>3. CASE i # Len(received[s]) + 1
        <5>1. /\ i \in 2 .. Len(received[s]) /\ i - 1 \in 1 .. Len(received[s])
              /\ i \in 1 .. Len(received[s])
          BY <1>10, <4>1, <4>3
        <5>2. received'[s][i] = received[s][i] /\ received'[s][i - 1] = received[s][i - 1]
          BY <1>10, <3>2, <5>1
        <5>. QED BY <1>4, <5>1, <5>2 DEF Own
      <4>. QED BY <4>2, <4>3
    <3>. QED BY <1>9, <3>1, <3>2
  <2>2. refused'[s] \subseteq hasty[s]
    <3>1. CASE UNCHANGED refused
      BY <1>4, <3>1 DEF Own
    <3>2. CASE ~UNCHANGED refused
      <4>1. /\ ~(connection[s].port = from_port[s] /\ connection[s].rcv = numbers[s].seq)
            /\ refused' = [refused EXCEPT ![s] = @ \cup {calls[s]}]
        BY <3>2, Zenon DEF T!Transmit
      <4>2. calls[s] \in hasty[s]
        BY <1>1, <1>4, <1>6, <4>1 DEF MessagesInv
      <4>. QED BY <1>0, <1>4, <4>1, <4>2 DEF Own, SessionTypes
    <3>. QED BY <3>1, <3>2
  <2>. QED BY <1>2, <1>4, <2>1, <2>2 DEF Own
<1>. QED BY <1>12, <1>13, <1>14, <1>15, <1>16 DEF Talks

LEMMA TalkAfterPeer ==
  ASSUME T!ConstantsAssumption, SessionInv, NEW s \in Sessions, s \notin entangled',
         T!Push(s, "push") \/ T!Push(s, "fin") \/ T!Push(s, "last") \/ T!Resend(s), doing'[s] \in Talking
  PROVE  Talks(s)' /\ Own(s)'
<1>0. SessionTypes /\ SessionTypes'
  BY NextTypes DEF SessionInv, Step
<1>1. UNCHANGED <<peerPort, T!tables, T!program, received, delivered, T!ghosts>>
  BY DEF T!Push, T!Resend
<1>2. s \in Sessions \ entangled /\ doing[s] \in Talking
  BY <1>1 DEF T!ghosts, T!program
<1>3. /\ Talks(s) /\ Own(s)
      /\ connection[s].rcv \in Nat /\ connection[s].snd \in Nat
      /\ pending[s] # T!Nothing => pending[s] \in Sent /\ pending[s].seq \in Nat
  BY <1>2, TalksNow
<1>4. Handled(s)' = Handled(s) /\ Local(s)' = Local(s) /\ Handled(s) \in Int
  BY <1>0, <1>1, HandledIs DEF Handled, Local, T!tables
<1>5. PeerInv(s) /\ WireInv(s) /\ NumbersInv(s) /\ MessagesInv(s)
  BY <1>3 DEF Talks
<1>6. T!Offer(s)
  BY DEF T!Push, T!Resend
<1>7. /\ connection'[s].port = connection[s].port /\ connection'[s].rcv = connection[s].rcv
      /\ connection[s].port # 0
      /\ pending'[s] \in Sent /\ pending'[s].seq \in {Handled(s), Handled(s) + 1}
      /\ connection'[s].snd <= MaxPushes[s] => connection'[s].snd = pending'[s].seq + 1
      /\ \A i \in DOMAIN wire[s] : wire[s][i].seq <= pending'[s].seq
  <2>1. CASE T!Resend(s)
    <3>1. UNCHANGED connection /\ pending[s] # T!Nothing
      BY <2>1 DEF T!Resend
    <3>2. pending'[s] \in Sent /\ pending'[s].seq = pending[s].seq
      BY <1>0, <2>1, Repeated
    <3>. QED BY <1>3, <1>5, <3>1, <3>2 DEF PeerInv, WireInv
  <2>2. ASSUME NEW kind \in {"push", "fin", "last"}, T!Push(s, kind)
        PROVE  /\ connection'[s].port = connection[s].port /\ connection'[s].rcv = connection[s].rcv
               /\ connection[s].port # 0
               /\ pending'[s] \in Sent /\ pending'[s].seq \in {Handled(s), Handled(s) + 1}
               /\ connection'[s].snd <= MaxPushes[s] => connection'[s].snd = pending'[s].seq + 1
               /\ \A i \in DOMAIN wire[s] : wire[s][i].seq <= pending'[s].seq
    <3>1. pending[s] = T!Nothing /\ connection[s].snd \in 1 .. MaxPushes[s]
      BY <2>2 DEF T!Push
    <3>2. pending'[s] = [kind |-> kind, seq |-> connection[s].snd]
      BY <1>0, <2>2 DEF T!Push, SessionTypes
    <3>3. pending'[s] \in Sent /\ pending'[s].seq = connection[s].snd
      BY <1>3, <3>2 DEF Sent
    <3>4. connection[s].snd = Handled(s) + 1
      BY <1>5, <3>1 DEF PeerInv
    <3>5. MaxPushes[s] \in Nat
      BY DEF T!ConstantsAssumption
    <3>6. /\ connection'[s].port = connection[s].port /\ connection'[s].rcv = connection[s].rcv
          /\ connection'[s].snd <= MaxPushes[s] => connection'[s].snd = connection[s].snd + 1
      BY <1>0, <2>2, <3>5, ConnectionMoves
    <3>7. connection[s].port # 0
      BY <1>5, <3>1 DEF PeerInv, T!Closed
    <3>8. \A i \in DOMAIN wire[s] : wire[s][i].seq <= Handled(s) /\ wire[s][i].seq \in Nat
      BY <1>0, <1>5, <3>1, SegmentTypes DEF WireInv
    <3>9. \A i \in DOMAIN wire[s] : wire[s][i].seq <= pending'[s].seq
      BY <1>4, <3>3, <3>4, <3>8
    <3>. QED BY <3>3, <3>4, <3>6, <3>7, <3>9
  <2>. QED BY <2>1, <2>2
<1>8. pending'[s] # T!Nothing
  BY <1>7 DEF Sent, T!Nothing
<1>9. PeerInv(s)'
  BY <1>4, <1>7, <1>8 DEF PeerInv
<1>10. WireInv(s)'
  <2>1. connection'[s] \in Connections
    BY <1>0 DEF SessionTypes
  <2>2. connection'[s].rcv - Len(received[s]) = connection[s].rcv - Len(received[s])
    BY <1>7
  <2>3. UNCHANGED <<received, delivered>>
    BY <1>1
  <2>. QED BY <1>0, <1>5, <1>6, <1>7, <2>1, <2>2, <2>3, OfferedWire
<1>11. NumbersInv(s)'
  BY <1>1, <1>4, <1>5, <1>7 DEF NumbersInv, T!tables, T!program, T!ghosts
<1>12. MessagesInv(s)'
  BY <1>1, <1>4, <1>5, <1>7 DEF MessagesInv, T!program, T!ghosts
<1>13. Own(s)'
  BY <1>1, <1>3 DEF Own, T!ghosts
<1>. QED BY <1>9, <1>10, <1>11, <1>12, <1>13 DEF Talks

LEMMA TalkAfterHandle ==
  ASSUME T!ConstantsAssumption, SessionInv, NEW s \in Sessions, s \notin entangled', T!Handle(s), doing'[s] \in Talking
  PROVE  Talks(s)' /\ Own(s)'
<1>. DEFINE p == Head(wire[s])
            e == [kind |-> p.kind, by |-> s, seq |-> p.seq]
<1>0. SessionTypes /\ SessionTypes' /\ FreshInv
  BY NextTypes DEF SessionInv, Step
<1>1. UNCHANGED <<peerPort, tcpswitchboard, ethjmplist, T!program, connection, received, hasty, refused, entangled>>
  BY DEF T!Handle
<1>2. s \in Sessions \ entangled /\ doing[s] \in Talking
  BY <1>1 DEF T!program
<1>3. /\ Talks(s) /\ Own(s) /\ Local(s) \in T!LocalPorts
      /\ connection[s].port \in {0, Local(s)}
      /\ connection[s].rcv \in Nat /\ connection[s].snd \in Nat /\ numbers[s].ack \in Nat
      /\ pending[s] # T!Nothing => pending[s] \in Sent /\ pending[s].seq \in Nat
  BY <1>2, TalksNow
<1>4. Local(s)' = Local(s) /\ Handled(s) \in Int /\ Handled(s) >= -1
  BY <1>0, <1>1, HandledIs DEF Local
<1>5. PeerInv(s) /\ WireInv(s) /\ NumbersInv(s) /\ MessagesInv(s)
  BY <1>3 DEF Talks
<1>6. /\ wire[s] \in Seq(Segments) /\ wire[s] # <<>>
      /\ wire'[s] = Tail(wire[s]) /\ 1 \in DOMAIN wire[s] /\ p = wire[s][1]
  BY <1>0 DEF T!Handle, SessionTypes
<1>7. /\ p.seq \in Nat /\ p.ack \in Nat /\ p.has \in Nat
      /\ p.port = connection[s].port
      /\ p.seq \in {Handled(s), Handled(s) + 1}
      /\ p.seq <= IF pending[s] = T!Nothing THEN Handled(s) ELSE pending[s].seq
      /\ p.ack - p.has = connection[s].rcv - Len(received[s])
  BY <1>0, <1>5, <1>6, SegmentTypes DEF FreshInv, WireInv
<1>8. connection[s].port # 0 /\ p.port = Local(s)
  BY <1>3, <1>5, <1>6, <1>7 DEF PeerInv
<1>9. seqlist'[Local(s)] = p.ack /\ acklist'[Local(s)] <= p.seq + 1
  <2>1. /\ seqlist' = [seqlist EXCEPT ![p.port] = p.ack]
        /\ acklist' = [acklist EXCEPT ![p.port] = p.seq + T!Counts(p)]
    BY DEF T!Handle, T!NumbersAfter
  <2>2. T!Counts(p) \in {0, 1}
    BY <1>0, CountsOneOrNone
  <2>3. PICK n : n = T!Counts(p)
    OBVIOUS
  <2>4. seqlist'[p.port] = p.ack /\ acklist'[p.port] = p.seq + n
    <3>1. p.port \in T!LocalPorts
      BY <1>3, <1>8
    <3>. HIDE DEF p
    <3>. QED BY <1>0, <2>1, <2>3, <3>1 DEF SessionTypes
  <2>. HIDE DEF p
  <2>. QED BY <1>7, <1>8, <2>2, <2>3, <2>4
<1>10. heard'[s] = p.has
  BY <1>0 DEF T!Handle, SessionTypes
<1>11. delivered'[s] = Append(delivered[s], e)
  <2>1. delivered' = IF ethjmplist[peerPort[s]] = None THEN delivered
                     ELSE [delivered EXCEPT ![ethjmplist[peerPort[s]]] = Append(@, e)]
    BY DEF T!Handle
  <2>2. ethjmplist[peerPort[s]] = s /\ s # None
    BY <1>5 DEF NumbersInv, T!ConstantsAssumption
  <2>. HIDE DEF e
  <2>. QED BY <1>0, <2>1, <2>2 DEF SessionTypes
<1>12. e.seq = p.seq /\ e.by = s
  OBVIOUS
<1>13. delivered[s] \in Seq(Heard) /\ delivered'[s] \in Seq(Heard) /\ Len(delivered[s]) \in Nat
  BY <1>0 DEF SessionTypes
<1>14. pending'[s] = pending[s] \/ (pending'[s] = T!Nothing /\ pending[s] # T!Nothing /\ pending[s].seq = p.seq)
  <2>. DEFINE ack == p.seq + T!Counts(p)
  <2>1. pending' \in {pending, T!Acknowledged(s, p.port, ack)}
    BY DEF T!Handle
  <2>2. T!Acknowledged(s, p.port, ack)[s] # pending[s] =>
          /\ T!Acknowledged(s, p.port, ack)[s] = T!Nothing
          /\ pending[s] # T!Nothing /\ ack = pending[s].seq + 1
    BY <1>0, AcknowledgedIs
  <2>3. T!Counts(p) \in {0, 1}
    BY <1>0, CountsOneOrNone
  <2>4. pending[s] # T!Nothing /\ ack = pending[s].seq + 1 => pending[s].seq = p.seq
    BY <1>3, <1>7, <2>3
  <2>. HIDE DEF p, ack
  <2>. QED BY <1>3, <1>7, <2>1, <2>2, <2>4
<1>. HIDE DEF p, e
<1>15. Handled(s)' = p.seq
  <2>1. delivered'[s] # <<>> /\ Len(delivered'[s]) = Len(delivered[s]) + 1
        /\ delivered'[s][Len(delivered[s]) + 1] = e
    BY <1>11, <1>13
  <2>. QED BY <1>12, <2>1 DEF Handled
<1>16. PeerInv(s)'
  <2>1. pending[s] # T!Nothing =>
          /\ pending[s].seq \in {Handled(s), Handled(s) + 1}
          /\ connection[s].snd <= MaxPushes[s] => connection[s].snd = pending[s].seq + 1
    BY <1>5 DEF PeerInv
  <2>2. pending[s] = T!Nothing /\ connection[s].snd \in 1 .. MaxPushes[s] => connection[s].snd = Handled(s) + 1
    BY <1>5 DEF PeerInv
  <2>3. pending[s] = T!Nothing => p.seq = Handled(s)
    BY <1>4, <1>7
  <2>4. pending'[s] # T!Nothing =>
          /\ pending'[s].seq \in {p.seq, p.seq + 1}
          /\ connection[s].snd <= MaxPushes[s] => connection[s].snd = pending'[s].seq + 1
    BY <1>3, <1>4, <1>7, <1>14, <2>1
  <2>5. MaxPushes[s] \in Nat
    BY DEF T!ConstantsAssumption
  <2>6. pending'[s] = T!Nothing /\ connection[s].snd \in 1 .. MaxPushes[s] => connection[s].snd = p.seq + 1
    BY <1>3, <1>14, <2>1, <2>2, <2>3, <2>5
  <2>. QED BY <1>1, <1>8, <1>15, <2>4, <2>6 DEF PeerInv
<1>17. WireInv(s)'
  <2>0. /\ Len(wire[s]) \in Nat \ {0} /\ DOMAIN wire[s] = 1 .. Len(wire[s])
        /\ DOMAIN wire'[s] = 1 .. Len(wire[s]) - 1
        /\ \A i \in DOMAIN wire'[s] : wire'[s][i] = wire[s][i + 1]
    BY <1>6
  <2>1. \A i \in DOMAIN wire'[s] : i + 1 \in DOMAIN wire[s] /\ 1 <= i + 1
    BY <2>0
  <2>2. \A i \in DOMAIN wire[s] :
          /\ wire[s][i].seq \in {Handled(s), Handled(s) + 1} /\ wire[s][i].seq \in Nat
          /\ wire[s][i].seq <= IF pending[s] = T!Nothing THEN Handled(s) ELSE pending[s].seq
          /\ wire[s][i].ack - wire[s][i].has = connection[s].rcv - Len(received[s])
          /\ 1 <= i => p.seq <= wire[s][i].seq
    BY <1>0, <1>5, <1>6, SegmentTypes DEF WireInv
  <2>3. ASSUME NEW i \in DOMAIN wire'[s]
        PROVE  /\ wire'[s][i].seq \in {p.seq, p.seq + 1}
               /\ wire'[s][i].seq <= IF pending'[s] = T!Nothing THEN p.seq ELSE pending'[s].seq
               /\ wire'[s][i].ack - wire'[s][i].has = connection[s].rcv - Len(received[s])
    <3>1. wire'[s][i] = wire[s][i + 1] /\ i + 1 \in DOMAIN wire[s] /\ 1 <= i + 1
      BY <2>0, <2>1
    <3>2. PICK w : w = wire[s][i + 1]
      OBVIOUS
    <3>3. /\ w.seq \in {Handled(s), Handled(s) + 1} /\ w.seq \in Nat /\ p.seq <= w.seq
          /\ w.seq <= IF pending[s] = T!Nothing THEN Handled(s) ELSE pending[s].seq
          /\ w.ack - w.has = connection[s].rcv - Len(received[s])
      BY <2>2, <3>1, <3>2
    <3>4. w.seq \in {p.seq, p.seq + 1}
      BY <1>4, <1>7, <3>3
    <3>5. w.seq <= IF pending'[s] = T!Nothing THEN p.seq ELSE pending'[s].seq
      BY <1>3, <1>4, <1>7, <1>14, <3>3
    <3>. QED BY <3>1, <3>2, <3>3, <3>4, <3>5
  <2>4. ASSUME NEW i \in DOMAIN wire'[s], NEW j \in DOMAIN wire'[s], i <= j
        PROVE wire'[s][i].seq <= wire'[s][j].seq
    <3>1. i + 1 \in DOMAIN wire[s] /\ j + 1 \in DOMAIN wire[s] /\ i + 1 <= j + 1
      BY <2>0, <2>1, <2>4
    <3>2. wire'[s][i] = wire[s][i + 1] /\ wire'[s][j] = wire[s][j + 1]
      BY <2>0
    <3>3. wire[s][i + 1].seq <= wire[s][j + 1].seq
      BY <1>5, <3>1 DEF WireInv
    <3>. QED BY <3>2, <3>3
  <2>. QED BY <1>1, <1>15, <2>3, <2>4 DEF WireInv
<1>18. NumbersInv(s)'
  <2>1. ethjmplist'[peerPort'[s]] = s
    BY <1>1, <1>5 DEF NumbersInv
  <2>2. doing[s] = "transmit" => numbers[s].ack <= p.seq + 1
    BY <1>3, <1>4, <1>5, <1>7 DEF NumbersInv
  <2>3. seqlist'[Local(s)] - heard'[s] = connection[s].rcv - Len(received[s])
    BY <1>7, <1>9, <1>10
  <2>. QED BY <1>1, <1>4, <1>9, <1>15, <2>1, <2>2, <2>3 DEF NumbersInv, T!program
<1>19. MessagesInv(s)'
  BY <1>1, <1>4, <1>5 DEF MessagesInv, T!program
<1>20. Own(s)'
  <2>1. /\ Len(delivered'[s]) = Len(delivered[s]) + 1 /\ delivered'[s][Len(delivered[s]) + 1] = e
        /\ \A i \in 1 .. Len(delivered[s]) : delivered'[s][i] = delivered[s][i]
    BY <1>11, <1>13
  <2>2. ASSUME NEW i \in 1 .. Len(delivered'[s])
        PROVE  /\ delivered'[s][i].by = s
               /\ IF i = 1 THEN delivered'[s][i].seq = 0
                  ELSE delivered'[s][i].seq - delivered'[s][i - 1].seq \in {0, 1}
    <3>1. CASE i = Len(delivered[s]) + 1
      <4>1. delivered'[s][i] = e
        BY <2>1, <3>1
      <4>2. CASE i = 1
        <5>1. Handled(s) = -1
          <6>1. delivered[s] = <<>>
            BY <1>13, <3>1, <4>2
          <6>. QED BY <6>1 DEF Handled
        <5>2. p.seq = 0
          BY <1>7, <5>1
        <5>. QED BY <1>12, <4>1, <4>2, <5>2
      <4>3. CASE i # 1
        <5>1. i - 1 = Len(delivered[s]) /\ i - 1 \in 1 .. Len(delivered[s]) /\ delivered[s] # <<>>
          BY <1>13, <3>1, <4>3
        <5>2. delivered'[s][i - 1].seq = Handled(s)
          BY <2>1, <5>1 DEF Handled
        <5>3. p.seq - Handled(s) \in {0, 1}
          BY <1>4, <1>7
        <5>. QED BY <1>12, <4>1, <4>3, <5>2, <5>3
      <4>. QED BY <4>2, <4>3
    <3>2. CASE i # Len(delivered[s]) + 1
      <4>1. i \in 1 .. Len(delivered[s]) /\ (i # 1 => i - 1 \in 1 .. Len(delivered[s]))
        BY <1>13, <2>1, <3>2
      <4>2. delivered'[s][i] = delivered[s][i] /\ (i # 1 => delivered'[s][i - 1] = delivered[s][i - 1])
        BY <2>1, <4>1
      <4>. QED BY <1>3, <4>1, <4>2 DEF Own
    <3>. QED BY <3>1, <3>2
  <2>. QED BY <1>1, <1>3, <2>2 DEF Own
<1>. QED BY <1>16, <1>17, <1>18, <1>19, <1>20 DEF Talks

LEMMA NextTalk ==
  ASSUME T!ConstantsAssumption, SessionInv, NEW s \in Sessions, Step(s)
  PROVE  TalkInv' /\ T!SessionsAreOwn'
<1>0. SessionTypes /\ SessionTypes' /\ FreshInv /\ T!SessionsAreOwn
  BY NextTypes DEF SessionInv
<1>1. ASSUME s \notin entangled' PROVE (doing'[s] \in Talking => Talks(s)') /\ Own(s)'
  <2>1. CASE T!Assign(s) \/ T!LoadPort(s) \/ T!StorePort(s)
    <3>1. doing'[s] \in T!Creating
      BY <1>0, <2>1 DEF T!Assign, T!LoadPort, T!StorePort, T!Goto, SessionTypes, T!Creating
    <3>2. UNCHANGED <<refused, hasty, received, delivered>> /\ entangled \subseteq entangled'
      BY <2>1 DEF T!Assign, T!LoadPort, T!StorePort, T!peer, T!ghosts
    <3>3. Own(s)'
      BY <1>0, <1>1, <3>2 DEF T!SessionsAreOwn, Own
    <3>. QED BY <3>1, <3>3 DEF T!Creating, Talking
  <2>2. CASE T!Connect(s)
    BY <1>1, <2>2, TalkAfterConnect
  <2>3. CASE T!LookUp(s)
    BY <1>1, <2>3, TalkAfterLookUp
  <2>4. CASE T!Number(s)
    BY <1>1, <2>4, TalkAfterNumber
  <2>5. CASE T!Transmit(s)
    BY <1>1, <2>5, TalkAfterTransmit
  <2>6. CASE T!Handle(s) \/ T!Push(s, "push") \/ T!Push(s, "fin") \/ T!Push(s, "last") \/ T!Resend(s)
    <3>1. UNCHANGED doing
      BY <2>6 DEF T!Handle, T!Push, T!Resend, T!program
    <3>2. doing[s] \in {"start"} \cup T!Creating => connection[s].snd = 0 /\ wire[s] = <<>> /\ pending[s] = T!Nothing
      BY <1>0 DEF FreshInv, T!Closed
    <3>3. doing[s] \notin {"start"} \cup T!Creating
      BY <2>6, <3>2 DEF T!Handle, T!Push, T!Resend
    <3>4. doing'[s] \in Talking
      BY <1>0, <3>1, <3>3 DEF SessionTypes, Places, Talking
    <3>. QED BY <1>1, <2>6, <3>4, TalkAfterHandle, TalkAfterPeer
  <2>. QED BY <2>1, <2>2, <2>3, <2>4, <2>5, <2>6 DEF Step
<1>2. ASSUME NEW r \in Sessions \ entangled', r # s
      PROVE (doing'[r] \in Talking => Talks(r)') /\ Own(r)'
  BY <1>2, NextTalkOfOthers
<1>3. \A r \in Sessions \ entangled' : (doing'[r] \in Talking => Talks(r)') /\ Own(r)'
  BY <1>1, <1>2
<1>. QED BY <1>3 DEF TalkInv, T!SessionsAreOwn, Own, Talking

LEMMA StepKeeps ==
  T!ConstantsAssumption /\ SessionInv /\ [T!Next]_T!tcpVars => SessionInv'
<1>. SUFFICES ASSUME T!ConstantsAssumption, SessionInv, [T!Next]_T!tcpVars PROVE SessionInv'
  OBVIOUS
<1>1. CASE T!Next
  <2>1. PICK s \in Sessions : Step(s)
    BY <1>1, StepOfASession
  <2>. QED BY <2>1, NextTypes, NextCount, NextFresh, NextPort, NextTalk DEF SessionInv
<1>2. CASE UNCHANGED T!tcpVars
  <2>1. UNCHANGED <<peerPort, T!tables, T!program, T!peer, delivered, T!ghosts>>
    BY <1>2 DEF T!tcpVars
  <2>2. SessionTypes' /\ CountInv'
    <3>1. PeerPorts' = PeerPorts /\ Made' = Made
      BY <2>1 DEF PeerPorts, Made, T!program
    <3>2. UNCHANGED checksum
      BY <1>2 DEF T!tcpVars
    <3>. QED BY <2>1, <3>1, <3>2 DEF SessionInv, SessionTypes, CountInv, T!tables, T!program, T!peer,
      T!ghosts
  <2>4. FreshInv' /\ PortInv' /\ T!SessionsAreOwn'
    <3>1. PeerPorts' = PeerPorts
      BY <2>1 DEF PeerPorts
    <3>. QED BY <2>1, <3>1 DEF SessionInv, FreshInv, PortInv, OwnPort, Apart, T!LocalPortsOf, Local,
      T!SessionsAreOwn, T!tables, T!program, T!peer, T!ghosts
  <2>3. TalkInv'
    BY <2>1 DEF SessionInv, TalkInv, Talks, PeerInv, WireInv, NumbersInv, MessagesInv, Handled,
      Local, T!tables, T!program, T!peer,
      T!ghosts
  <2>. QED BY <2>2, <2>3, <2>4 DEF SessionInv
<1>. QED BY <1>1, <1>2

(* A session that shares no port and was made alone has its own messages: for any number *)
(* of sessions and ports, however many messages there are, and whatever the peers repeat. *)
THEOREM SessionsCorrect == T!ConstantsAssumption => (T!Spec => []SessionsAreOwn)
<1>. SUFFICES ASSUME T!ConstantsAssumption PROVE T!Spec => []SessionsAreOwn
  OBVIOUS
<1>1. T!Init => SessionInv
  BY InitSession
<1>2. SessionInv /\ [T!Next]_T!tcpVars => SessionInv'
  BY StepKeeps
<1>3. SessionInv => SessionsAreOwn
  BY DEF SessionInv, SessionsAreOwn
<1>. QED BY <1>1, <1>2, <1>3, PTL DEF T!Spec

-----------------------------------------------------------------------------

(* The values of Programs' state. *)
ProgramTypes ==
  /\ pd \in Binaries \cup {None}
  /\ owner \in [P!Pages -> 0 .. P!Other]
  /\ DOMAIN content = P!Pages
  /\ mapped \in Nat /\ starts \in P!Pids
  /\ place \in [P!Pids -> {"none", "prompt", "wait", "program"} \cup P!Starting]
  /\ load \in [P!Pids -> 0 .. NTasks]
  /\ pages \in [P!Pids -> Int]
  /\ DOMAIN name = P!Pids
  /\ base \in [P!Pids -> Nat] /\ stack \in [P!Pids -> Nat]
  /\ mixed \subseteq P!Pids

(* A shell between the clearing of the path and its task has a number of its own; two of *)
(* them at a time are mixed.                                                             *)
Loads(t) == place[t] \in P!Starting
LoadsInv ==
  /\ \A t \in P!Pids : load[t] <= starts
  /\ \A t \in P!Pids : Loads(t) => load[t] # 0 /\ name[load[t]] \in Binaries /\ place[load[t]] = "none"
  /\ \A t, u \in P!Pids : t # u /\ Loads(t) /\ Loads(u) => load[t] # load[u] /\ load[t] \in mixed
  /\ \A n \in P!Pids : n > starts => place[n] = "none"
  /\ \A n \in P!Pids : place[n] = "program" => name[n] \in Binaries

(* Before it asks for pages it has none; from then on its first page is its own, and stays so. *)
HasBase(n) == base[n] \in P!Pages /\ base[n] % Gap = 0 /\ owner[base[n]] = n
BasesInv ==
  /\ \A t \in P!Pids : place[t] \in {"fill", "size", "big"} => \A p \in P!Pages : owner[p] # load[t]
  /\ \A n \in P!Pids : n > starts => \A p \in P!Pages : owner[p] # n
  /\ \A t \in P!Pids : place[t] \in {"pages", "read", "map", "add"} => HasBase(load[t])
  /\ \A n \in P!Pids : place[n] = "program" => HasBase(n)
  /\ \/ \E m \in P!Pids : HasBase(m) /\ mapped = base[m]
     \/ \A t \in P!Pids : place[t] \notin {"add", "program"}

(* While it is the only one, the path is what was typed for it. *)
PathInv ==
  \A t \in P!Pids :
    Loads(t) /\ place[t] # "fill" /\ load[t] \notin mixed => pd = name[load[t]]

(* After the file is read, its part of the file is in each page that is its own and that no *)
(* stack reaches.                                                                           *)
Lies(n) ==
  \A p \in base[n] .. base[n] + Size[name[n]] - 1 :
    owner[p] = n /\ (\A u \in P!Pids : p \notin P!Reach(u)) => content[p] = P!Part(name[n], p - base[n])
ImageInv ==
  /\ \A t \in P!Pids : place[t] \in {"map", "add"} /\ load[t] \notin mixed => Lies(load[t])
  /\ \A n \in P!Pids : place[n] = "program" /\ n \notin mixed => Lies(n)

(* A task that has not begun has no stack. *)
StackInv == \A n \in P!Pids : place[n] = "none" => stack[n] = NPages

ProgramInv == ProgramTypes /\ LoadsInv /\ BasesInv /\ PathInv /\ ImageInv /\ StackInv

-----------------------------------------------------------------------------
LEMMA MinOf ==
  ASSUME NEW S, S \subseteq Nat, S # {}
  PROVE  P!Min(S) \in S /\ \A y \in S : P!Min(S) <= y
<1>1. IsWellFoundedOn(OpToRel(<, Nat), Nat)
  BY NatLessThanWellFounded
<1>2. \E x \in S : \A y \in S : ~ (<<y, x>> \in OpToRel(<, Nat))
  BY <1>1, WFMin
<1>3. PICK x \in S : \A y \in S : ~ (<<y, x>> \in OpToRel(<, Nat))
  BY <1>2
<1>4. \A y \in S : ~ (y < x)
  BY <1>3 DEF OpToRel
<1>5. \A y \in S : x <= y
  BY <1>4
<1>. QED BY <1>5 DEF P!Min

(* Two pages that an entry can map are a whole entry apart. *)
LEMMA EntriesApart ==
  ASSUME NEW g \in Nat \ {0}, NEW x \in Nat, NEW y \in Nat, x % g = 0, y % g = 0, x < y
  PROVE  x + g <= y
<1>1. PICK i \in Nat : x = g * i
  BY Z3
<1>2. PICK j \in Nat : y = g * j
  BY Z3
<1>3. i < j
  BY <1>1, <1>2
<1>4. i + 1 <= j
  BY <1>3
<1>5. g * (i + 1) <= g * j
  BY <1>4
<1>6. g * (i + 1) = x + g
  BY <1>1
<1>. QED BY <1>2, <1>5, <1>6

(* The lowest free page, and the lowest that an entry can map. *)
LEMMA FreePage ==
  ASSUME P!ConstantsAssumption, NEW S, S \subseteq P!FreePages, S # {}
  PROVE  P!Min(S) \in S /\ P!Min(S) \in P!Pages /\ owner[P!Min(S)] = P!Free
<1>1. S \subseteq Nat
  BY DEF P!FreePages, P!Pages, P!ConstantsAssumption
<1>. QED BY <1>1, MinOf DEF P!FreePages

(* A step of a task. *)
ShellStep(t) ==
  \/ \E n \in Binaries : P!Clear(t, n)
  \/ P!Fill(t) \/ P!AskSize(t) \/ P!BigPage(t) \/ P!OnePage(t) \/ P!ReadFile(t) \/ P!MapMemory(t) \/ P!AddTask(t)
  \/ P!Push(t) \/ P!Exit(t)
Others == P!OtherTakes \/ \E p \in P!Pages : P!OtherReturns(p)

LEMMA Constants ==
  ASSUME P!ConstantsAssumption
  PROVE  /\ Gap \in Nat \ {0} /\ NPages \in Nat \ {0} /\ NTasks \in Nat \ {0} /\ MaxOthers \in Nat
         /\ P!Pages = 0 .. NPages - 1 /\ P!Pages \subseteq Nat /\ 0 \in P!Pages
         /\ P!Pids = 1 .. NTasks /\ 1 \in P!Pids /\ P!Free \in 0 .. P!Other
         /\ P!Other \in 0 .. P!Other
         /\ P!Pids \subseteq 0 .. P!Other /\ P!Other \notin P!Pids /\ P!Free \notin P!Pids
         /\ P!Free # P!Other
         /\ \A n \in Binaries : Size[n] \in 1 .. Gap
BY DEF P!ConstantsAssumption, P!Pages, P!Pids, P!Free, P!Other

LEMMA InitProgram == P!ConstantsAssumption /\ P!Init => ProgramInv
<1>. SUFFICES ASSUME P!ConstantsAssumption, P!Init PROVE ProgramInv
  OBVIOUS
<1>0. place = [t \in P!Pids |-> IF t = 1 THEN "prompt" ELSE "none"]
  BY DEF P!Init
<1>1. ProgramTypes
  <2>1. owner \in [P!Pages -> 0 .. P!Other]
    BY Constants DEF P!Init
  <2>. QED BY <1>0, <2>1, Constants DEF P!Init, ProgramTypes
<1>2. LoadsInv /\ PathInv /\ ImageInv /\ StackInv
  <2>1. \A t \in P!Pids : ~Loads(t) /\ place[t] \notin {"map", "add", "program"}
    BY <1>0 DEF Loads, P!Starting
  <2>. QED BY <1>0, <2>1, Constants DEF P!Init, LoadsInv, PathInv, ImageInv, StackInv
<1>3. BasesInv
  <2>1. \A n \in P!Pids : \A p \in P!Pages : owner[p] # n
    BY Constants DEF P!Init
  <2>2. \A t \in P!Pids : place[t] \in {"prompt", "none"}
    BY <1>0
  <2>. QED BY <2>1, <2>2 DEF BasesInv
<1>. QED BY <1>1, <1>2, <1>3 DEF ProgramInv

LEMMA NextProgramTypes ==
  ASSUME P!ConstantsAssumption, ProgramInv, [P!Next]_P!programsVars
  PROVE  ProgramTypes'
<1>0. ProgramTypes /\ LoadsInv
  BY DEF ProgramInv
<1>1. ASSUME NEW t \in P!Pids, NEW n \in Binaries, P!Clear(t, n) PROVE ProgramTypes'
  <2>0. NTasks \in Nat /\ P!Pids = 1 .. NTasks
    BY Constants
  <2>1. starts + 1 \in P!Pids /\ starts + 1 \in 0 .. NTasks
    <3>1. starts \in P!Pids /\ starts < NTasks
      BY <1>0, <1>1 DEF P!Clear, ProgramTypes
    <3>. QED BY <2>0, <3>1
  <2>2. ASSUME NEW u \in P!Pids, Loads(u) PROVE load[u] \in P!Pids
    <3>1. load[u] \in 0 .. NTasks /\ load[u] # 0
      BY <1>0, <2>2 DEF LoadsInv, ProgramTypes
    <3>. QED BY <2>0, <3>1
  <2>3. mixed' \subseteq P!Pids
    <3>. DEFINE others == {u \in P!Pids \ {t} : place[u] \in P!Starting}
    <3>1. mixed' = IF others = {} THEN mixed ELSE mixed \cup {starts'} \cup {load[u] : u \in others}
      BY <1>1 DEF P!Clear
    <3>2. starts' \in P!Pids /\ \A u \in others : load[u] \in P!Pids
      BY <1>1, <2>1, <2>2 DEF P!Clear, Loads
    <3>. QED BY <1>0, <3>1, <3>2 DEF ProgramTypes
  <2>4. load' \in [P!Pids -> 0 .. NTasks] /\ starts' \in P!Pids /\ DOMAIN name' = P!Pids
    BY <1>0, <1>1, <2>1 DEF P!Clear, ProgramTypes
  <2>5. place' \in [P!Pids -> {"none", "prompt", "wait", "program"} \cup P!Starting]
    BY <1>0, <1>1 DEF P!Clear, P!Goto, ProgramTypes, P!Starting
  <2>. QED BY <1>0, <1>1, <2>3, <2>4, <2>5 DEF P!Clear, ProgramTypes
<1>2. ASSUME NEW t \in P!Pids,
             P!Fill(t) \/ P!AskSize(t) \/ P!MapMemory(t) \/ P!ReadFile(t) \/ P!Push(t)
      PROVE ProgramTypes'
  <2>1. Loads(t) => load[t] \in P!Pids /\ name[load[t]] \in Binaries
    BY <1>0, Constants DEF LoadsInv, ProgramTypes
  <2>2. CASE P!Fill(t)
    BY <1>0, <2>1, <2>2 DEF P!Fill, P!Goto, ProgramTypes, P!Starting, Loads
  <2>3. CASE P!AskSize(t)
    <3>1. pages' \in [P!Pids -> Int]
      <4>1. pages' = pages \/ (pd \in Binaries /\ pages' = [pages EXCEPT ![t] = Size[pd]])
        BY <1>0, <2>3 DEF P!AskSize, ProgramTypes
      <4>2. pd \in Binaries => Size[pd] \in Int
        BY Constants
      <4>. QED BY <1>0, <4>1, <4>2 DEF ProgramTypes
    <3>2. place' \in [P!Pids -> {"none", "prompt", "wait", "program"} \cup P!Starting]
      BY <1>0, <2>3 DEF P!AskSize, P!Goto, P!Fails, ProgramTypes, P!Starting
    <3>. QED BY <1>0, <2>3, <3>1, <3>2 DEF P!AskSize, ProgramTypes
  <2>4. CASE P!MapMemory(t)
    <3>1. base[load[t]] \in Nat
      BY <1>0, <2>1, <2>4 DEF P!MapMemory, ProgramTypes, Loads, P!Starting
    <3>. QED BY <1>0, <2>4, <3>1 DEF P!MapMemory, P!Goto, ProgramTypes, P!Starting
  <2>5. CASE P!ReadFile(t)
    <3>1. DOMAIN content' = P!Pages
      BY <1>0, <2>5 DEF P!ReadFile, ProgramTypes
    <3>2. place' \in [P!Pids -> {"none", "prompt", "wait", "program"} \cup P!Starting]
      BY <1>0, <2>5 DEF P!ReadFile, P!Goto, P!Fails, ProgramTypes, P!Starting
    <3>. QED BY <1>0, <2>5, <3>1, <3>2 DEF P!ReadFile, ProgramTypes
  <2>6. CASE P!Push(t)
    BY <1>0, <2>6 DEF P!Push, ProgramTypes
  <2>. QED BY <1>2, <2>2, <2>3, <2>4, <2>5, <2>6
<1>3. ASSUME NEW t \in P!Pids, P!BigPage(t) \/ P!OnePage(t) \/ P!AddTask(t) PROVE ProgramTypes'
  <2>1. load[t] \in P!Pids
    BY <1>0, <1>3, Constants DEF LoadsInv, ProgramTypes, P!BigPage, P!OnePage, P!AddTask, Loads,
      P!Starting
  <2>2. CASE P!BigPage(t)
    <3>. DEFINE aligned == {p \in P!FreePages : p % Gap = 0}
    <3>1. P!Min(aligned) \in P!Pages
      BY <2>2, FreePage DEF P!BigPage
    <3>2. /\ owner' = [owner EXCEPT ![P!Min(aligned)] = load[t]]
          /\ base' = [base EXCEPT ![load[t]] = P!Min(aligned)]
      BY <2>2 DEF P!BigPage, P!Give
    <3>. HIDE DEF aligned
    <3>3. owner' \in [P!Pages -> 0 .. P!Other] /\ base' \in [P!Pids -> Nat]
      BY <1>0, <2>1, <3>1, <3>2, Constants DEF ProgramTypes
    <3>. QED BY <1>0, <2>2, <3>3 DEF P!BigPage, P!Goto, ProgramTypes, P!Starting
  <2>3. CASE P!OnePage(t)
    <3>1. P!Min(P!FreePages) \in P!Pages
      BY <2>3, FreePage DEF P!OnePage
    <3>2. owner' \in [P!Pages -> 0 .. P!Other]
      BY <1>0, <2>1, <2>3, <3>1, Constants DEF P!OnePage, P!Give, ProgramTypes
    <3>3. /\ place' \in [P!Pids -> {"none", "prompt", "wait", "program"} \cup P!Starting]
          /\ pages' \in [P!Pids -> Int]
      BY <1>0, <2>3 DEF P!OnePage, P!Goto, ProgramTypes, P!Starting
    <3>. QED BY <1>0, <2>3, <3>2, <3>3 DEF P!OnePage, ProgramTypes
  <2>4. CASE P!AddTask(t)
    <3>1. P!Min(P!FreePages) \in P!Pages
      BY <2>4, FreePage DEF P!AddTask
    <3>2. owner' \in [P!Pages -> 0 .. P!Other] /\ stack' \in [P!Pids -> Nat]
      BY <1>0, <2>1, <2>4, <3>1, Constants DEF P!AddTask, P!Give, ProgramTypes
    <3>3. place' \in [P!Pids -> {"none", "prompt", "wait", "program"} \cup P!Starting]
      BY <1>0, <2>4 DEF P!AddTask, ProgramTypes
    <3>. QED BY <1>0, <2>4, <3>2, <3>3 DEF P!AddTask, ProgramTypes
  <2>. QED BY <1>3, <2>2, <2>3, <2>4
<1>4. ASSUME NEW t \in P!Pids, P!Exit(t) PROVE ProgramTypes'
  <2>1. place' \in [P!Pids -> {"none", "prompt", "wait", "program"} \cup P!Starting]
    BY <1>0, <1>4 DEF P!Exit, ProgramTypes
  <2>. QED BY <1>0, <1>4, <2>1 DEF P!Exit, ProgramTypes
<1>5. CASE P!OtherTakes
  <2>1. P!Min(P!FreePages) \in P!Pages
    BY <1>5, FreePage DEF P!OtherTakes
  <2>. QED BY <1>0, <1>5, <2>1, Constants DEF P!OtherTakes, P!Give, ProgramTypes
<1>6. ASSUME NEW p \in P!Pages, P!OtherReturns(p) PROVE ProgramTypes'
  BY <1>0, <1>6, Constants DEF P!OtherReturns, P!Give, ProgramTypes
<1>7. CASE UNCHANGED P!programsVars
  BY <1>0, <1>7 DEF P!programsVars, ProgramTypes
<1>. QED BY <1>1, <1>2, <1>3, <1>4, <1>5, <1>6, <1>7 DEF P!Next

(* What a shell starts is the number of a task. *)
LEMMA LoadsAreTasks ==
  ASSUME P!ConstantsAssumption, ProgramTypes, LoadsInv
  PROVE  \A u \in P!Pids : load[u] \in Nat /\ (Loads(u) => load[u] \in P!Pids)
<1>1. NTasks \in Nat /\ P!Pids = 1 .. NTasks
  BY Constants
<1>2. ASSUME NEW u \in P!Pids PROVE load[u] \in Nat /\ (Loads(u) => load[u] \in P!Pids)
  <2>1. load[u] \in 0 .. NTasks
    BY DEF ProgramTypes
  <2>2. Loads(u) => load[u] # 0
    BY DEF LoadsInv
  <2>. QED BY <1>1, <2>1, <2>2
<1>. QED BY <1>2

(* Where a step takes the tasks. *)
LEMMA PlaceMoves ==
  ASSUME ProgramTypes, LoadsInv, NEW t \in P!Pids, ShellStep(t), \A n \in Binaries : ~P!Clear(t, n)
  PROVE  /\ \A u \in P!Pids : UNCHANGED load[u]
         /\ UNCHANGED <<starts, load, name, mixed>>
         /\ \/ Loads(t) /\ place'[t] \in P!Starting \cup {"prompt"} /\ \A u \in P!Pids \ {t} : UNCHANGED place[u]
            \/ /\ P!AddTask(t) /\ Loads(t) /\ place'[t] = "wait"
               /\ load[t] \in P!Pids \ {t} /\ place[load[t]] = "none" /\ place'[load[t]] = "program"
               /\ \A u \in P!Pids \ {t, load[t]} : UNCHANGED place[u]
            \/ UNCHANGED place
            \/ /\ P!Exit(t) /\ place[t] = "program"
               /\ \A u \in P!Pids : UNCHANGED place[u] \/ (place[u] \in {"program", "wait"} /\ place'[u] = "prompt")
<1>1. UNCHANGED <<starts, load, name, mixed>>
  BY DEF ShellStep, P!Fill, P!AskSize, P!BigPage, P!OnePage, P!ReadFile, P!MapMemory, P!AddTask,
    P!Push, P!Exit
<1>2. CASE P!Fill(t) \/ P!AskSize(t) \/ P!BigPage(t) \/ P!OnePage(t)
  BY <1>1, <1>2 DEF P!Fill, P!AskSize, P!BigPage, P!OnePage, P!Goto, P!Fails, Loads, P!Starting,
    ProgramTypes
<1>3. CASE P!ReadFile(t) \/ P!MapMemory(t)
  BY <1>1, <1>3 DEF P!ReadFile, P!MapMemory, P!Goto, P!Fails, Loads, P!Starting, ProgramTypes
<1>4. CASE P!AddTask(t)
  <2>1. Loads(t) /\ place' = [place EXCEPT ![t] = "wait", ![load[t]] = "program"]
    BY <1>4 DEF P!AddTask, Loads, P!Starting
  <2>2. place[load[t]] = "none" /\ load[t] \in 0 .. NTasks /\ load[t] # 0
    BY <2>1 DEF LoadsInv, ProgramTypes
  <2>3. starts \in 1 .. NTasks /\ load[t] <= starts
    BY DEF LoadsInv, ProgramTypes, P!Pids
  <2>4. load[t] \in P!Pids
    BY <2>2, <2>3 DEF P!Pids
  <2>5. place[t] # "none"
    BY <2>1 DEF Loads, P!Starting
  <2>. QED BY <1>1, <1>4, <2>1, <2>2, <2>4, <2>5 DEF ProgramTypes
<1>5. CASE P!Push(t)
  BY <1>1, <1>5 DEF P!Push
<1>6. CASE P!Exit(t)
  BY <1>1, <1>6 DEF P!Exit, ProgramTypes
<1>. QED BY <1>2, <1>3, <1>4, <1>5, <1>6 DEF ShellStep

LEMMA ClearMoves ==
  ASSUME P!ConstantsAssumption, ProgramTypes, LoadsInv, NEW t \in P!Pids, NEW n \in Binaries, P!Clear(t, n)
  PROVE  /\ starts \in Nat /\ starts' = starts + 1 /\ starts + 1 \in P!Pids /\ starts + 1 # t
         /\ load'[t] = starts + 1 /\ \A u \in P!Pids \ {t} : UNCHANGED load[u]
         /\ name'[starts + 1] = n /\ \A u \in P!Pids \ {starts + 1} : UNCHANGED name[u]
         /\ place[t] = "prompt" /\ place'[t] = "fill" /\ \A u \in P!Pids \ {t} : UNCHANGED place[u]
         /\ mixed \subseteq mixed'
         /\ \A u \in P!Pids \ {t} : Loads(u) => {load[u], starts + 1} \subseteq mixed'
<1>1. NTasks \in Nat /\ P!Pids = 1 .. NTasks
  BY Constants
<1>2. starts \in Nat /\ starts' = starts + 1 /\ starts + 1 \in P!Pids
  <2>1. starts \in P!Pids /\ starts < NTasks /\ starts' = starts + 1
    BY DEF P!Clear, ProgramTypes
  <2>. QED BY <1>1, <2>1
<1>3. starts + 1 # t
  <2>1. starts + 1 > starts
    BY <1>2
  <2>2. place[starts + 1] = "none"
    BY <1>2, <2>1 DEF LoadsInv
  <2>. QED BY <2>2 DEF P!Clear
<1>4. /\ load'[t] = starts + 1 /\ \A u \in P!Pids \ {t} : UNCHANGED load[u]
      /\ name'[starts + 1] = n /\ \A u \in P!Pids \ {starts + 1} : UNCHANGED name[u]
  BY <1>2 DEF P!Clear, ProgramTypes
<1>5. place[t] = "prompt" /\ place'[t] = "fill" /\ \A u \in P!Pids \ {t} : UNCHANGED place[u]
  BY DEF P!Clear, P!Goto, ProgramTypes
<1>6. mixed \subseteq mixed' /\ \A u \in P!Pids \ {t} : Loads(u) => {load[u], starts + 1} \subseteq mixed'
  <2>. DEFINE others == {u \in P!Pids \ {t} : place[u] \in P!Starting}
  <2>1. mixed' = IF others = {} THEN mixed ELSE mixed \cup {starts'} \cup {load[u] : u \in others}
    BY DEF P!Clear
  <2>2. \A u \in P!Pids \ {t} : Loads(u) => u \in others
    BY DEF Loads
  <2>. HIDE DEF others
  <2>. QED BY <1>2, <2>1, <2>2
<1>. QED BY <1>2, <1>3, <1>4, <1>5, <1>6

LEMMA OthersMove ==
  ASSUME ProgramTypes, Others
  PROVE  UNCHANGED <<pd, mapped, starts, place, load, pages, name, base, stack, mixed>>
BY DEF Others, P!OtherTakes, P!OtherReturns

LEMMA NextLoads ==
  ASSUME P!ConstantsAssumption, ProgramInv, P!Next
  PROVE  LoadsInv'
<1>0. ProgramTypes /\ LoadsInv
  BY DEF ProgramInv
<1>l. \A u \in P!Pids : load[u] \in Nat /\ (Loads(u) => load[u] \in P!Pids)
  BY <1>0, LoadsAreTasks
<1>1. ASSUME NEW t \in P!Pids, NEW n \in Binaries, P!Clear(t, n) PROVE LoadsInv'
  <2>1. /\ starts \in Nat /\ starts' = starts + 1 /\ starts + 1 \in P!Pids /\ starts + 1 # t
        /\ load'[t] = starts + 1 /\ \A u \in P!Pids \ {t} : UNCHANGED load[u]
        /\ name'[starts + 1] = n /\ \A u \in P!Pids \ {starts + 1} : UNCHANGED name[u]
        /\ place[t] = "prompt" /\ place'[t] = "fill" /\ \A u \in P!Pids \ {t} : UNCHANGED place[u]
        /\ mixed \subseteq mixed'
        /\ \A u \in P!Pids \ {t} : Loads(u) => {load[u], starts + 1} \subseteq mixed'
    BY <1>0, <1>1, ClearMoves
  <2>2. \A u \in P!Pids : load'[u] <= starts'
    BY <1>0, <1>l, <2>1 DEF LoadsInv
  <2>3. \A u \in P!Pids \ {t} : Loads(u)' => Loads(u) /\ load[u] < starts + 1 /\ UNCHANGED load[u]
    BY <1>0, <1>l, <2>1 DEF LoadsInv, Loads
  <2>4. place[starts + 1] = "none"
    <3>1. starts + 1 > starts
      BY <2>1
    <3>. QED BY <1>0, <2>1, <3>1 DEF LoadsInv
  <2>5. \A u \in P!Pids : Loads(u)' => load'[u] # 0 /\ name'[load'[u]] \in Binaries /\ place'[load'[u]] = "none"
    <3>1. load'[t] # 0 /\ name'[load'[t]] \in Binaries /\ place'[load'[t]] = "none"
      BY <2>1, <2>4
    <3>2. ASSUME NEW u \in P!Pids \ {t}, Loads(u)'
          PROVE load'[u] # 0 /\ name'[load'[u]] \in Binaries /\ place'[load'[u]] = "none"
      <4>1. Loads(u) /\ load[u] < starts + 1 /\ UNCHANGED load[u] /\ load[u] \in P!Pids
        BY <1>l, <2>3, <3>2
      <4>2. load[u] # 0 /\ name[load[u]] \in Binaries /\ place[load[u]] = "none"
        BY <1>0, <4>1 DEF LoadsInv
      <4>3. load[u] # t /\ load[u] # starts + 1
        BY <2>1, <4>1, <4>2
      <4>. QED BY <2>1, <4>1, <4>2, <4>3
    <3>. QED BY <3>1, <3>2
  <2>6. ASSUME NEW u \in P!Pids, NEW v \in P!Pids, u # v, Loads(u)', Loads(v)'
        PROVE  load'[u] # load'[v] /\ load'[u] \in mixed'
    <3>1. CASE u = t
      <4>1. Loads(v) /\ load[v] < starts + 1 /\ UNCHANGED load[v]
        BY <2>3, <2>6, <3>1
      <4>. QED BY <1>l, <2>1, <2>6, <3>1, <4>1
    <3>2. CASE v = t
      <4>1. Loads(u) /\ load[u] < starts + 1 /\ UNCHANGED load[u]
        BY <2>3, <2>6, <3>2
      <4>. QED BY <1>l, <2>1, <2>6, <3>2, <4>1
    <3>3. CASE u # t /\ v # t
      <4>1. Loads(u) /\ UNCHANGED load[u] /\ Loads(v) /\ UNCHANGED load[v]
        BY <2>3, <2>6, <3>3
      <4>. QED BY <1>0, <2>1, <2>6, <4>1 DEF LoadsInv
    <3>. QED BY <3>1, <3>2, <3>3
  <2>7. \A m \in P!Pids : m > starts' => place'[m] = "none"
    <3>1. P!Pids \subseteq Nat
      BY DEF P!Pids
    <3>2. ASSUME NEW m \in P!Pids, m > starts' PROVE place'[m] = "none"
      <4>1. m > starts
        BY <2>1, <3>1, <3>2
      <4>2. place[m] = "none" /\ m # t
        BY <1>0, <2>1, <4>1 DEF LoadsInv
      <4>. QED BY <2>1, <4>2
    <3>. QED BY <3>2
  <2>8. \A m \in P!Pids : place'[m] = "program" => name'[m] \in Binaries
    <3>1. ASSUME NEW m \in P!Pids, place'[m] = "program" PROVE name'[m] \in Binaries
      <4>1. place[m] = "program" /\ m # starts + 1
        BY <2>1, <2>4, <3>1
      <4>. QED BY <1>0, <2>1, <4>1 DEF LoadsInv
    <3>. QED BY <3>1
  <2>. QED BY <2>2, <2>5, <2>6, <2>7, <2>8 DEF LoadsInv
<1>2. ASSUME NEW t \in P!Pids, ShellStep(t), \A n \in Binaries : ~P!Clear(t, n) PROVE LoadsInv'
  <2>1. /\ UNCHANGED <<starts, load, name, mixed>>
        /\ \/ Loads(t) /\ place'[t] \in P!Starting \cup {"prompt"} /\ \A u \in P!Pids \ {t} : UNCHANGED place[u]
           \/ /\ P!AddTask(t) /\ Loads(t) /\ place'[t] = "wait"
              /\ load[t] \in P!Pids \ {t} /\ place[load[t]] = "none" /\ place'[load[t]] = "program"
              /\ \A u \in P!Pids \ {t, load[t]} : UNCHANGED place[u]
           \/ UNCHANGED place
           \/ /\ P!Exit(t) /\ place[t] = "program"
              /\ \A u \in P!Pids : UNCHANGED place[u] \/ (place[u] \in {"program", "wait"} /\ place'[u] = "prompt")
    BY <1>0, <1>2, PlaceMoves
  <2>2. \A u \in P!Pids : Loads(u)' => Loads(u)
    BY <2>1 DEF Loads, P!Starting
  <2>3. \A u \in P!Pids : Loads(u)' => place'[load[u]] = "none"
    <3>1. \A u \in P!Pids : Loads(u) => place[load[u]] = "none" /\ load[u] \in P!Pids
      BY <1>0, <1>l DEF LoadsInv
    <3>2. \A u \in P!Pids : Loads(u)' /\ Loads(t) /\ u # t => load[u] # load[t]
      BY <1>0, <2>2 DEF LoadsInv
    <3>. QED BY <2>1, <2>2, <3>1, <3>2 DEF Loads, P!Starting
  <2>4. \A u \in P!Pids : Loads(u)' => load'[u] # 0 /\ name'[load'[u]] \in Binaries
    BY <1>0, <2>1, <2>2 DEF LoadsInv
  <2>5. \A u, v \in P!Pids : u # v /\ Loads(u)' /\ Loads(v)' => load'[u] # load'[v] /\ load'[u] \in mixed'
    BY <1>0, <2>1, <2>2 DEF LoadsInv
  <2>6. \A n \in P!Pids : n > starts => place'[n] = "none"
    <3>1. Loads(t) => load[t] <= starts /\ load[t] \in Nat /\ starts \in Nat
      BY <1>0, <1>l DEF LoadsInv, ProgramTypes, P!Pids
    <3>2. \A n \in P!Pids : n > starts => place[n] = "none" /\ (Loads(t) => n # load[t])
      BY <1>0, <3>1 DEF LoadsInv, P!Pids
    <3>3. Loads(t) => place[t] # "none"
      BY DEF Loads, P!Starting
    <3>. QED BY <2>1, <3>2, <3>3
  <2>7. \A n \in P!Pids : place'[n] = "program" => name'[n] \in Binaries
    <3>1. Loads(t) => name[load[t]] \in Binaries
      BY <1>0 DEF LoadsInv
    <3>2. \A n \in P!Pids : place[n] = "program" => name[n] \in Binaries
      BY <1>0 DEF LoadsInv
    <3>. QED BY <2>1, <3>1, <3>2 DEF P!Starting
  <2>8. \A u \in P!Pids : load'[u] <= starts'
    BY <1>0, <2>1 DEF LoadsInv
  <2>. QED BY <2>1, <2>3, <2>4, <2>5, <2>6, <2>7, <2>8 DEF LoadsInv
<1>3. CASE Others
  BY <1>0, <1>3, OthersMove DEF LoadsInv, Loads
<1>. QED BY <1>1, <1>2, <1>3 DEF P!Next, ShellStep, Others

(* Pages are given to the task to be of the shell that asks, and stay its own. *)
LEMMA OwnerMoves ==
  ASSUME P!ConstantsAssumption, ProgramTypes, LoadsInv, NEW t \in P!Pids, ShellStep(t)
  PROVE  \A p \in P!Pages :
           \/ UNCHANGED owner[p]
           \/ /\ owner[p] = P!Free /\ owner'[p] = load[t] /\ place[t] \in {"big", "pages", "add"}
              /\ P!AddTask(t) => stack'[load[t]] = p
<1>1. CASE P!BigPage(t)
  <2>. DEFINE aligned == {p \in P!FreePages : p % Gap = 0}
  <2>1. P!Min(aligned) \in P!Pages /\ owner[P!Min(aligned)] = P!Free
    BY <1>1, FreePage DEF P!BigPage
  <2>2. owner' = [owner EXCEPT ![P!Min(aligned)] = load[t]] /\ place[t] = "big"
    BY <1>1 DEF P!BigPage, P!Give
  <2>3. ~P!AddTask(t)
    BY <2>2 DEF P!AddTask
  <2>. HIDE DEF aligned
  <2>. QED BY <2>1, <2>2, <2>3 DEF ProgramTypes
<1>2. CASE P!OnePage(t)
  <2>1. P!Min(P!FreePages) \in P!Pages /\ owner[P!Min(P!FreePages)] = P!Free
    BY <1>2, FreePage DEF P!OnePage
  <2>2. owner' = [owner EXCEPT ![P!Min(P!FreePages)] = load[t]] /\ place[t] = "pages"
    BY <1>2 DEF P!OnePage, P!Give
  <2>3. ~P!AddTask(t)
    BY <2>2 DEF P!AddTask
  <2>. QED BY <2>1, <2>2, <2>3 DEF ProgramTypes
<1>3. CASE P!AddTask(t)
  <2>1. P!Min(P!FreePages) \in P!Pages /\ owner[P!Min(P!FreePages)] = P!Free
    BY <1>3, FreePage DEF P!AddTask
  <2>2. /\ owner' = [owner EXCEPT ![P!Min(P!FreePages)] = load[t]] /\ place[t] = "add"
        /\ stack' = [stack EXCEPT ![load[t]] = P!Min(P!FreePages)]
    BY <1>3 DEF P!AddTask, P!Give
  <2>3. load[t] \in P!Pids
    BY <2>2, LoadsAreTasks DEF Loads, P!Starting
  <2>4. stack'[load[t]] = P!Min(P!FreePages)
    BY <2>2, <2>3 DEF ProgramTypes
  <2>. QED BY <2>1, <2>2, <2>4 DEF ProgramTypes
<1>4. CASE ~P!BigPage(t) /\ ~P!OnePage(t) /\ ~P!AddTask(t)
  BY <1>4 DEF ShellStep, P!Clear, P!Fill, P!AskSize, P!ReadFile, P!MapMemory, P!Push, P!Exit
<1>. QED BY <1>1, <1>2, <1>3, <1>4

LEMMA OthersOwn ==
  ASSUME P!ConstantsAssumption, ProgramTypes, Others
  PROVE  \A p \in P!Pages : UNCHANGED owner[p] \/ {owner[p], owner'[p]} \subseteq {P!Free, P!Other}
<1>1. CASE P!OtherTakes
  <2>1. P!Min(P!FreePages) \in P!Pages /\ owner[P!Min(P!FreePages)] = P!Free
    BY <1>1, FreePage DEF P!OtherTakes
  <2>. QED BY <1>1, <2>1 DEF P!OtherTakes, P!Give, ProgramTypes
<1>2. ASSUME NEW p \in P!Pages, P!OtherReturns(p)
      PROVE  \A q \in P!Pages : UNCHANGED owner[q] \/ {owner[q], owner'[q]} \subseteq {P!Free, P!Other}
  BY <1>2 DEF P!OtherReturns, P!Give, ProgramTypes
<1>. QED BY <1>1, <1>2 DEF Others

(* A first page stays one. *)
LEMMA BasesStay ==
  ASSUME P!ConstantsAssumption, ProgramInv, NEW t \in P!Pids, ShellStep(t), NEW n \in P!Pids, HasBase(n)
  PROVE  HasBase(n)' /\ UNCHANGED base[n]
<1>0. ProgramTypes /\ LoadsInv /\ BasesInv
  BY DEF ProgramInv
<1>1. \A p \in P!Pages : owner[p] = n => owner'[p] = n
  <2>1. n # P!Free
    BY Constants
  <2>. QED BY <1>0, <2>1, OwnerMoves
<1>2. UNCHANGED base[n]
  <2>1. CASE P!BigPage(t)
    <3>1. load[t] # n
      BY <1>0, <2>1 DEF BasesInv, P!BigPage, HasBase
    <3>. DEFINE aligned == {p \in P!FreePages : p % Gap = 0}
    <3>2. base' = [base EXCEPT ![load[t]] = P!Min(aligned)]
      BY <2>1 DEF P!BigPage
    <3>. HIDE DEF aligned
    <3>. QED BY <1>0, <3>1, <3>2 DEF ProgramTypes
  <2>2. CASE ~P!BigPage(t)
    BY <2>2 DEF ShellStep, P!Clear, P!Fill, P!AskSize, P!OnePage, P!ReadFile, P!MapMemory,
      P!AddTask, P!Push, P!Exit
  <2>. QED BY <2>1, <2>2
<1>. QED BY <1>1, <1>2 DEF HasBase

LEMMA NextBases ==
  ASSUME P!ConstantsAssumption, ProgramInv, P!Next
  PROVE  BasesInv'
<1>0. ProgramTypes /\ LoadsInv /\ BasesInv /\ LoadsInv'
  BY NextLoads DEF ProgramInv
<1>l. \A u \in P!Pids : load[u] \in Nat /\ (Loads(u) => load[u] \in P!Pids)
  BY <1>0, LoadsAreTasks
<1>p. P!Pids \subseteq Nat /\ P!Free \notin P!Pids /\ P!Other \notin P!Pids /\ P!Free # P!Other
  BY Constants
<1>b. /\ \A t \in P!Pids : place[t] \in {"fill", "size", "big"} => \A p \in P!Pages : owner[p] # load[t]
      /\ \A n \in P!Pids : n > starts => \A p \in P!Pages : owner[p] # n
      /\ \A t \in P!Pids : place[t] \in {"pages", "read", "map", "add"} => HasBase(load[t])
      /\ \A n \in P!Pids : place[n] = "program" => HasBase(n)
  BY <1>0 DEF BasesInv
<1>1. ASSUME NEW t \in P!Pids, ShellStep(t) PROVE BasesInv'
  <2>o. \A p \in P!Pages :
          \/ UNCHANGED owner[p]
          \/ owner[p] = P!Free /\ owner'[p] = load[t] /\ place[t] \in {"big", "pages", "add"}
    BY <1>0, <1>1, OwnerMoves
  <2>k. \A n \in P!Pids : HasBase(n) => HasBase(n)' /\ UNCHANGED base[n]
    BY <1>1, BasesStay
  <2>c. CASE \E n \in Binaries : P!Clear(t, n)
    <3>1. PICK n \in Binaries : P!Clear(t, n)
      BY <2>c
    <3>2. /\ starts \in Nat /\ starts' = starts + 1 /\ starts + 1 \in P!Pids /\ starts + 1 # t
          /\ load'[t] = starts + 1 /\ \A u \in P!Pids \ {t} : UNCHANGED load[u]
          /\ place[t] = "prompt" /\ place'[t] = "fill" /\ \A u \in P!Pids \ {t} : UNCHANGED place[u]
      BY <1>0, <3>1, ClearMoves
    <3>3. UNCHANGED <<owner, base, mapped>>
      BY <3>1 DEF P!Clear
    <3>4. \A p \in P!Pages : owner[p] # starts + 1
      <4>1. starts + 1 > starts
        BY <3>2
      <4>. QED BY <1>b, <3>2, <4>1
    <3>5. \A m \in P!Pids : m > starts' => \A p \in P!Pages : owner'[p] # m
      <4>1. \A m \in P!Pids : m > starts + 1 => m > starts
        BY <1>p, <3>2
      <4>. QED BY <1>b, <3>2, <3>3, <4>1
    <3>6. \A u \in P!Pids : place'[u] \in {"fill", "size", "big"} => \A p \in P!Pages : owner'[p] # load'[u]
      BY <1>b, <3>2, <3>3, <3>4
    <3>7. \A u \in P!Pids : place'[u] \in {"pages", "read", "map", "add"} => HasBase(load[u])' /\ load'[u] = load[u]
      BY <1>b, <3>2, <3>3 DEF HasBase
    <3>8. \A m \in P!Pids : place'[m] = "program" => HasBase(m)'
      BY <1>b, <2>k, <3>2
    <3>9. \/ \E m \in P!Pids : HasBase(m)' /\ mapped' = base'[m]
          \/ \A u \in P!Pids : place'[u] \notin {"add", "program"}
      BY <1>0, <2>k, <3>2, <3>3 DEF BasesInv
    <3>10. \A u \in P!Pids : place'[u] \in {"pages", "read", "map", "add"} => HasBase(load[u])'
      BY <3>7
    <3>. QED BY <3>5, <3>6, <3>8, <3>9, <3>10 DEF BasesInv
  <2>d. CASE \A n \in Binaries : ~P!Clear(t, n)
    <3>1. /\ UNCHANGED <<starts, load, name, mixed>>
          /\ \/ Loads(t) /\ place'[t] \in P!Starting \cup {"prompt"} /\ \A u \in P!Pids \ {t} : UNCHANGED place[u]
             \/ /\ P!AddTask(t) /\ Loads(t) /\ place'[t] = "wait"
                /\ load[t] \in P!Pids \ {t} /\ place[load[t]] = "none"
                /\ place'[load[t]] = "program"
                /\ \A u \in P!Pids \ {t, load[t]} : UNCHANGED place[u]
             \/ UNCHANGED place
             \/ /\ P!Exit(t) /\ place[t] = "program"
                /\ \A u \in P!Pids : UNCHANGED place[u] \/ (place[u] \in {"program", "wait"} /\ place'[u] = "prompt")
      BY <1>0, <1>1, <2>d, PlaceMoves
    <3>2. place'[t] \in {"fill", "size", "big"} =>
            place[t] \in {"fill", "size"} \/ UNCHANGED place[t]
      BY <1>0, <1>1, <2>d DEF ShellStep, P!Fill, P!AskSize, P!BigPage, P!OnePage, P!ReadFile,
        P!MapMemory, P!AddTask, P!Push, P!Exit, P!Goto, P!Fails,
        ProgramTypes
    <3>3. place'[t] \in {"fill", "size", "big"} => place[t] \in {"fill", "size", "big"}
      BY <3>2
    <3>4. place'[t] \in {"fill", "size", "big"} => place[t] \notin {"big", "pages", "add"} \/ UNCHANGED owner
      BY <1>0, <1>1, <2>d DEF ShellStep, P!Fill, P!AskSize, P!BigPage, P!OnePage, P!ReadFile,
        P!MapMemory, P!AddTask, P!Push, P!Exit, P!Goto, P!Fails,
        ProgramTypes
    <3>5. ASSUME NEW u \in P!Pids, place'[u] \in {"fill", "size", "big"}, NEW p \in P!Pages
          PROVE owner'[p] # load'[u]
      <4>1. place[u] \in {"fill", "size", "big"}
        BY <3>1, <3>3, <3>5 DEF P!Starting
      <4>2. owner[p] # load[u]
        BY <1>b, <4>1
      <4>3. CASE UNCHANGED owner[p]
        BY <3>1, <4>2, <4>3
      <4>4. CASE owner[p] = P!Free /\ owner'[p] = load[t] /\ place[t] \in {"big", "pages", "add"}
        <5>1. CASE u = t
          BY <3>1, <3>4, <3>5, <4>2, <4>4, <5>1
        <5>2. CASE u # t
          <6>1. load[u] # load[t]
            BY <1>0, <4>1, <4>4, <5>2 DEF LoadsInv, Loads, P!Starting
          <6>. QED BY <3>1, <4>4, <6>1
        <5>. QED BY <5>1, <5>2
      <4>. QED BY <2>o, <4>3, <4>4
    <3>6. ASSUME NEW n \in P!Pids, n > starts', NEW p \in P!Pages PROVE owner'[p] # n
      <4>1. owner[p] # n
        BY <1>b, <3>1, <3>6
      <4>2. place[t] \in {"big", "pages", "add"} => load[t] # n
        <5>1. load[t] <= starts /\ load[t] \in Nat /\ starts \in Nat
          BY <1>0, <1>l, <1>p DEF LoadsInv, ProgramTypes
        <5>. QED BY <1>p, <3>1, <3>6, <5>1
      <4>. QED BY <2>o, <4>1, <4>2
    <3>7. place'[t] \in {"pages", "read", "map", "add"} => HasBase(load[t])'
      <4>1. CASE P!BigPage(t)
        <5>. DEFINE aligned == {p \in P!FreePages : p % Gap = 0}
        <5>1. P!Min(aligned) \in aligned /\ P!Min(aligned) \in P!Pages
          BY <4>1, FreePage DEF P!BigPage
        <5>2. P!Min(aligned) % Gap = 0
          BY <5>1
        <5>3. /\ owner' = [owner EXCEPT ![P!Min(aligned)] = load[t]]
              /\ base' = [base EXCEPT ![load[t]] = P!Min(aligned)]
          BY <4>1 DEF P!BigPage, P!Give
        <5>4. load[t] \in P!Pids
          BY <1>l, <4>1 DEF P!BigPage, Loads, P!Starting
        <5>. HIDE DEF aligned
        <5>. QED BY <1>0, <3>1, <5>1, <5>2, <5>3, <5>4 DEF HasBase, ProgramTypes
      <4>2. CASE ~P!BigPage(t)
        <5>1. place'[t] \in {"pages", "read", "map", "add"} => place[t] \in {"pages", "read", "map", "add"}
          BY <1>0, <1>1, <2>d, <4>2 DEF ShellStep, P!Fill, P!AskSize, P!OnePage, P!ReadFile,
            P!MapMemory, P!AddTask, P!Push, P!Exit, P!Goto, P!Fails,
            ProgramTypes
        <5>2. place[t] \in {"pages", "read", "map", "add"} => HasBase(load[t]) /\ load[t] \in P!Pids
          BY <1>b, <1>l DEF Loads, P!Starting
        <5>3. place'[t] \in {"pages", "read", "map", "add"} => \E n \in P!Pids : n = load[t] /\ HasBase(n)' /\ UNCHANGED base[n]
          BY <2>k, <5>1, <5>2
        <5>. QED BY <3>1, <5>3 DEF HasBase
      <4>. QED BY <4>1, <4>2
    <3>8. ASSUME NEW u \in P!Pids, place'[u] \in {"pages", "read", "map", "add"}
          PROVE HasBase(load[u])'
      <4>1. CASE u = t
        BY <3>7, <3>8, <4>1
      <4>2. CASE u # t
        <5>1. place[u] = place'[u]
          BY <3>1, <3>8, <4>2
        <5>2. PICK n \in P!Pids : n = load[u] /\ HasBase(n)
          BY <1>b, <1>l, <3>8, <5>1 DEF Loads, P!Starting
        <5>. QED BY <2>k, <3>1, <5>2 DEF HasBase
      <4>. QED BY <4>1, <4>2
    <3>9. ASSUME NEW n \in P!Pids, place'[n] = "program" PROVE HasBase(n)'
      <4>1. CASE place[n] = "program"
        BY <1>b, <2>k, <4>1
      <4>2. CASE place[n] # "program"
        <5>1. P!AddTask(t) /\ n = load[t] /\ place[t] = "add"
          BY <3>1, <3>9, <4>2 DEF P!Starting, P!AddTask
        <5>2. HasBase(n)
          BY <1>b, <5>1
        <5>. QED BY <2>k, <5>2
      <4>. QED BY <4>1, <4>2
    <3>10. \/ \E m \in P!Pids : HasBase(m)' /\ mapped' = base'[m]
           \/ \A u \in P!Pids : place'[u] \notin {"add", "program"}
      <4>1. CASE P!MapMemory(t)
        <5>1. PICK m \in P!Pids : m = load[t] /\ HasBase(m)
          BY <1>b, <1>l, <4>1 DEF P!MapMemory, Loads, P!Starting
        <5>2. HasBase(m)' /\ UNCHANGED base[m]
          BY <2>k, <5>1
        <5>. QED BY <4>1, <5>1, <5>2 DEF P!MapMemory
      <4>2. CASE ~P!MapMemory(t)
        <5>1. UNCHANGED mapped
          BY <1>1, <2>d, <4>2 DEF ShellStep, P!Fill, P!AskSize, P!BigPage, P!OnePage, P!ReadFile,
            P!AddTask, P!Push, P!Exit
        <5>2. CASE \E m \in P!Pids : HasBase(m) /\ mapped = base[m]
          BY <2>k, <5>1, <5>2
        <5>3. CASE \A u \in P!Pids : place[u] \notin {"add", "program"}
          <6>1. place'[t] # "add" /\ ~P!AddTask(t)
            BY <1>0, <1>1, <2>d, <4>2, <5>3 DEF ShellStep, P!Fill, P!AskSize, P!BigPage, P!OnePage,
              P!ReadFile, P!AddTask, P!Push, P!Exit, P!Goto, P!Fails,
              ProgramTypes
          <6>. QED BY <3>1, <5>3, <6>1 DEF P!Starting
        <5>. QED BY <1>0, <5>2, <5>3 DEF BasesInv
      <4>. QED BY <4>1, <4>2
    <3>11. \A u \in P!Pids : place'[u] \in {"pages", "read", "map", "add"} => HasBase(load[u])'
      BY <3>8
    <3>. QED BY <3>1, <3>5, <3>6, <3>9, <3>10, <3>11 DEF BasesInv
  <2>. QED BY <2>c, <2>d
<1>2. CASE Others
  <2>1. UNCHANGED <<starts, place, load, base, mapped>>
    BY <1>0, <1>2, OthersMove
  <2>2. \A p \in P!Pages : UNCHANGED owner[p] \/ {owner[p], owner'[p]} \subseteq {P!Free, P!Other}
    BY <1>0, <1>2, OthersOwn
  <2>3. \A n \in P!Pids : \A p \in P!Pages : owner'[p] = n <=> owner[p] = n
    BY <1>p, <2>2
  <2>4. \A n \in P!Pids : HasBase(n) => HasBase(n)'
    BY <2>1, <2>3 DEF HasBase
  <2>5. ASSUME NEW u \in P!Pids, place'[u] \in {"fill", "size", "big"}, NEW p \in P!Pages
        PROVE owner'[p] # load'[u]
    <3>1. load[u] \in P!Pids /\ owner[p] # load[u]
      BY <1>b, <1>l, <2>1, <2>5 DEF Loads, P!Starting
    <3>. QED BY <2>1, <2>3, <3>1
  <2>6. ASSUME NEW u \in P!Pids, place'[u] \in {"pages", "read", "map", "add"}
        PROVE HasBase(load[u])'
    <3>1. PICK n \in P!Pids : n = load[u] /\ HasBase(n)
      BY <1>b, <1>l, <2>1, <2>6 DEF Loads, P!Starting
    <3>. QED BY <2>1, <2>4, <3>1 DEF HasBase
  <2>7. \A n \in P!Pids : n > starts' => \A p \in P!Pages : owner'[p] # n
    BY <1>b, <2>1, <2>3
  <2>8. \A n \in P!Pids : place'[n] = "program" => HasBase(n)'
    BY <1>b, <2>1, <2>4
  <2>9. \/ \E m \in P!Pids : HasBase(m)' /\ mapped' = base'[m]
        \/ \A u \in P!Pids : place'[u] \notin {"add", "program"}
    BY <1>0, <2>1, <2>4 DEF BasesInv
  <2>. QED BY <2>1, <2>5, <2>6, <2>7, <2>8, <2>9 DEF BasesInv
<1>. QED BY <1>1, <1>2 DEF P!Next, ShellStep, Others

LEMMA NextPath ==
  ASSUME P!ConstantsAssumption, ProgramInv, P!Next
  PROVE  PathInv'
<1>0. ProgramTypes /\ LoadsInv /\ PathInv
  BY DEF ProgramInv
<1>p. \A u \in P!Pids : Loads(u) /\ place[u] # "fill" /\ load[u] \notin mixed => pd = name[load[u]]
  BY <1>0 DEF PathInv
<1>l. \A u \in P!Pids : load[u] \in Nat /\ (Loads(u) => load[u] \in P!Pids)
  BY <1>0, LoadsAreTasks
<1>1. ASSUME NEW t \in P!Pids, ShellStep(t), NEW u \in P!Pids, Loads(u)', place'[u] # "fill",
             load'[u] \notin mixed'
      PROVE  pd' = name'[load'[u]]
  <2>1. CASE \E n \in Binaries : P!Clear(t, n)
    <3>1. PICK n \in Binaries : P!Clear(t, n)
      BY <2>1
    <3>2. /\ load'[t] = starts + 1 /\ \A v \in P!Pids \ {t} : UNCHANGED load[v]
          /\ place[t] = "prompt" /\ place'[t] = "fill" /\ \A v \in P!Pids \ {t} : UNCHANGED place[v]
          /\ \A v \in P!Pids \ {t} : Loads(v) => {load[v], starts + 1} \subseteq mixed'
      BY <1>0, <3>1, ClearMoves
    <3>3. u # t
      BY <1>1, <3>2
    <3>4. Loads(u) /\ load[u] \notin mixed'
      BY <1>1, <3>2, <3>3 DEF Loads
    <3>. QED BY <3>2, <3>3, <3>4
  <2>2. CASE \A n \in Binaries : ~P!Clear(t, n)
    <3>1. UNCHANGED <<load, name, mixed>>
      BY <1>0, <1>1, <2>2, PlaceMoves
    <3>2. Loads(u)
      BY <1>0, <1>1, <2>2, PlaceMoves DEF Loads, P!Starting
    <3>3. CASE P!Fill(t)
      <4>1. pd' = name[load[t]] /\ Loads(t)
        BY <3>3 DEF P!Fill, Loads, P!Starting
      <4>2. u = t
        BY <1>0, <1>1, <3>1, <3>2, <4>1 DEF LoadsInv
      <4>. QED BY <3>1, <4>1, <4>2
    <3>4. CASE ~P!Fill(t)
      <4>1. UNCHANGED pd /\ (place'[u] # "fill" => place[u] # "fill")
        <5>1. UNCHANGED pd
          BY <1>1, <2>2, <3>4 DEF ShellStep, P!AskSize, P!BigPage, P!OnePage, P!ReadFile,
            P!MapMemory, P!AddTask, P!Push, P!Exit
        <5>2. place[t] # "fill"
          BY <1>1, <2>2, <3>4 DEF ShellStep, P!AskSize, P!BigPage, P!OnePage, P!ReadFile,
            P!MapMemory, P!AddTask, P!Push, P!Exit
        <5>3. u # t /\ Loads(u)' => UNCHANGED place[u]
          BY <1>0, <1>1, <2>2, PlaceMoves DEF Loads, P!Starting
        <5>. QED BY <1>1, <5>1, <5>2, <5>3
      <4>. QED BY <1>p, <1>1, <3>1, <3>2, <4>1
    <3>. QED BY <3>3, <3>4
  <2>. QED BY <2>1, <2>2
<1>2. CASE Others
  BY <1>0, <1>2, OthersMove DEF PathInv, Loads
<1>3. CASE \E t \in P!Pids : ShellStep(t)
  BY <1>1, <1>3 DEF PathInv
<1>. QED BY <1>2, <1>3 DEF P!Next, ShellStep, Others

LEMMA NextStacks ==
  ASSUME P!ConstantsAssumption, ProgramInv, P!Next
  PROVE  StackInv'
<1>0. ProgramTypes /\ LoadsInv /\ StackInv
  BY DEF ProgramInv
<1>1. ASSUME NEW t \in P!Pids, ShellStep(t), NEW n \in P!Pids, place'[n] = "none"
      PROVE stack'[n] = NPages
  <2>1. CASE \E m \in Binaries : P!Clear(t, m)
    <3>1. PICK m \in Binaries : P!Clear(t, m)
      BY <2>1
    <3>2. place'[t] = "fill" /\ \A v \in P!Pids \ {t} : UNCHANGED place[v]
      BY <1>0, <3>1, ClearMoves
    <3>3. place[n] = "none" /\ UNCHANGED stack
      BY <1>1, <3>1, <3>2 DEF P!Clear
    <3>. QED BY <1>0, <3>3 DEF StackInv
  <2>2. CASE \A m \in Binaries : ~P!Clear(t, m)
    <3>1. place[n] = "none" /\ (P!AddTask(t) => n # load[t])
      <4>1. CASE P!AddTask(t)
        <5>1. Loads(t) /\ place' = [place EXCEPT ![t] = "wait", ![load[t]] = "program"]
          BY <4>1 DEF P!AddTask, Loads, P!Starting
        <5>2. load[t] \in P!Pids
          BY <1>0, <5>1, LoadsAreTasks
        <5>. QED BY <1>0, <1>1, <5>1, <5>2 DEF ProgramTypes
      <4>2. CASE ~P!AddTask(t)
        BY <1>0, <1>1, <2>2, <4>2, PlaceMoves DEF P!Starting
      <4>. QED BY <4>1, <4>2
    <3>2. UNCHANGED stack[n]
      <4>1. CASE P!AddTask(t)
        BY <1>0, <3>1, <4>1 DEF P!AddTask, ProgramTypes
      <4>2. CASE ~P!AddTask(t)
        BY <1>1, <2>2, <4>2 DEF ShellStep, P!Fill, P!AskSize, P!BigPage, P!OnePage, P!ReadFile,
          P!MapMemory, P!Push, P!Exit
      <4>. QED BY <4>1, <4>2
    <3>. QED BY <1>0, <3>1, <3>2 DEF StackInv
  <2>. QED BY <2>1, <2>2
<1>2. CASE Others
  BY <1>0, <1>2, OthersMove DEF StackInv
<1>3. CASE \E t \in P!Pids : ShellStep(t)
  BY <1>1, <1>3 DEF StackInv
<1>. QED BY <1>2, <1>3 DEF P!Next, ShellStep, Others

(* The pages of an image that begins at the first page of an entry are pages of that entry. *)
LEMMA ImagesFit ==
  ASSUME P!ConstantsAssumption, ProgramTypes, NEW n \in P!Pids, NEW m \in Binaries, HasBase(n)
  PROVE  /\ base[n] \in Nat /\ Size[m] \in 1 .. Gap
         /\ base[n] .. base[n] + Size[m] - 1 \subseteq P!Pages
         /\ \A l \in P!Pids, k \in Binaries :
              HasBase(l) /\ l # n
                => (base[n] .. base[n] + Size[m] - 1) \cap (base[l] .. base[l] + Size[k] - 1) = {}
<1>1. /\ Gap \in Nat \ {0} /\ NPages \in Nat \ {0} /\ NPages % Gap = 0 /\ P!Pages = 0 .. NPages - 1
      /\ \A k \in Binaries : Size[k] \in 1 .. Gap
  BY DEF P!ConstantsAssumption, P!Pages
<1>2. base[n] \in Nat /\ base[n] < NPages /\ base[n] % Gap = 0
  BY <1>1 DEF HasBase
<1>3. base[n] + Gap <= NPages
  BY <1>1, <1>2, EntriesApart
<1>4. base[n] .. base[n] + Size[m] - 1 \subseteq P!Pages
  BY <1>1, <1>2, <1>3
<1>5. ASSUME NEW l \in P!Pids, NEW k \in Binaries, HasBase(l), l # n
      PROVE  (base[n] .. base[n] + Size[m] - 1) \cap (base[l] .. base[l] + Size[k] - 1) = {}
  <2>1. base[l] \in Nat /\ base[l] % Gap = 0
    BY <1>1, <1>5 DEF HasBase
  <2>2. base[l] # base[n]
    BY <1>5 DEF HasBase
  <2>3. Size[m] \in 1 .. Gap /\ Size[k] \in 1 .. Gap
    BY <1>1
  <2>4. CASE base[l] < base[n]
    <3>1. base[l] + Gap <= base[n]
      BY <1>1, <1>2, <2>1, <2>4, EntriesApart
    <3>. QED BY <1>1, <1>2, <2>1, <2>3, <3>1
  <2>5. CASE base[n] < base[l]
    <3>1. base[n] + Gap <= base[l]
      BY <1>1, <1>2, <2>1, <2>5, EntriesApart
    <3>. QED BY <1>1, <1>2, <2>1, <2>3, <3>1
  <2>. QED BY <1>2, <2>1, <2>2, <2>4, <2>5
<1>. QED BY <1>1, <1>2, <1>4, <1>5

(* An image that lies in its pages stays there, whatever step a task takes that does not *)
(* read a file to it.                                                                    *)
LEMMA LiesStays ==
  ASSUME P!ConstantsAssumption, ProgramInv, NEW t \in P!Pids, ShellStep(t), \A m \in Binaries : ~P!Clear(t, m),
         NEW n \in P!Pids, HasBase(n), name[n] \in Binaries, Lies(n),
         place[n] \in {"none", "program"},
         place[t] \in {"big", "pages", "read"} => load[t] # n
  PROVE  Lies(n)'
<1>0. ProgramTypes /\ LoadsInv /\ BasesInv /\ StackInv
  BY DEF ProgramInv
<1>l. Loads(t) => load[t] \in P!Pids /\ place[load[t]] = "none"
  BY <1>0, LoadsAreTasks DEF LoadsInv
<1>1. UNCHANGED base[n] /\ UNCHANGED name /\ n # P!Free /\ n # P!Other
  BY <1>0, PlaceMoves, BasesStay, Constants
<1>. DEFINE image == base[n] .. base[n] + Size[name[n]] - 1
<1>2. image \subseteq P!Pages
  BY <1>0, ImagesFit
<1>3. ASSUME NEW p \in image, owner'[p] = n, \A u \in P!Pids : p \notin P!Reach(u)'
      PROVE  content'[p] = P!Part(name[n], p - base[n])
  <2>0. p \in P!Pages
    BY <1>2
  <2>1. owner[p] = n
    <3>1. CASE owner[p] = P!Free /\ owner'[p] = load[t] /\ place[t] \in {"big", "pages", "add"}
               /\ (P!AddTask(t) => stack'[load[t]] = p)
      <4>1. place[t] = "add" /\ load[t] = n
        BY <1>3, <3>1
      <4>2. P!AddTask(t)
        BY <4>1 DEF ShellStep, P!Fill, P!AskSize, P!BigPage, P!OnePage, P!ReadFile, P!MapMemory,
          P!Push, P!Exit
      <4>3. stack'[n] = p /\ p \in Nat
        BY <2>0, <3>1, <4>1, <4>2, Constants
      <4>4. p \in P!Reach(n)'
        BY <4>3 DEF P!Reach, P!StackPages
      <4>. QED BY <1>3, <4>4
    <3>. QED BY <1>0, <1>3, <2>0, <3>1, OwnerMoves
  <2>2. ASSUME NEW u \in P!Pids PROVE p \notin P!Reach(u)
    <3>1. CASE UNCHANGED stack[u]
      BY <1>3, <3>1 DEF P!Reach
    <3>2. CASE ~UNCHANGED stack[u]
      <4>1. P!AddTask(t)
        BY <3>2 DEF ShellStep, P!Fill, P!AskSize, P!BigPage, P!OnePage, P!ReadFile, P!MapMemory,
          P!Push, P!Exit
      <4>2. u = load[t]
        BY <1>0, <3>2, <4>1 DEF P!AddTask, ProgramTypes
      <4>3. stack[u] = NPages
        BY <1>0, <1>l, <4>1, <4>2 DEF P!AddTask, Loads, P!Starting, StackInv
      <4>. QED BY <2>0, <4>3, Constants DEF P!Reach
    <3>. QED BY <3>1, <3>2
  <2>3. content[p] = P!Part(name[n], p - base[n])
    BY <2>1, <2>2 DEF Lies
  <2>4. UNCHANGED content[p]
    <3>1. CASE P!ReadFile(t)
      <4>1. CASE UNCHANGED content
        BY <4>1
      <4>2. CASE ~UNCHANGED content
        <5>. DEFINE l == load[t]
        <5>1. /\ pd \in Binaries
              /\ content' = [q \in P!Pages |-> IF q \in base[l] .. base[l] + Size[pd] - 1
                                             THEN P!Part(pd, q - base[l]) ELSE content[q]]
          BY <1>0, <3>1, <4>2 DEF P!ReadFile, ProgramTypes
        <5>2. l \in P!Pids /\ HasBase(l) /\ l # n
          BY <1>0, <1>l, <3>1 DEF P!ReadFile, Loads, P!Starting, BasesInv
        <5>. HIDE DEF l
        <5>3. p \notin base[l] .. base[l] + Size[pd] - 1
          BY <1>0, <5>1, <5>2, ImagesFit
        <5>. QED BY <2>0, <5>1, <5>3
      <4>. QED BY <4>1, <4>2
    <3>2. CASE P!Push(t)
      <4>1. content' = [q \in P!Pages |-> IF q \in P!Reach(t) THEN P!Nothing ELSE content[q]]
        BY <3>2 DEF P!Push
      <4>. QED BY <2>0, <2>2, <4>1
    <3>3. CASE ~P!ReadFile(t) /\ ~P!Push(t)
      BY <3>3 DEF ShellStep, P!Fill, P!AskSize, P!BigPage, P!OnePage, P!MapMemory, P!AddTask, P!Exit
    <3>. QED BY <3>1, <3>2, <3>3
  <2>. QED BY <2>3, <2>4
<1>. QED BY <1>1, <1>3 DEF Lies

LEMMA OthersLie ==
  ASSUME P!ConstantsAssumption, ProgramInv, Others, NEW n \in P!Pids, HasBase(n), name[n] \in Binaries, Lies(n)
  PROVE  Lies(n)'
<1>0. ProgramTypes
  BY DEF ProgramInv
<1>1. UNCHANGED <<name, base, stack>> /\ n # P!Free /\ n # P!Other
  BY <1>0, OthersMove, Constants
<1>2. base[n] .. base[n] + Size[name[n]] - 1 \subseteq P!Pages
  BY <1>0, ImagesFit
<1>3. ASSUME NEW p \in P!Pages, owner'[p] = n PROVE owner[p] = n /\ UNCHANGED content[p]
  <2>1. owner[p] = n
    BY <1>0, <1>1, <1>3, OthersOwn
  <2>2. CASE P!OtherTakes
    <3>1. P!Min(P!FreePages) # p
      BY <1>1, <2>1, <2>2, FreePage DEF P!OtherTakes
    <3>. QED BY <1>0, <2>1, <2>2, <3>1 DEF P!OtherTakes, ProgramTypes
  <2>3. CASE ~P!OtherTakes
    BY <2>1, <2>3 DEF Others, P!OtherReturns
  <2>. QED BY <2>2, <2>3
<1>. QED BY <1>1, <1>2, <1>3 DEF Lies, P!Reach

LEMMA NextImages ==
  ASSUME P!ConstantsAssumption, ProgramInv, P!Next
  PROVE  ImageInv'
<1>0. ProgramTypes /\ LoadsInv /\ BasesInv /\ PathInv /\ ImageInv
  BY DEF ProgramInv
<1>l. \A u \in P!Pids : Loads(u) => load[u] \in P!Pids /\ place[load[u]] = "none" /\ name[load[u]] \in Binaries
  BY <1>0, LoadsAreTasks DEF LoadsInv
<1>m. /\ \A u \in P!Pids : place[u] \in {"map", "add"} /\ load[u] \notin mixed
                           => Lies(load[u]) /\ HasBase(load[u])
      /\ \A n \in P!Pids : place[n] = "program" /\ n \notin mixed => Lies(n) /\ HasBase(n) /\ name[n] \in Binaries
  BY <1>0 DEF ImageInv, BasesInv, LoadsInv
<1>1. ASSUME NEW t \in P!Pids, NEW m \in Binaries, P!Clear(t, m) PROVE ImageInv'
  <2>1. /\ starts \in Nat /\ starts' = starts + 1 /\ starts + 1 \in P!Pids
        /\ load'[t] = starts + 1 /\ \A u \in P!Pids \ {t} : UNCHANGED load[u]
        /\ \A u \in P!Pids \ {starts + 1} : UNCHANGED name[u]
        /\ place'[t] = "fill" /\ \A u \in P!Pids \ {t} : UNCHANGED place[u]
        /\ mixed \subseteq mixed'
    BY <1>0, <1>1, ClearMoves
  <2>2. UNCHANGED <<owner, content, base, stack>>
    BY <1>1 DEF P!Clear
  <2>3. \A n \in P!Pids : Lies(n) /\ n # starts + 1 => Lies(n)'
    BY <2>1, <2>2 DEF Lies, P!Reach
  <2>4. place[starts + 1] = "none"
    <3>1. starts + 1 > starts
      BY <2>1
    <3>. QED BY <1>0, <2>1, <3>1 DEF LoadsInv
  <2>5. ASSUME NEW u \in P!Pids, place'[u] \in {"map", "add"}, load'[u] \notin mixed'
        PROVE Lies(load[u])' 
    <3>1. u # t /\ place[u] \in {"map", "add"} /\ load[u] \notin mixed
      BY <2>1, <2>5
    <3>2. PICK n \in P!Pids : n = load[u] /\ Lies(n)
      BY <1>l, <1>m, <3>1 DEF Loads, P!Starting
    <3>3. n <= starts
      BY <1>0, <3>2 DEF LoadsInv
    <3>4. Lies(n)' /\ load'[u] = n
      BY <2>1, <2>3, <3>1, <3>2, <3>3
    <3>. QED BY <3>4 DEF Lies
  <2>6. ASSUME NEW n \in P!Pids, place'[n] = "program", n \notin mixed' PROVE Lies(n)'
    <3>1. place[n] = "program" /\ n \notin mixed /\ n # starts + 1
      BY <2>1, <2>4, <2>6
    <3>. QED BY <1>m, <2>3, <3>1
  <2>. QED BY <2>5, <2>6 DEF ImageInv
<1>2. ASSUME NEW t \in P!Pids, ShellStep(t), \A m \in Binaries : ~P!Clear(t, m) PROVE ImageInv'
  <2>1. /\ UNCHANGED <<starts, load, name, mixed>>
        /\ \/ Loads(t) /\ place'[t] \in P!Starting \cup {"prompt"} /\ \A u \in P!Pids \ {t} : UNCHANGED place[u]
           \/ /\ P!AddTask(t) /\ Loads(t) /\ place'[t] = "wait"
              /\ load[t] \in P!Pids \ {t} /\ place[load[t]] = "none" /\ place'[load[t]] = "program"
              /\ \A u \in P!Pids \ {t, load[t]} : UNCHANGED place[u]
           \/ UNCHANGED place
           \/ /\ P!Exit(t) /\ place[t] = "program"
              /\ \A u \in P!Pids : UNCHANGED place[u] \/ (place[u] \in {"program", "wait"} /\ place'[u] = "prompt")
    BY <1>0, <1>2, PlaceMoves
  <2>2. ASSUME NEW n \in P!Pids, place[n] \in {"none", "program"}, Lies(n), HasBase(n),
               name[n] \in Binaries,
               place[t] \in {"big", "pages", "read"} => load[t] # n
        PROVE  Lies(n)'
    BY <1>2, <2>2, LiesStays
  <2>3. ASSUME NEW u \in P!Pids, place[u] \in {"map", "add"}, load[u] \notin mixed
        PROVE  Lies(load[u])'
    <3>1. PICK n \in P!Pids : n = load[u] /\ Lies(n) /\ HasBase(n) /\ name[n] \in Binaries /\ place[n] = "none"
      BY <1>l, <1>m, <2>3 DEF Loads, P!Starting
    <3>2. place[t] \in {"big", "pages", "read"} => load[t] # n
      <4>1. place[t] \in {"big", "pages", "read"} => u # t
        BY <2>3
      <4>. QED BY <1>0, <2>3, <3>1, <4>1 DEF LoadsInv, Loads, P!Starting
    <3>3. Lies(n)'
      BY <2>2, <3>1, <3>2
    <3>. QED BY <2>1, <3>1, <3>3 DEF Lies
  <2>4. ASSUME NEW n \in P!Pids, place[n] = "program", n \notin mixed PROVE Lies(n)'
    <3>1. place[t] \in {"big", "pages", "read"} => load[t] # n
      BY <1>l, <2>4 DEF Loads, P!Starting
    <3>. QED BY <1>m, <2>2, <2>4, <3>1
  <2>5. ASSUME place[t] = "read", place'[t] = "map", load[t] \notin mixed PROVE Lies(load[t])'
    <3>1. P!ReadFile(t)
      BY <1>2, <2>5 DEF ShellStep, P!Fill, P!AskSize, P!BigPage, P!OnePage, P!MapMemory, P!AddTask,
        P!Push, P!Exit
    <3>2. PICK n \in P!Pids : n = load[t] /\ HasBase(n) /\ name[n] \in Binaries
      BY <1>0, <1>l, <2>5 DEF BasesInv, Loads, P!Starting
    <3>3. pd = name[n]
      BY <1>0, <2>5, <3>2 DEF PathInv, Loads, P!Starting
    <3>4. content' = [q \in P!Pages |-> IF q \in base[n] .. base[n] + Size[name[n]] - 1
                                      THEN P!Part(name[n], q - base[n]) ELSE content[q]]
      BY <1>0, <2>5, <3>1, <3>2, <3>3 DEF P!ReadFile, P!Fails, P!Goto, ProgramTypes
    <3>5. base[n] .. base[n] + Size[name[n]] - 1 \subseteq P!Pages
      BY <1>0, <3>2, ImagesFit
    <3>6. UNCHANGED <<base, name, load>>
      BY <3>1 DEF P!ReadFile
    <3>7. Lies(n)'
      BY <3>4, <3>5, <3>6 DEF Lies
    <3>. QED BY <3>2, <3>6, <3>7 DEF Lies
  <2>6. ASSUME NEW u \in P!Pids, place'[u] \in {"map", "add"}, load'[u] \notin mixed'
        PROVE Lies(load[u])'
    <3>1. CASE place[u] \in {"map", "add"}
      BY <2>1, <2>3, <2>6, <3>1
    <3>2. CASE place[u] \notin {"map", "add"}
      <4>1. u = t
        BY <2>1, <2>6, <3>2 DEF P!Starting
      <4>2. place[t] = "read" \/ P!MapMemory(t)
        BY <1>0, <1>2, <2>6, <3>2, <4>1 DEF ShellStep, P!Fill, P!AskSize, P!BigPage, P!OnePage,
          P!ReadFile, P!AddTask, P!Push, P!Exit,
          P!Goto, P!Fails, ProgramTypes
      <4>3. place[t] = "read" /\ place'[t] = "map"
        BY <1>0, <1>2, <2>6, <3>2, <4>1, <4>2 DEF ShellStep, P!Fill, P!AskSize, P!BigPage,
          P!OnePage, P!ReadFile, P!MapMemory, P!AddTask, P!Push,
          P!Exit, P!Goto, P!Fails, ProgramTypes
      <4>. QED BY <2>1, <2>5, <2>6, <4>1, <4>3
    <3>. QED BY <3>1, <3>2
  <2>7. ASSUME NEW n \in P!Pids, place'[n] = "program", n \notin mixed' PROVE Lies(n)'
    <3>1. CASE place[n] = "program"
      BY <2>1, <2>4, <2>7, <3>1
    <3>2. CASE place[n] # "program"
      <4>1. P!AddTask(t) /\ n = load[t]
        BY <2>1, <2>7, <3>2 DEF P!Starting
      <4>2. place[t] = "add"
        BY <4>1 DEF P!AddTask
      <4>3. Lies(load[t])'
        BY <2>1, <2>3, <2>7, <4>1, <4>2
      <4>. QED BY <2>1, <4>1, <4>3 DEF Lies
    <3>. QED BY <3>1, <3>2
  <2>. QED BY <2>6, <2>7 DEF ImageInv
<1>3. CASE Others
  <2>1. UNCHANGED <<place, load, mixed>>
    BY <1>0, <1>3, OthersMove
  <2>2. ASSUME NEW u \in P!Pids, place'[u] \in {"map", "add"}, load'[u] \notin mixed'
        PROVE Lies(load[u])'
    <3>1. PICK n \in P!Pids : n = load[u] /\ Lies(n) /\ HasBase(n) /\ name[n] \in Binaries
      BY <1>l, <1>m, <2>1, <2>2 DEF Loads, P!Starting
    <3>2. Lies(n)'
      BY <1>3, <3>1, OthersLie
    <3>. QED BY <2>1, <3>1, <3>2 DEF Lies
  <2>3. ASSUME NEW n \in P!Pids, place'[n] = "program", n \notin mixed' PROVE Lies(n)'
    BY <1>3, <1>m, <2>1, <2>3, OthersLie
  <2>. QED BY <2>2, <2>3 DEF ImageInv
<1>. QED BY <1>1, <1>2, <1>3 DEF P!Next, ShellStep, Others

(* What the pages hold is what the program at the address of all programs runs. *)
LEMMA ImagesRun ==
  ASSUME P!ConstantsAssumption, ProgramInv
  PROVE  P!RunsItsProgram
<1>0. ProgramTypes /\ LoadsInv /\ BasesInv /\ ImageInv
  BY DEF ProgramInv
<1>. SUFFICES ASSUME NEW t \in P!Pids, place[t] = "program", t \notin mixed,
                     \A p \in mapped .. mapped + Size[name[t]] - 1 : owner[p] = t,
                     \A u \in P!Pids : (mapped .. mapped + Size[name[t]] - 1) \cap P!Reach(u) = {},
                     NEW p \in mapped .. mapped + Size[name[t]] - 1
              PROVE  content[p] = P!Part(name[t], p - mapped)
  BY DEF P!RunsItsProgram
<1>1. HasBase(t) /\ name[t] \in Binaries /\ Lies(t)
  BY <1>0 DEF BasesInv, LoadsInv, ImageInv
<1>2. PICK m \in P!Pids : HasBase(m) /\ mapped = base[m]
  BY <1>0 DEF BasesInv
<1>3. mapped \in Nat /\ Size[name[t]] \in Nat \ {0}
  <2>1. Size[name[t]] \in 1 .. Gap /\ Gap \in Nat
    BY <1>1, Constants
  <2>2. mapped \in Nat
    BY <1>0 DEF ProgramTypes
  <2>. QED BY <2>1, <2>2
<1>4. owner[mapped] = t
  <2>1. mapped \in mapped .. mapped + Size[name[t]] - 1
    BY <1>3
  <2>. QED BY <2>1
<1>5. mapped = base[t]
  BY <1>2, <1>4 DEF HasBase
<1>. QED BY <1>1, <1>5 DEF Lies

LEMMA NextProgram == P!ConstantsAssumption /\ ProgramInv /\ [P!Next]_P!programsVars => ProgramInv'
<1>. SUFFICES ASSUME P!ConstantsAssumption, ProgramInv, [P!Next]_P!programsVars PROVE ProgramInv'
  OBVIOUS
<1>1. CASE P!Next
  BY <1>1, NextProgramTypes, NextLoads, NextBases, NextPath, NextImages, NextStacks DEF ProgramInv
<1>2. CASE UNCHANGED P!programsVars
  <2>1. UNCHANGED <<pd, owner, content, mapped, starts, place, load, pages, name, base, stack, mixed>>
    BY <1>2 DEF P!programsVars
  <2>2. ProgramTypes'
    BY NextProgramTypes
  <2>3. LoadsInv'
    BY <2>1 DEF ProgramInv, LoadsInv, Loads
  <2>4. BasesInv'
    BY <2>1 DEF ProgramInv, BasesInv, HasBase
  <2>5. PathInv' /\ StackInv'
    BY <2>1 DEF ProgramInv, PathInv, StackInv, Loads
  <2>6. ImageInv'
    BY <2>1 DEF ProgramInv, ImageInv, Lies, P!Reach
  <2>. QED BY <2>2, <2>3, <2>4, <2>5, <2>6 DEF ProgramInv
<1>. QED BY <1>1, <1>2

(* A program whose shell started it alone, and whose pages are its own, runs as it was     *)
(* typed: for any number of starts, and programs, entries and memory of any size.          *)
THEOREM ProgramsCorrect == P!ConstantsAssumption => (P!Spec => []RunsItsProgram)
<1>. SUFFICES ASSUME P!ConstantsAssumption PROVE P!Spec => []RunsItsProgram
  OBVIOUS
<1>1. P!Init => ProgramInv
  BY InitProgram
<1>2. ProgramInv /\ [P!Next]_P!programsVars => ProgramInv'
  BY NextProgram
<1>3. ProgramInv => RunsItsProgram
  BY ImagesRun DEF RunsItsProgram
<1>. QED BY <1>1, <1>2, <1>3, PTL DEF P!Spec

-----------------------------------------------------------------------------

(* The bytes of a processor; a call stack that holds the calls of a sequence. *)
Cpus == UNION {[places -> 0 .. 255] : places \in SUBSET Nat}
Holds(c, held) ==
  /\ X!Byte(c, X!CallStackPointer) = Len(held)
  /\ \A i \in Nat : i < Len(held) => X!Word(c, X!CallStackAt(i)) = held[i + 1]

InterpreterTypes ==
  /\ running \subseteq Interpreters
  /\ processors \in Seq(Cpus) /\ current \in Nat /\ current <= Len(processors)
  /\ running # {} => current # 0
  /\ DOMAIN header = Interpreters /\ \A s \in running : header[s] \in [0 .. SXE_MEMORY_SIZE -> Nat]
  /\ open \in [Interpreters -> Seq(Nat)]

(* A run that nobody meets is the only one, and its processor has its open calls. *)
CallsInv ==
  \A s \in running \ disturbed :
    running = {s} /\ Len(open[s]) < SXE_CALL_STACK_SIZE /\ Holds(X!Cpu, open[s])

InterpreterInv == InterpreterTypes /\ CallsInv

-----------------------------------------------------------------------------
(* The two bytes of a word. *)
LEMMA LowHalf ==
  ASSUME NEW v \in Nat, v < 65536
  PROVE  /\ v \div 256 \in Nat /\ v \div 256 < 256 /\ (v \div 256) % 256 = v \div 256
         /\ (v % 256) + 256 * (v \div 256) = v
<1>1. v \div 256 \in Nat /\ v \div 256 < 256
  OBVIOUS
<1>2. (v \div 256) % 256 = v \div 256
  OBVIOUS
<1>3. (v % 256) + 256 * (v \div 256) = v
  OBVIOUS
<1>. QED BY <1>1, <1>2, <1>3

LEMMA Truncated ==
  ASSUME NEW w \in Int
  PROVE  \E v \in Nat : v = w % 65536 /\ v < 65536 /\ v % 256 = w % 256
<1>1. w % 65536 \in Nat /\ w % 65536 < 65536
  OBVIOUS
<1>2. (w % 65536) % 256 = w % 256
  OBVIOUS
<1>. QED BY <1>1, <1>2

LEMMA Joined ==
  ASSUME NEW low \in Nat, NEW high \in Nat, low < 256, high < 256
  PROVE  low + 256 * high \in Nat /\ low + 256 * high < 65536
OBVIOUS

LEMMA Small ==
  ASSUME NEW n \in Nat
  PROVE  /\ n < 256 => n % 256 = n
         /\ 0 < n /\ n < 256 => (n + 255) % 256 = n - 1
         /\ n < 65536 => n % 65536 = n
<1>1. n < 256 => n % 256 = n
  OBVIOUS
<1>2. 0 < n /\ n < 256 => (n + 255) % 256 = n - 1
  OBVIOUS
<1>3. n < 65536 => n % 65536 = n
  OBVIOUS
<1>. QED BY <1>1, <1>2, <1>3

(* A byte that is stored is there, and all others are as they were. *)
LEMMA Stored ==
  ASSUME NEW c \in Cpus, NEW at \in Nat, NEW b \in Int
  PROVE  /\ X!PutByte(c, at, b) \in Cpus
         /\ X!Byte(X!PutByte(c, at, b), at) = b % 256
         /\ \A x \in Nat : x # at => X!Byte(X!PutByte(c, at, b), x) = X!Byte(c, x)
<1>1. PICK places \in SUBSET Nat : c \in [places -> 0 .. 255]
  BY DEF Cpus
<1>. DEFINE d == X!PutByte(c, at, b)
<1>2. d = [x \in {at} \cup places |-> IF x = at THEN b % 256 ELSE c[x]]
  BY <1>1 DEF X!PutByte
<1>3. b % 256 \in 0 .. 255
  OBVIOUS
<1>4. d \in [{at} \cup places -> 0 .. 255]
  BY <1>1, <1>2, <1>3
<1>5. d \in Cpus
  BY <1>4 DEF Cpus
<1>6. X!Byte(d, at) = b % 256
  BY <1>2 DEF X!Byte
<1>7. ASSUME NEW x \in Nat, x # at PROVE X!Byte(d, x) = X!Byte(c, x)
  BY <1>1, <1>2, <1>7 DEF X!Byte
<1>. QED BY <1>5, <1>6, <1>7

LEMMA Loaded ==
  ASSUME NEW c \in Cpus, NEW at \in Nat
  PROVE  /\ X!Byte(c, at) \in Nat /\ X!Byte(c, at) < 256
         /\ X!Word(c, at) \in Nat /\ X!Word(c, at) < 65536
<1>1. PICK places \in SUBSET Nat : c \in [places -> 0 .. 255]
  BY DEF Cpus
<1>2. ASSUME NEW x \in Nat PROVE X!Byte(c, x) \in Nat /\ X!Byte(c, x) < 256
  <2>1. DOMAIN c = places
    BY <1>1
  <2>2. x \in places => c[x] \in Nat /\ c[x] < 256
    BY <1>1
  <2>. QED BY <2>1, <2>2 DEF X!Byte
<1>3. at + 1 \in Nat
  OBVIOUS
<1>4. PICK low \in Nat : low = X!Byte(c, at) /\ low < 256
  BY <1>2
<1>5. PICK high \in Nat : high = X!Byte(c, at + 1) /\ high < 256
  BY <1>2, <1>3
<1>6. low + 256 * high \in Nat /\ low + 256 * high < 65536
  BY <1>4, <1>5, Joined
<1>7. X!Word(c, at) = low + 256 * high
  BY <1>4, <1>5 DEF X!Word
<1>. QED BY <1>4, <1>6, <1>7

(* A word that is stored is there, too. *)
LEMMA WordStored ==
  ASSUME NEW c \in Cpus, NEW at \in Nat, NEW w \in Int
  PROVE  /\ X!PutWord(c, at, w) \in Cpus
         /\ X!Word(X!PutWord(c, at, w), at) = w % 65536
         /\ \A x \in Nat : x # at /\ x # at + 1 => X!Byte(X!PutWord(c, at, w), x) = X!Byte(c, x)
<1>1. PICK v \in Nat : v = w % 65536 /\ v < 65536 /\ v % 256 = w % 256
  BY Truncated
<1>2. PICK high \in Nat : high = v \div 256 /\ high % 256 = high /\ (v % 256) + 256 * high = v
  BY <1>1, LowHalf
<1>3. PICK low \in Cpus : low = X!PutByte(c, at, w)
  BY Stored
<1>4. X!Byte(low, at) = w % 256 /\ \A x \in Nat : x # at => X!Byte(low, x) = X!Byte(c, x)
  BY <1>3, Stored
<1>5. at + 1 \in Nat /\ at + 1 # at
  OBVIOUS
<1>6. PICK d \in Cpus : d = X!PutByte(low, at + 1, high)
  BY <1>5, Stored
<1>7. X!Byte(d, at + 1) = high /\ \A x \in Nat : x # at + 1 => X!Byte(d, x) = X!Byte(low, x)
  BY <1>2, <1>5, <1>6, Stored
<1>8. d = X!PutWord(c, at, w)
  BY <1>1, <1>2, <1>3, <1>6 DEF X!PutWord
<1>9. X!Word(d, at) = w % 65536
  <2>1. X!Byte(d, at) = v % 256
    BY <1>1, <1>4, <1>5, <1>7
  <2>2. X!Word(d, at) = (v % 256) + 256 * high
    BY <1>7, <2>1 DEF X!Word
  <2>. QED BY <1>1, <1>2, <2>2
<1>10. \A x \in Nat : x # at /\ x # at + 1 => X!Byte(d, x) = X!Byte(c, x)
  BY <1>4, <1>7
<1>. QED BY <1>8, <1>9, <1>10

-----------------------------------------------------------------------------
LEMMA PutByteType ==
  ASSUME NEW c \in Cpus, NEW at \in Nat, NEW b \in Int
  PROVE  X!PutByte(c, at, b) \in Cpus
BY Stored

LEMMA PutByteElse ==
  ASSUME NEW c \in Cpus, NEW at \in Nat, NEW b \in Int, NEW x \in Nat, x # at
  PROVE  X!Byte(X!PutByte(c, at, b), x) = X!Byte(c, x)
BY Stored

LEMMA PutByteThere ==
  ASSUME NEW c \in Cpus, NEW at \in Nat, NEW b \in Nat, b < 256
  PROVE  X!Byte(X!PutByte(c, at, b), at) = b
<1>1. b \in Int
  OBVIOUS
<1>2. X!Byte(X!PutByte(c, at, b), at) = b % 256
  BY <1>1, Stored
<1>3. b % 256 = b
  BY Small
<1>. QED BY <1>2, <1>3

LEMMA PutWordType ==
  ASSUME NEW c \in Cpus, NEW at \in Nat, NEW w \in Int
  PROVE  X!PutWord(c, at, w) \in Cpus
BY WordStored

LEMMA PutWordElse ==
  ASSUME NEW c \in Cpus, NEW at \in Nat, NEW w \in Int, NEW x \in Nat, x # at, x # at + 1
  PROVE  X!Byte(X!PutWord(c, at, w), x) = X!Byte(c, x)
BY WordStored

LEMMA PutWordThere ==
  ASSUME NEW c \in Cpus, NEW at \in Nat, NEW w \in Nat, w < 65536
  PROVE  X!Word(X!PutWord(c, at, w), at) = w
<1>1. w \in Int
  OBVIOUS
<1>2. X!Word(X!PutWord(c, at, w), at) = w % 65536
  BY <1>1, WordStored
<1>3. w % 65536 = w
  BY Small
<1>. QED BY <1>2, <1>3

LEMMA Layout ==
  ASSUME X!ConstantsAssumption
  PROVE  /\ SXE_CALL_STACK_SIZE \in Nat /\ 0 < SXE_CALL_STACK_SIZE /\ SXE_CALL_STACK_SIZE <= 10
         /\ SXE_MEMORY_SIZE \in Nat /\ SXE_MEMORY_SIZE <= 4095
         /\ X!CallStackPointer \in Nat /\ X!CallStackPointer = 2 + 2 * SXE_CALL_STACK_SIZE
         /\ X!StackPointer \in Nat /\ X!StackPointer > X!CallStackPointer
         /\ X!RegA \in Nat /\ X!RegA > X!CallStackPointer /\ X!RegB \in Nat /\ X!RegB > X!CallStackPointer
         /\ \A i \in Nat : X!CallStackAt(i) \in Nat /\ X!CallStackAt(i) = 2 + 2 * i
         /\ \A i \in Nat : X!StackAt(i) \in Nat /\ X!StackAt(i) > X!CallStackPointer
         /\ X!MemoryPointer = 0
BY DEF X!ConstantsAssumption, X!CallStackPointer, X!CallStackAt, X!StackPointer, X!StackAt, X!RegA, X!RegB, X!MemoryPointer

(* What leaves the call stack and its pointer as they are. *)
SameCalls(c, d) == \A x \in Nat : 2 <= x /\ x <= X!CallStackPointer => X!Byte(d, x) = X!Byte(c, x)

LEMMA ByteAside ==
  ASSUME X!ConstantsAssumption, NEW c \in Cpus, NEW at \in Nat, at > X!CallStackPointer, NEW b \in Int
  PROVE  SameCalls(c, X!PutByte(c, at, b))
<1>1. ASSUME NEW x \in Nat, x <= X!CallStackPointer PROVE x # at
  BY <1>1, Layout
<1>. QED BY <1>1, PutByteElse DEF SameCalls

LEMMA WordAside ==
  ASSUME X!ConstantsAssumption, NEW c \in Cpus, NEW at \in Nat, at > X!CallStackPointer, NEW w \in Int
  PROVE  SameCalls(c, X!PutWord(c, at, w))
<1>1. ASSUME NEW x \in Nat, x <= X!CallStackPointer PROVE x # at /\ x # at + 1
  BY <1>1, Layout
<1>. QED BY <1>1, PutWordElse DEF SameCalls

LEMMA Gone ==
  ASSUME X!ConstantsAssumption, NEW c \in Cpus, NEW w \in Int
  PROVE  X!GoTo(c, w) \in Cpus /\ SameCalls(c, X!GoTo(c, w))
<1>1. X!GoTo(c, w) = X!PutWord(c, 0, w) /\ 0 \in Nat
  BY DEF X!GoTo, X!MemoryPointer
<1>2. ASSUME NEW x \in Nat, 2 <= x PROVE x # 0 /\ x # 0 + 1
  BY <1>2
<1>3. X!PutWord(c, 0, w) \in Cpus
  BY PutWordType
<1>4. SameCalls(c, X!PutWord(c, 0, w))
  BY <1>2, PutWordElse DEF SameCalls
<1>. QED BY <1>1, <1>3, <1>4

LEMMA SameTwice ==
  ASSUME NEW c, NEW d, NEW e, SameCalls(c, d), SameCalls(d, e)
  PROVE  SameCalls(c, e)
BY DEF SameCalls

LEMMA SamePointer ==
  ASSUME X!ConstantsAssumption, NEW c, NEW d, SameCalls(c, d)
  PROVE  X!Byte(d, X!CallStackPointer) = X!Byte(c, X!CallStackPointer)
<1>1. PICK at \in Nat : at = X!CallStackPointer /\ 2 <= at /\ at <= X!CallStackPointer
  <2>1. X!CallStackPointer \in Nat /\ 2 <= X!CallStackPointer
    BY Layout
  <2>2. X!CallStackPointer <= X!CallStackPointer
    BY <2>1
  <2>. QED BY <2>1, <2>2
<1>2. X!Byte(d, at) = X!Byte(c, at)
  BY <1>1 DEF SameCalls
<1>. QED BY <1>1, <1>2

(* A call that is open is below the pointer; its word is where no other is. *)
LEMMA Below ==
  ASSUME X!ConstantsAssumption, NEW i \in Nat, i < SXE_CALL_STACK_SIZE
  PROVE  /\ X!CallStackAt(i) \in Nat /\ X!CallStackAt(i) + 1 \in Nat
         /\ 2 <= X!CallStackAt(i) /\ X!CallStackAt(i) + 1 < X!CallStackPointer
         /\ \A j \in Nat : j # i => /\ X!CallStackAt(j) # X!CallStackAt(i) /\ X!CallStackAt(j) # X!CallStackAt(i) + 1
                                    /\ X!CallStackAt(j) + 1 # X!CallStackAt(i) /\ X!CallStackAt(j) + 1 # X!CallStackAt(i) + 1
BY Layout

(* Calls that a processor holds are held by one with the same bytes. *)
LEMMA HoldsStill ==
  ASSUME X!ConstantsAssumption, NEW c \in Cpus, NEW d \in Cpus, SameCalls(c, d), NEW held \in Seq(Nat),
         Len(held) < SXE_CALL_STACK_SIZE, Holds(c, held)
  PROVE  Holds(d, held)
<1>1. PICK n \in Nat : n = Len(held)
  OBVIOUS
<1>2. X!Byte(d, X!CallStackPointer) = X!Byte(c, X!CallStackPointer)
  BY SamePointer
<1>3. ASSUME NEW i \in Nat, i < Len(held) PROVE X!Word(d, X!CallStackAt(i)) = X!Word(c, X!CallStackAt(i))
  <2>1. i < SXE_CALL_STACK_SIZE
    BY <1>1, <1>3, Layout
  <2>2. PICK at \in Nat : at = X!CallStackAt(i) /\ at + 1 \in Nat /\ 2 <= at /\ at + 1 < X!CallStackPointer
    BY <2>1, Below
  <2>3. X!CallStackPointer \in Nat
    BY Layout
  <2>4. X!Byte(d, at) = X!Byte(c, at) /\ X!Byte(d, at + 1) = X!Byte(c, at + 1)
    BY <2>2, <2>3 DEF SameCalls
  <2>. QED BY <2>2, <2>4 DEF X!Word
<1>. QED BY <1>2, <1>3 DEF Holds

LEMMA HeldBelow ==
  ASSUME X!ConstantsAssumption, NEW c, NEW d, NEW held \in Seq(Nat), Holds(c, held),
         NEW m \in Nat, m <= Len(held),
         \A x \in Nat : 2 <= x /\ x < X!CallStackAt(m) => X!Byte(d, x) = X!Byte(c, x),
         NEW i \in Nat, i < m
  PROVE  X!Word(d, X!CallStackAt(i)) = held[i + 1]
<1>1. PICK n \in Nat : n = Len(held)
  OBVIOUS
<1>2. i < Len(held)
  BY <1>1
<1>3. PICK at \in Nat : at = X!CallStackAt(i) /\ 2 <= at
  BY Layout
<1>4. at < X!CallStackAt(m) /\ at + 1 < X!CallStackAt(m) /\ at + 1 \in Nat /\ 2 <= at + 1
  <2>1. X!CallStackAt(m) = 2 + 2 * m /\ at = 2 + 2 * i
    BY <1>3, Layout
  <2>. QED BY <2>1
<1>5. X!Byte(d, at) = X!Byte(c, at)
  BY <1>3, <1>4
<1>6. X!Byte(d, at + 1) = X!Byte(c, at + 1)
  BY <1>4
<1>7. X!Word(d, at) = X!Word(c, at)
  BY <1>5, <1>6 DEF X!Word
<1>8. X!Word(c, X!CallStackAt(i)) = held[i + 1]
  BY <1>2 DEF Holds
<1>. QED BY <1>3, <1>7, <1>8

(* A call more, and one less. *)
LEMMA HoldsMore ==
  ASSUME X!ConstantsAssumption, NEW c, NEW d, NEW held \in Seq(Nat), Holds(c, held), NEW back \in Nat,
         \A x \in Nat : 2 <= x /\ x < X!CallStackAt(Len(held)) => X!Byte(d, x) = X!Byte(c, x),
         X!Byte(d, X!CallStackPointer) = Len(held) + 1, X!Word(d, X!CallStackAt(Len(held))) = back
  PROVE  Holds(d, Append(held, back))
<1>1. PICK n \in Nat : n = Len(held)
  OBVIOUS
<1>2. Len(Append(held, back)) = n + 1
  BY <1>1
<1>3. Append(held, back)[n + 1] = back
  BY <1>1
<1>4. n <= Len(held)
  BY <1>1
<1>5. \A x \in Nat : 2 <= x /\ x < X!CallStackAt(n) => X!Byte(d, x) = X!Byte(c, x)
  BY <1>1
<1>6. ASSUME NEW i \in Nat, i < n + 1
      PROVE  X!Word(d, X!CallStackAt(i)) = Append(held, back)[i + 1]
  <2>1. CASE i = n
    BY <1>1, <1>3, <2>1
  <2>2. CASE i # n
    <3>1. i < n
      BY <1>6, <2>2
    <3>2. X!Word(d, X!CallStackAt(i)) = held[i + 1]
      BY <1>4, <1>5, <3>1, HeldBelow
    <3>3. Append(held, back)[i + 1] = held[i + 1]
      BY <1>1, <3>1
    <3>. QED BY <3>2, <3>3
  <2>. QED BY <2>1, <2>2
<1>. QED BY <1>1, <1>2, <1>6 DEF Holds

LEMMA HoldsLess ==
  ASSUME X!ConstantsAssumption, NEW c, NEW d, NEW held \in Seq(Nat), Holds(c, held),
         NEW m \in Nat, m <= Len(held),
         \A x \in Nat : 2 <= x /\ x < X!CallStackAt(m) => X!Byte(d, x) = X!Byte(c, x),
         X!Byte(d, X!CallStackPointer) = m
  PROVE  Holds(d, SubSeq(held, 1, m))
<1>1. Len(SubSeq(held, 1, m)) = m
  OBVIOUS
<1>4. ASSUME NEW i \in Nat, i < m
      PROVE  X!Word(d, X!CallStackAt(i)) = SubSeq(held, 1, m)[i + 1]
  <2>1. X!Word(d, X!CallStackAt(i)) = held[i + 1]
    BY <1>4, HeldBelow
  <2>2. SubSeq(held, 1, m)[i + 1] = held[i + 1]
    BY <1>4
  <2>. QED BY <2>1, <2>2
<1>. QED BY <1>1, <1>4 DEF Holds

-----------------------------------------------------------------------------
(* CALL with a free entry in the call stack. *)
LEMMA CallHolds ==
  ASSUME X!ConstantsAssumption, NEW c \in Cpus, NEW held \in Seq(Nat), Holds(c, held),
         NEW n \in Nat, n = Len(held), n < SXE_CALL_STACK_SIZE,
         NEW back \in Nat, back < 65536, NEW where \in Int
  PROVE  Holds(X!GoTo(X!PutByte(X!PutWord(c, X!CallStackAt(n), back), X!CallStackPointer, n + 1), where),
               Append(held, back))
<1>1. PICK at \in Nat : at = X!CallStackAt(n) /\ at + 1 \in Nat /\ 2 <= at /\ at + 1 < X!CallStackPointer
  BY Below
<1>2. PICK top \in Nat : top = X!CallStackPointer
  BY Layout
<1>3. n + 1 < 256 /\ n + 1 \in Nat /\ n + 1 \in Int
  <2>1. PICK size \in Nat : size = SXE_CALL_STACK_SIZE /\ size <= 10
    BY Layout
  <2>. QED BY <2>1
<1>4. PICK kept \in Cpus : kept = X!PutWord(c, at, back)
  <2>1. back \in Int
    OBVIOUS
  <2>2. X!PutWord(c, at, back) \in Cpus
    BY <2>1, PutWordType
  <2>. QED BY <2>2
<1>5. X!Word(kept, at) = back
  BY <1>4, PutWordThere
<1>6. ASSUME NEW x \in Nat, x < at PROVE X!Byte(kept, x) = X!Byte(c, x)
  <2>1. back \in Int /\ x # at /\ x # at + 1
    BY <1>6
  <2>. QED BY <1>4, <2>1, PutWordElse
<1>7. PICK up \in Cpus : up = X!PutByte(kept, top, n + 1)
  <2>1. X!PutByte(kept, top, n + 1) \in Cpus
    BY <1>3, PutByteType
  <2>. QED BY <2>1
<1>8. X!Byte(up, top) = n + 1
  <2>1. X!Byte(X!PutByte(kept, top, n + 1), top) = n + 1
    BY <1>3, PutByteThere
  <2>. QED BY <1>7, <2>1
<1>9. ASSUME NEW x \in Nat, x < top PROVE X!Byte(up, x) = X!Byte(kept, x)
  <2>1. x # top
    BY <1>9
  <2>. QED BY <1>3, <1>7, <2>1, PutByteElse
<1>10. PICK d \in Cpus : d = X!GoTo(up, where) /\ SameCalls(up, d)
  BY Gone
<1>11. X!Byte(d, top) = n + 1
  <2>1. X!Byte(d, X!CallStackPointer) = X!Byte(up, X!CallStackPointer)
    BY <1>10, SamePointer
  <2>. QED BY <1>2, <1>8, <2>1
<1>12. ASSUME NEW x \in Nat, 2 <= x, x < top PROVE X!Byte(d, x) = X!Byte(kept, x)
  <2>1. x <= X!CallStackPointer
    BY <1>2, <1>12
  <2>2. X!Byte(d, x) = X!Byte(up, x)
    BY <1>10, <1>12, <2>1 DEF SameCalls
  <2>. QED BY <1>9, <1>12, <2>2
<1>13. at < top /\ at + 1 < top /\ 2 <= at + 1
  BY <1>1, <1>2
<1>14. X!Word(d, at) = back
  <2>1. X!Byte(d, at) = X!Byte(kept, at)
    BY <1>1, <1>12, <1>13
  <2>2. X!Byte(d, at + 1) = X!Byte(kept, at + 1)
    BY <1>1, <1>12, <1>13
  <2>. QED BY <1>5, <2>1, <2>2 DEF X!Word
<1>15. ASSUME NEW x \in Nat, 2 <= x, x < at PROVE X!Byte(d, x) = X!Byte(c, x)
  <2>1. x < top
    BY <1>13, <1>15
  <2>2. X!Byte(d, x) = X!Byte(kept, x)
    BY <1>12, <1>15, <2>1
  <2>. QED BY <1>6, <1>15, <2>2
<1>16. Holds(d, Append(held, back))
  <2>1. \A x \in Nat : 2 <= x /\ x < X!CallStackAt(Len(held)) => X!Byte(d, x) = X!Byte(c, x)
    BY <1>1, <1>15
  <2>2. X!Byte(d, X!CallStackPointer) = Len(held) + 1 /\ X!Word(d, X!CallStackAt(Len(held))) = back
    BY <1>1, <1>2, <1>11, <1>14
  <2>. QED BY <2>1, <2>2, HoldsMore
<1>17. d = X!GoTo(X!PutByte(X!PutWord(c, X!CallStackAt(n), back), X!CallStackPointer, n + 1), where)
  BY <1>1, <1>2, <1>4, <1>7, <1>10
<1>. QED BY <1>16, <1>17

(* A return: above is cleared, the pointer goes down, and the entry under it is cleared. *)
LEMMA ReturnHolds ==
  ASSUME X!ConstantsAssumption, NEW c \in Cpus, NEW held \in Seq(Nat), Holds(c, held),
         NEW m \in Nat, Len(held) = m + 1, m + 1 < SXE_CALL_STACK_SIZE, NEW where \in Int,
         NEW above, above = X!PutWord(c, X!CallStackAt(m + 1), 0),
         NEW down, down = X!PutByte(above, X!CallStackPointer, m),
         NEW back, back = X!GoTo(down, where)
  PROVE  Holds(X!PutWord(back, X!CallStackAt(m), 0), SubSeq(held, 1, m))
<1>1. PICK at \in Nat : at = X!CallStackAt(m) /\ at + 1 \in Nat /\ 2 <= at /\ at + 1 < X!CallStackPointer
  <2>1. m < SXE_CALL_STACK_SIZE
    BY Layout
  <2>. QED BY <2>1, Below
<1>2. PICK up \in Nat : up = X!CallStackAt(m + 1) /\ at + 1 < up
  <2>1. m + 1 \in Nat
    OBVIOUS
  <2>2. X!CallStackAt(m + 1) \in Nat /\ X!CallStackAt(m + 1) = 2 + 2 * (m + 1) /\ X!CallStackAt(m) = 2 + 2 * m
    BY <2>1, Layout
  <2>. QED BY <1>1, <2>2
<1>3. PICK top \in Nat : top = X!CallStackPointer
  BY Layout
<1>4. 0 \in Int /\ m \in Int /\ m < 256
  BY Layout
<1>5. above \in Cpus /\ above = X!PutWord(c, up, 0)
  BY <1>2, <1>4, PutWordType
<1>6. ASSUME NEW x \in Nat, x < at PROVE X!Byte(above, x) = X!Byte(c, x)
  <2>1. x # up /\ x # up + 1
    BY <1>2, <1>6
  <2>. QED BY <1>4, <1>5, <2>1, PutWordElse
<1>7. down \in Cpus /\ down = X!PutByte(above, top, m)
  BY <1>3, <1>4, <1>5, PutByteType
<1>8. X!Byte(down, top) = m
  <2>1. X!Byte(X!PutByte(above, top, m), top) = m
    BY <1>3, <1>4, <1>5, PutByteThere
  <2>. QED BY <1>7, <2>1
<1>9. ASSUME NEW x \in Nat, x < top PROVE X!Byte(down, x) = X!Byte(above, x)
  <2>1. x # top
    BY <1>9
  <2>. QED BY <1>4, <1>5, <1>7, <2>1, PutByteElse
<1>10. back \in Cpus /\ SameCalls(down, back)
  BY <1>7, Gone
<1>. DEFINE d == X!PutWord(back, at, 0)
<1>11. X!Byte(d, top) = m
  <2>1. X!Byte(back, X!CallStackPointer) = X!Byte(down, X!CallStackPointer)
    BY <1>10, SamePointer
  <2>2. top # at /\ top # at + 1
    BY <1>1, <1>3
  <2>3. X!Byte(d, top) = X!Byte(back, top)
    BY <1>4, <1>10, <2>2, PutWordElse
  <2>. QED BY <1>3, <1>8, <2>1, <2>3
<1>12. ASSUME NEW x \in Nat, 2 <= x, x < at PROVE X!Byte(d, x) = X!Byte(c, x)
  <2>1. x <= X!CallStackPointer /\ x < top /\ x # at /\ x # at + 1
    BY <1>1, <1>3, <1>12
  <2>2. X!Byte(d, x) = X!Byte(back, x)
    BY <1>4, <1>10, <2>1, PutWordElse
  <2>3. X!Byte(back, x) = X!Byte(down, x)
    BY <1>10, <1>12, <2>1 DEF SameCalls
  <2>. QED BY <1>6, <1>9, <1>12, <2>1, <2>2, <2>3
<1>. HIDE DEF d
<1>13. Holds(d, SubSeq(held, 1, m))
  <2>1. \A x \in Nat : 2 <= x /\ x < X!CallStackAt(m) => X!Byte(d, x) = X!Byte(c, x)
    BY <1>1, <1>12
  <2>2. X!Byte(d, X!CallStackPointer) = m
    BY <1>3, <1>11
  <2>3. m <= Len(held)
    OBVIOUS
  <2>. QED BY <2>1, <2>2, <2>3, HoldsLess
<1>. QED BY <1>1, <1>13 DEF d

-----------------------------------------------------------------------------
(* What an instruction has before it. *)
LEMMA Registers ==
  ASSUME X!ConstantsAssumption, InterpreterTypes, running # {}
  PROVE  /\ current \in 1 .. Len(processors) /\ X!Cpu \in Cpus
         /\ X!Here \in Nat /\ X!Here < 65536 /\ X!A \in Nat /\ X!A < 65536 /\ X!B \in Nat /\ X!B < 65536
<1>1. current \in 1 .. Len(processors) /\ processors \in Seq(Cpus)
  BY DEF InterpreterTypes
<1>2. X!Cpu \in Cpus
  BY <1>1 DEF X!Cpu
<1>3. X!Here \in Nat /\ X!Here < 65536
  <2>1. X!MemoryPointer \in Nat
    BY Layout
  <2>. QED BY <1>2, <2>1, Loaded DEF X!Here
<1>4. X!A \in Nat /\ X!A < 65536
  <2>1. X!RegA \in Nat
    BY Layout
  <2>. QED BY <1>2, <2>1, Loaded DEF X!A
<1>5. X!B \in Nat /\ X!B < 65536
  <2>1. X!RegB \in Nat
    BY Layout
  <2>. QED BY <1>2, <2>1, Loaded DEF X!B
<1>. QED BY <1>1, <1>2, <1>3, <1>4, <1>5

LEMMA Arguments ==
  ASSUME X!ConstantsAssumption, InterpreterTypes, NEW s \in running, X!Here < SXE_MEMORY_SIZE
  PROVE  X!Argument(s) \in Nat /\ X!Memory(s, X!Argument(s)) \in Nat
<1>. PICK size \in Nat : size = SXE_MEMORY_SIZE
  BY Layout
<1>1. PICK words \in [0 .. size -> Nat] : words = header[s]
  BY DEF InterpreterTypes
<1>2. PICK here \in Nat : here = X!Here /\ here < size
  BY Registers
<1>3. words[here] \in Nat
  BY <1>2
<1>4. X!Argument(s) \in Nat
  BY <1>1, <1>2, <1>3 DEF X!Argument
<1>5. PICK at \in Nat : at = X!Argument(s)
  BY <1>4
<1>6. at <= size => words[at] \in Nat
  OBVIOUS
<1>7. X!Memory(s, at) \in Nat
  BY <1>1, <1>6 DEF X!Memory
<1>. QED BY <1>4, <1>5, <1>7

(* What an instruction leaves. *)
LEMMA Became ==
  ASSUME InterpreterTypes, running # {}, NEW c \in Cpus, X!Becomes(c), current' = current
  PROVE  processors' \in Seq(Cpus) /\ Len(processors') = Len(processors) /\ X!Cpu' = c
<1>1. current \in 1 .. Len(processors) /\ processors \in Seq(Cpus)
  BY DEF InterpreterTypes
<1>2. processors' = [processors EXCEPT ![current] = c]
  BY DEF X!Becomes
<1>3. processors' \in Seq(Cpus) /\ Len(processors') = Len(processors)
  BY <1>1, <1>2
<1>4. X!Cpu' = c
  BY <1>1, <1>2 DEF X!Cpu
<1>. QED BY <1>3, <1>4

LEMMA KeepsCalls ==
  ASSUME X!ConstantsAssumption, InterpreterInv, running # {}, NEW c \in Cpus, SameCalls(X!Cpu, c), X!Becomes(c),
         UNCHANGED <<current, running, open, disturbed>>,
         DOMAIN header' = Interpreters, \A t \in running : header'[t] \in [0 .. SXE_MEMORY_SIZE -> Nat]
  PROVE  InterpreterInv'
<1>1. processors' \in Seq(Cpus) /\ Len(processors') = Len(processors) /\ X!Cpu' = c
  BY Became DEF InterpreterInv
<1>2. InterpreterTypes'
  BY <1>1 DEF InterpreterInv, InterpreterTypes
<1>3. ASSUME NEW t \in running \ disturbed
      PROVE  running = {t} /\ Len(open[t]) < SXE_CALL_STACK_SIZE /\ Holds(c, open[t])
  <2>1. running = {t} /\ Len(open[t]) < SXE_CALL_STACK_SIZE /\ Holds(X!Cpu, open[t])
    BY DEF InterpreterInv, CallsInv
  <2>2. open[t] \in Seq(Nat) /\ X!Cpu \in Cpus
    BY Registers DEF InterpreterInv, InterpreterTypes
  <2>3. Holds(c, open[t])
    BY <2>1, <2>2, HoldsStill
  <2>. QED BY <2>1, <2>3
<1>4. CallsInv'
  <2>1. ASSUME NEW t \in running' \ disturbed'
        PROVE  running' = {t} /\ Len(open'[t]) < SXE_CALL_STACK_SIZE /\ Holds(X!Cpu', open'[t])
    BY <1>1, <1>3, Zenon
  <2>. QED BY <2>1 DEF CallsInv, Holds, X!Byte, X!Word, X!CallStackAt, X!CallStackPointer
<1>. QED BY <1>2, <1>4 DEF InterpreterInv

LEMMA Plainly ==
  ASSUME X!ConstantsAssumption, InterpreterInv, running # {}, NEW c \in Cpus, SameCalls(X!Cpu, c), X!Becomes(c),
         UNCHANGED <<current, header, running, open, disturbed>>
  PROVE  InterpreterInv'
<1>1. DOMAIN header' = Interpreters /\ \A t \in running : header'[t] \in [0 .. SXE_MEMORY_SIZE -> Nat]
  BY DEF InterpreterInv, InterpreterTypes
<1>. QED BY <1>1, KeepsCalls

LEMMA Onwards ==
  ASSUME X!ConstantsAssumption, InterpreterTypes, running # {}, NEW c \in Cpus, SameCalls(X!Cpu, c)
  PROVE  X!Advance(c) \in Cpus /\ SameCalls(X!Cpu, X!Advance(c))
<1>1. PICK next \in Int : next = X!Here + 1
  BY Registers
<1>2. X!GoTo(c, next) \in Cpus /\ SameCalls(c, X!GoTo(c, next))
  BY Gone
<1>3. X!Advance(c) = X!GoTo(c, next)
  BY <1>1 DEF X!Advance
<1>4. SameCalls(X!Cpu, X!GoTo(c, next))
  BY <1>2, SameTwice
<1>. QED BY <1>2, <1>3, <1>4

(* A register that becomes w. *)
LEMMA Registered ==
  ASSUME X!ConstantsAssumption, InterpreterTypes, running # {}, NEW at \in {X!RegA, X!RegB}, NEW w \in Int,
         NEW c \in Cpus, SameCalls(X!Cpu, c)
  PROVE  X!PutWord(c, at, w) \in Cpus /\ SameCalls(X!Cpu, X!PutWord(c, at, w))
<1>1. at \in Nat /\ at > X!CallStackPointer
  BY Layout
<1>2. X!PutWord(c, at, w) \in Cpus
  BY <1>1, PutWordType
<1>3. SameCalls(c, X!PutWord(c, at, w))
  BY <1>1, WordAside
<1>4. SameCalls(X!Cpu, X!PutWord(c, at, w))
  BY <1>3, SameTwice
<1>. QED BY <1>2, <1>4

LEMMA AdvancedRegister ==
  ASSUME X!ConstantsAssumption, InterpreterTypes, running # {}, NEW at \in {X!RegA, X!RegB}, NEW w \in Int
  PROVE  /\ X!Advance(X!PutWord(X!Cpu, at, w)) \in Cpus
         /\ SameCalls(X!Cpu, X!Advance(X!PutWord(X!Cpu, at, w)))
<1>1. X!Cpu \in Cpus /\ SameCalls(X!Cpu, X!Cpu)
  BY Registers DEF SameCalls
<1>2. PICK c \in Cpus : c = X!PutWord(X!Cpu, at, w) /\ SameCalls(X!Cpu, c)
  BY <1>1, Registered
<1>. QED BY <1>2, Onwards

LEMMA LoadStep ==
  ASSUME X!ConstantsAssumption, InterpreterInv, NEW s \in Interpreters, X!Load(s)
  PROVE  InterpreterInv'
<1>1. s \in running /\ X!Here < SXE_MEMORY_SIZE /\ InterpreterTypes /\ running # {}
  BY DEF X!Load, X!Executes, InterpreterInv
<1>2. PICK at \in {X!RegA, X!RegB}, w \in Nat : X!Becomes(X!Advance(X!PutWord(X!Cpu, at, w)))
  <2>1. X!Argument(s) \in Nat /\ X!Memory(s, X!Argument(s)) \in Nat
    BY <1>1, Arguments
  <2>. QED BY <2>1, Zenon DEF X!Load
<1>3. w \in Int
  OBVIOUS
<1>4. PICK c \in Cpus : c = X!Advance(X!PutWord(X!Cpu, at, w)) /\ SameCalls(X!Cpu, c)
  BY <1>1, <1>3, AdvancedRegister
<1>5. X!Becomes(c)
  BY <1>2, <1>4
<1>6. UNCHANGED <<current, header, running, open, disturbed>>
  BY DEF X!Load
<1>. QED BY <1>1, <1>4, <1>5, <1>6, Plainly

LEMMA AdvancedCpu ==
  ASSUME X!ConstantsAssumption, InterpreterTypes, running # {}
  PROVE  X!Advance(X!Cpu) \in Cpus /\ SameCalls(X!Cpu, X!Advance(X!Cpu))
<1>1. PICK c \in Cpus : c = X!Cpu /\ SameCalls(X!Cpu, c)
  BY Registers DEF SameCalls
<1>. QED BY <1>1, Onwards

LEMMA StoreStep ==
  ASSUME X!ConstantsAssumption, InterpreterInv, NEW s \in Interpreters, X!Store(s)
  PROVE  InterpreterInv'
<1>1. s \in running /\ X!Here < SXE_MEMORY_SIZE /\ InterpreterTypes /\ running # {}
  BY DEF X!Store, X!Executes, InterpreterInv
<1>2. PICK c \in Cpus : c = X!Advance(X!Cpu) /\ SameCalls(X!Cpu, c)
  BY <1>1, AdvancedCpu
<1>3. X!Becomes(c) /\ UNCHANGED <<current, running, open, disturbed>>
  BY <1>2 DEF X!Store
<1>4. PICK at \in Nat : at = X!Argument(s)
  BY <1>1, Arguments
<1>5. PICK w \in Nat : header' = IF at > SXE_MEMORY_SIZE THEN header ELSE [header EXCEPT ![s][at] = w]
  <2>1. X!A \in Nat /\ X!B \in Nat
    BY <1>1, Registers
  <2>. QED BY <1>4, <2>1 DEF X!Store
<1>6. DOMAIN header = Interpreters /\ \A t \in running : header[t] \in [0 .. SXE_MEMORY_SIZE -> Nat]
  BY <1>1 DEF InterpreterTypes
<1>7. DOMAIN header' = Interpreters
  BY <1>5, <1>6
<1>8. ASSUME NEW t \in running PROVE header'[t] \in [0 .. SXE_MEMORY_SIZE -> Nat]
  <2>1. t \in Interpreters
    BY <1>1 DEF InterpreterTypes
  <2>2. header'[t] = header[t] \/ header'[t] = [header[t] EXCEPT ![at] = w]
    BY <1>5, <1>6, <2>1
  <2>. QED BY <1>6, <2>2
<1>. QED BY <1>1, <1>2, <1>3, <1>7, <1>8, KeepsCalls

LEMMA SkipStep ==
  ASSUME X!ConstantsAssumption, InterpreterInv, NEW s \in Interpreters, X!Skip(s)
  PROVE  InterpreterInv'
<1>1. s \in running /\ InterpreterTypes /\ running # {}
  BY DEF X!Skip, X!Executes, InterpreterInv
<1>2. PICK c \in Cpus : c = X!Advance(X!Cpu) /\ SameCalls(X!Cpu, c)
  BY <1>1, AdvancedCpu
<1>3. X!Becomes(c) /\ UNCHANGED <<current, header, running, open, disturbed>>
  BY <1>2 DEF X!Skip
<1>. QED BY <1>1, <1>2, <1>3, Plainly

LEMMA JumpStep ==
  ASSUME X!ConstantsAssumption, InterpreterInv, NEW s \in Interpreters, X!Jump(s)
  PROVE  InterpreterInv'
<1>1. s \in running /\ X!Here < SXE_MEMORY_SIZE /\ InterpreterTypes /\ running # {}
  BY DEF X!Jump, X!Executes, InterpreterInv
<1>2. X!Advance(X!Cpu) \in Cpus /\ SameCalls(X!Cpu, X!Advance(X!Cpu))
  BY <1>1, AdvancedCpu
<1>3. X!GoTo(X!Cpu, X!Argument(s)) \in Cpus /\ SameCalls(X!Cpu, X!GoTo(X!Cpu, X!Argument(s)))
  <2>1. PICK where \in Int : where = X!Argument(s)
    BY <1>1, Arguments
  <2>2. X!Cpu \in Cpus
    BY <1>1, Registers
  <2>. QED BY <2>1, <2>2, Gone
<1>4. X!Becomes(X!Advance(X!Cpu)) \/ X!Becomes(X!GoTo(X!Cpu, X!Argument(s)))
  BY DEF X!Jump
<1>5. PICK c \in Cpus : X!Becomes(c) /\ SameCalls(X!Cpu, c)
  BY <1>2, <1>3, <1>4
<1>6. UNCHANGED <<current, header, running, open, disturbed>>
  BY DEF X!Jump
<1>. QED BY <1>1, <1>5, <1>6, Plainly

-----------------------------------------------------------------------------
(* The stack and its pointer are behind the call stack. *)
LEMMA StackUp ==
  ASSUME X!ConstantsAssumption, NEW c \in Cpus
  PROVE  /\ X!PutByte(c, X!StackPointer, X!Byte(c, X!StackPointer) + 1) \in Cpus
         /\ SameCalls(c, X!PutByte(c, X!StackPointer, X!Byte(c, X!StackPointer) + 1))
<1>1. PICK at \in Nat : at = X!StackPointer /\ at > X!CallStackPointer
  BY Layout
<1>2. PICK b \in Int : b = X!Byte(c, at) + 1
  <2>1. X!Byte(c, at) \in Nat
    BY Loaded
  <2>. QED BY <2>1
<1>3. X!PutByte(c, at, b) \in Cpus
  BY PutByteType
<1>4. SameCalls(c, X!PutByte(c, at, b))
  BY <1>1, ByteAside
<1>. QED BY <1>1, <1>2, <1>3, <1>4

LEMMA OnStack ==
  ASSUME X!ConstantsAssumption, NEW c \in Cpus, NEW top \in Nat, NEW w \in Int
  PROVE  X!PutWord(c, X!StackAt(top), w) \in Cpus /\ SameCalls(c, X!PutWord(c, X!StackAt(top), w))
<1>1. PICK at \in Nat : at = X!StackAt(top) /\ at > X!CallStackPointer
  BY Layout
<1>2. X!PutWord(c, at, w) \in Cpus
  BY PutWordType
<1>3. SameCalls(c, X!PutWord(c, at, w))
  BY <1>1, WordAside
<1>. QED BY <1>1, <1>2, <1>3

LEMMA PushOrPopStep ==
  ASSUME X!ConstantsAssumption, InterpreterInv, NEW s \in Interpreters, X!PushOrPop(s)
  PROVE  InterpreterInv'
<1>. DEFINE Up(c) == X!PutByte(c, X!StackPointer, X!Byte(c, X!StackPointer) + 1)
            Popped(cleared, register) ==
              X!PutWord(cleared, register, X!Word(cleared, X!StackAt(X!Byte(cleared, X!StackPointer))))
<1>1. s \in running /\ InterpreterTypes /\ running # {}
  BY DEF X!PushOrPop, X!Executes, InterpreterInv
<1>2. X!Cpu \in Cpus /\ X!A \in Int /\ X!B \in Int
  BY <1>1, Registers
<1>3. PICK top \in Nat : top = X!Byte(X!Cpu, X!StackPointer)
  <2>1. X!StackPointer \in Nat
    BY Layout
  <2>. QED BY <1>2, <2>1, Loaded
<1>4. PICK cleared \in Cpus : cleared = X!PutWord(X!Cpu, X!StackAt(top), 0) /\ SameCalls(X!Cpu, cleared)
  <2>1. 0 \in Int
    OBVIOUS
  <2>. QED BY <1>2, <2>1, OnStack
<1>5. ASSUME NEW register \in {X!RegA, X!RegB}
      PROVE  Popped(cleared, register) \in Cpus /\ SameCalls(X!Cpu, Popped(cleared, register))
  <2>1. X!StackPointer \in Nat
    BY Layout
  <2>2. PICK top2 \in Nat : top2 = X!Byte(cleared, X!StackPointer)
    BY <2>1, Loaded
  <2>3. X!StackAt(top2) \in Nat
    BY Layout
  <2>4. PICK w \in Nat : w = X!Word(cleared, X!StackAt(top2))
    BY <2>3, Loaded
  <2>5. w \in Int
    OBVIOUS
  <2>6. X!PutWord(cleared, register, w) \in Cpus /\ SameCalls(X!Cpu, X!PutWord(cleared, register, w))
    BY <1>1, <1>4, <2>5, Registered
  <2>. QED BY <2>2, <2>4, <2>6
<1>. HIDE DEF Popped
<1>6. \/ X!Becomes(Up(X!PutWord(X!Cpu, X!StackAt(top), X!A))) \/ X!Becomes(Up(X!PutWord(X!Cpu, X!StackAt(top), X!B)))
      \/ X!Becomes(Up(Popped(cleared, X!RegA))) \/ X!Becomes(Up(Popped(cleared, X!RegB)))
  BY <1>3, <1>4 DEF X!PushOrPop, Popped
<1>7. /\ X!PutWord(X!Cpu, X!StackAt(top), X!A) \in Cpus /\ SameCalls(X!Cpu, X!PutWord(X!Cpu, X!StackAt(top), X!A))
      /\ X!PutWord(X!Cpu, X!StackAt(top), X!B) \in Cpus /\ SameCalls(X!Cpu, X!PutWord(X!Cpu, X!StackAt(top), X!B))
  BY <1>2, OnStack
<1>. HIDE DEF Up
<1>8. PICK c \in Cpus : SameCalls(X!Cpu, c) /\ X!Becomes(Up(c))
  BY <1>5, <1>6, <1>7
<1>9. Up(c) \in Cpus /\ SameCalls(c, Up(c))
  BY StackUp DEF Up
<1>10. SameCalls(X!Cpu, Up(c))
  BY <1>8, <1>9, SameTwice
<1>11. UNCHANGED <<current, header, running, open, disturbed>>
  BY DEF X!PushOrPop
<1>. QED BY <1>1, <1>8, <1>9, <1>10, <1>11, Plainly

(* What an operation makes of two words is a number. *)
LEMMA ResultsType ==
  ASSUME NEW flag \in 1 .. 14, X!A \in Nat, X!A < 65536, X!B \in Nat, X!B < 65536, flag = 3 => X!B # 0
  PROVE  X!Results(flag) \subseteq Int
<1>1. \A bits : X!OfBits(bits) \subseteq Int
  <2>1. ASSUME NEW bits, NEW w \in X!OfBits(bits) PROVE w \in Int
    <3>1. w \in X!Words
      BY DEF X!OfBits
    <3>. QED BY <3>1 DEF X!Words
  <2>. QED BY <2>1
<1>2. CASE flag = 1
  BY <1>2 DEF X!Results
<1>3. CASE flag = 2
  BY <1>3 DEF X!Results
<1>4. CASE flag = 3
  <2>1. X!A \div X!B \in Int
    BY <1>4
  <2>. QED BY <1>4, <2>1 DEF X!Results
<1>5. CASE flag = 4
  <2>1. (X!A % 256) * X!B \in Int /\ (X!A \div 256) \in Int /\ (X!B % 256) \in Int
    OBVIOUS
  <2>2. (X!A \div 256) * (X!B % 256) \in Int
    BY <2>1
  <2>3. ((X!A \div 256) * (X!B % 256)) % 256 \in Int
    BY <2>2
  <2>4. (X!A % 256) * X!B + ((X!A \div 256) * (X!B % 256) % 256) * 256 \in Int
    BY <2>1, <2>3
  <2>. QED BY <1>5, <2>4 DEF X!Results
<1>6. CASE flag \in {5, 6, 7, 9, 10}
  BY <1>1, <1>6 DEF X!Results
<1>7. CASE flag = 8
  BY <1>7 DEF X!Results
<1>8. CASE flag \in {11, 12, 13, 14}
  BY <1>8 DEF X!Results
<1>. QED BY <1>2, <1>3, <1>4, <1>5, <1>6, <1>7, <1>8

LEMMA ComputeStep ==
  ASSUME X!ConstantsAssumption, InterpreterInv, NEW s \in Interpreters, X!Compute(s)
  PROVE  InterpreterInv'
<1>1. s \in running /\ InterpreterTypes /\ running # {}
  BY DEF X!Compute, X!Executes, InterpreterInv
<1>2. X!A \in Nat /\ X!A < 65536 /\ X!B \in Nat /\ X!B < 65536 /\ X!Cpu \in Cpus
  BY <1>1, Registers
<1>3. UNCHANGED <<current, header, running, open, disturbed>>
  BY DEF X!Compute
<1>4. CASE \E w \in X!Results(X!Argument(s)) : X!Argument(s) \in 1 .. 14 /\ (X!Argument(s) = 3 => X!B # 0)
                                           /\ X!Becomes(X!Advance(X!PutWord(X!Cpu, X!RegA, w)))
  <2>1. PICK flag \in 1 .. 14 : flag = X!Argument(s)
    BY <1>4
  <2>2. PICK w \in X!Results(flag) : (flag = 3 => X!B # 0) /\ X!Becomes(X!Advance(X!PutWord(X!Cpu, X!RegA, w)))
    BY <1>4, <2>1
  <2>3. w \in Int
    BY <1>2, <2>2, ResultsType
  <2>4. PICK c \in Cpus : c = X!Advance(X!PutWord(X!Cpu, X!RegA, w)) /\ SameCalls(X!Cpu, c)
    BY <1>1, <2>3, AdvancedRegister
  <2>5. X!Becomes(c)
    BY <2>2, <2>4
  <2>. QED BY <1>1, <1>3, <2>4, <2>5, Plainly
<1>5. CASE X!Becomes(X!Advance(X!PutWord(X!PutWord(X!Cpu, X!RegA, X!B), X!RegB, X!A)))
  <2>1. X!A \in Int /\ X!B \in Int /\ X!RegA \in {X!RegA, X!RegB} /\ X!RegB \in {X!RegA, X!RegB}
    BY <1>2
  <2>2. SameCalls(X!Cpu, X!Cpu)
    BY DEF SameCalls
  <2>3. PICK c \in Cpus : c = X!PutWord(X!Cpu, X!RegA, X!B) /\ SameCalls(X!Cpu, c)
    BY <1>1, <1>2, <2>1, <2>2, Registered
  <2>4. PICK d \in Cpus : d = X!PutWord(c, X!RegB, X!A) /\ SameCalls(X!Cpu, d)
    BY <1>1, <2>1, <2>3, Registered
  <2>5. PICK e \in Cpus : e = X!Advance(d) /\ SameCalls(X!Cpu, e)
    BY <1>1, <2>4, Onwards
  <2>6. X!Becomes(e)
    BY <1>5, <2>3, <2>4, <2>5
  <2>. QED BY <1>1, <1>3, <2>5, <2>6, Plainly
<1>. QED BY <1>4, <1>5 DEF X!Compute

-----------------------------------------------------------------------------
(* An instruction of a run that nobody disturbs is one of the only run. *)
LEMMA AloneInterpreter ==
  ASSUME InterpreterInv, NEW s \in running, NEW t \in running \ disturbed
  PROVE  t = s /\ running = {s} /\ Len(open[s]) < SXE_CALL_STACK_SIZE /\ Holds(X!Cpu, open[s])
<1>1. running = {t} /\ Len(open[t]) < SXE_CALL_STACK_SIZE /\ Holds(X!Cpu, open[t])
  BY DEF InterpreterInv, CallsInv
<1>2. t = s
  BY <1>1
<1>. QED BY <1>1, <1>2

(* What a step leaves of the calls of the only run. *)
LEMMA CallsMove ==
  ASSUME InterpreterTypes, NEW s \in running, NEW c \in Cpus, X!Becomes(c), UNCHANGED <<current, header, running>>,
         NEW held \in Seq(Nat), open' = [open EXCEPT ![s] = held],
         \A t \in running' \ disturbed' :
           t = s /\ running = {s} /\ Len(held) < SXE_CALL_STACK_SIZE /\ Holds(c, held)
  PROVE  InterpreterInv'
<1>1. processors' \in Seq(Cpus) /\ Len(processors') = Len(processors) /\ X!Cpu' = c
  BY Became
<1>2. s \in Interpreters /\ open \in [Interpreters -> Seq(Nat)]
  BY DEF InterpreterTypes
<1>3. open' \in [Interpreters -> Seq(Nat)] /\ open'[s] = held
  BY <1>2
<1>4. InterpreterTypes'
  BY <1>1, <1>3 DEF InterpreterTypes
<1>5. ASSUME NEW t \in running' \ disturbed'
      PROVE  running' = {t} /\ Len(open'[t]) < SXE_CALL_STACK_SIZE /\ Holds(X!Cpu', open'[t])
  BY <1>1, <1>3, Zenon
<1>6. CallsInv'
  BY <1>5 DEF CallsInv, Holds, X!Byte, X!Word, X!CallStackAt, X!CallStackPointer
<1>. QED BY <1>4, <1>6 DEF InterpreterInv

LEMMA CallInstruction ==
  ASSUME X!ConstantsAssumption, InterpreterInv, NEW s \in Interpreters, X!Call(s)
  PROVE  InterpreterInv'
<1>1. s \in running /\ X!Here < SXE_MEMORY_SIZE /\ InterpreterTypes /\ running # {}
  BY DEF X!Call, X!Executes, InterpreterInv
<1>2. X!Cpu \in Cpus /\ X!Here \in Nat
  BY <1>1, Registers
<1>3. PICK back \in Nat : back = X!Here + 1 /\ back < 65536
  <2>1. SXE_MEMORY_SIZE \in Nat /\ SXE_MEMORY_SIZE <= 4095
    BY Layout
  <2>. QED BY <1>1, <1>2, <2>1
<1>4. PICK where \in Int : where = X!Argument(s)
  BY <1>1, Arguments
<1>5. PICK n \in Nat : n = X!Byte(X!Cpu, X!CallStackPointer)
  <2>1. X!CallStackPointer \in Nat
    BY Layout
  <2>. QED BY <1>2, <2>1, Loaded
<1>6. PICK kept \in Cpus : kept = X!PutWord(X!Cpu, X!CallStackAt(n), back)
  <2>1. back \in Int
    OBVIOUS
  <2>2. X!CallStackAt(n) \in Nat
    BY Layout
  <2>. QED BY <1>2, <2>1, <2>2, PutWordType
<1>7. PICK n2 \in Nat : n2 = X!Byte(kept, X!CallStackPointer)
  <2>1. X!CallStackPointer \in Nat
    BY Layout
  <2>. QED BY <2>1, Loaded
<1>8. PICK up \in Cpus : up = X!PutByte(kept, X!CallStackPointer, n2 + 1)
  <2>1. X!CallStackPointer \in Nat
    BY Layout
  <2>2. n2 + 1 \in Int
    OBVIOUS
  <2>. QED BY <2>1, <2>2, PutByteType
<1>9. PICK c \in Cpus : c = X!GoTo(up, where)
  BY Gone
<1>10. X!Becomes(c)
  BY <1>3, <1>4, <1>5, <1>6, <1>7, <1>8, <1>9 DEF X!Call
<1>11. UNCHANGED <<current, header, running>>
  BY DEF X!Call
<1>12. PICK old \in Seq(Nat) : old = open[s]
  BY <1>1 DEF InterpreterTypes
<1>13. PICK held \in Seq(Nat) : held = Append(old, back)
  <2>1. Append(old, back) \in Seq(Nat)
    OBVIOUS
  <2>. QED BY <2>1
<1>14. open' = [open EXCEPT ![s] = held]
  BY <1>3, <1>12, <1>13 DEF X!Call
<1>15. open'[s] = held
  BY <1>1, <1>14 DEF InterpreterTypes
<1>16. ASSUME NEW t \in running' \ disturbed'
       PROVE  t = s /\ running = {s} /\ Len(held) < SXE_CALL_STACK_SIZE /\ Holds(c, held)
  <2>1. t \in running \ disturbed
    BY <1>11 DEF X!Call
  <2>2. t = s /\ running = {s} /\ Len(old) < SXE_CALL_STACK_SIZE /\ Holds(X!Cpu, old)
    BY <1>1, <1>12, <2>1, AloneInterpreter
  <2>3. Len(held) < SXE_CALL_STACK_SIZE
    BY <1>15, <2>1, <2>2 DEF X!Call
  <2>4. n = Len(old) /\ n < SXE_CALL_STACK_SIZE
    BY <1>5, <2>2 DEF Holds
  <2>5. n2 = n
    <3>1. PICK at \in Nat : at = X!CallStackAt(n) /\ at + 1 < X!CallStackPointer
      BY <2>4, Below
    <3>2. PICK top \in Nat : top = X!CallStackPointer
      BY Layout
    <3>3. top # at /\ top # at + 1 /\ back \in Int
      BY <3>1, <3>2
    <3>4. X!Byte(kept, top) = X!Byte(X!Cpu, top)
      BY <1>2, <1>6, <3>1, <3>3, PutWordElse
    <3>. QED BY <1>5, <1>7, <3>2, <3>4
  <2>6. c = X!GoTo(X!PutByte(X!PutWord(X!Cpu, X!CallStackAt(n), back), X!CallStackPointer, n + 1), where)
    BY <1>6, <1>8, <1>9, <2>5
  <2>7. Holds(c, Append(old, back))
    BY <1>2, <1>3, <2>2, <2>4, <2>6, CallHolds
  <2>. QED BY <1>13, <2>2, <2>3, <2>7
<1>. QED BY <1>1, <1>10, <1>11, <1>14, <1>16, CallsMove

LEMMA LeavesStep ==
  ASSUME InterpreterInv, NEW s \in running, X!Leaves(s)
  PROVE  InterpreterInv'
<1>1. running' = running \ {s} /\ UNCHANGED <<processors, current, header, open, disturbed>>
  BY DEF X!Leaves
<1>2. InterpreterTypes'
  BY <1>1 DEF InterpreterInv, InterpreterTypes
<1>3. running' \ disturbed' = {}
  <2>1. ASSUME NEW t \in running' \ disturbed' PROVE FALSE
    <3>1. t \in running \ disturbed /\ t # s
      BY <1>1
    <3>. QED BY <3>1, AloneInterpreter
  <2>. QED BY <2>1
<1>4. CallsInv'
  BY <1>3 DEF CallsInv
<1>. QED BY <1>2, <1>4 DEF InterpreterInv

LEMMA ReturnStep ==
  ASSUME X!ConstantsAssumption, InterpreterInv, NEW s \in Interpreters, X!Return(s)
  PROVE  InterpreterInv'
<1>1. s \in running /\ X!Here < SXE_MEMORY_SIZE /\ InterpreterTypes /\ running # {}
  BY DEF X!Return, X!Executes, InterpreterInv
<1>2. X!Cpu \in Cpus /\ X!CallStackPointer \in Nat
  BY <1>1, Registers, Layout
<1>3. PICK n \in Nat : n = X!Byte(X!Cpu, X!CallStackPointer) /\ n < 256
  BY <1>2, Loaded
<1>4. CASE n = 0
  <2>1. X!Leaves(s)
    BY <1>3, <1>4 DEF X!Return
  <2>. QED BY <1>1, <2>1, LeavesStep
<1>5. CASE n # 0
  <2>1. 0 \in Int /\ X!CallStackAt(n) \in Nat
    BY Layout
  <2>2. PICK above \in Cpus : above = X!PutWord(X!Cpu, X!CallStackAt(n), 0)
    BY <1>2, <2>1, PutWordType
  <2>3. PICK n2 \in Nat : n2 = X!Byte(above, X!CallStackPointer)
    BY <1>2, Loaded
  <2>4. PICK depth \in Nat : depth = (n2 + 255) % 256
    OBVIOUS
  <2>5. PICK down \in Cpus : down = X!PutByte(above, X!CallStackPointer, depth)
    <3>1. depth \in Int
      OBVIOUS
    <3>. QED BY <1>2, <3>1, PutByteType
  <2>6. PICK where \in Int : where = X!Word(down, X!CallStackAt(depth))
    <3>1. X!CallStackAt(depth) \in Nat
      BY Layout
    <3>. QED BY <3>1, Loaded
  <2>7. PICK back \in Cpus : back = X!GoTo(down, where) /\ SameCalls(down, back)
    BY Gone
  <2>8. PICK n3 \in Nat : n3 = X!Byte(back, X!CallStackPointer)
    BY <1>2, Loaded
  <2>9. PICK c \in Cpus : c = X!PutWord(back, X!CallStackAt(n3), 0)
    <3>1. X!CallStackAt(n3) \in Nat
      BY Layout
    <3>. QED BY <2>1, <3>1, PutWordType
  <2>10. X!Becomes(c) /\ UNCHANGED <<current, header, running, disturbed>>
    BY <1>3, <1>5, <2>2, <2>3, <2>4, <2>5, <2>6, <2>7, <2>8, <2>9 DEF X!Return
  <2>11. PICK old \in Seq(Nat) : old = open[s]
    BY <1>1 DEF InterpreterTypes
  <2>12. PICK held \in Seq(Nat) : held = IF old = <<>> THEN old ELSE SubSeq(old, 1, Len(old) - 1)
    <3>1. old # <<>> => SubSeq(old, 1, Len(old) - 1) \in Seq(Nat)
      OBVIOUS
    <3>. QED BY <3>1
  <2>13. open' = [open EXCEPT ![s] = held]
    BY <1>3, <1>5, <2>11, <2>12 DEF X!Return
  <2>14. ASSUME NEW t \in running' \ disturbed'
         PROVE  t = s /\ running = {s} /\ Len(held) < SXE_CALL_STACK_SIZE /\ Holds(c, held)
    <3>1. t \in running \ disturbed
      BY <2>10
    <3>2. t = s /\ running = {s} /\ Len(old) < SXE_CALL_STACK_SIZE /\ Holds(X!Cpu, old)
      BY <1>1, <2>11, <3>1, AloneInterpreter
    <3>3. PICK size \in Nat : size = SXE_CALL_STACK_SIZE /\ size <= 10
      BY Layout
    <3>4. n = Len(old) /\ n < size /\ 0 < n
      BY <1>3, <1>5, <3>2, <3>3 DEF Holds
    <3>5. PICK m \in Nat : m + 1 = n /\ m = n - 1
      <4>1. n - 1 \in Nat /\ (n - 1) + 1 = n
        BY <3>4
      <4>. QED BY <4>1
    <3>6. held = SubSeq(old, 1, m) /\ Len(held) = m
      <4>1. old # <<>>
        BY <3>4
      <4>2. held = SubSeq(old, 1, m)
        BY <2>12, <3>4, <3>5, <4>1
      <4>3. m <= Len(old)
        BY <3>4, <3>5
      <4>4. Len(SubSeq(old, 1, m)) = m
        BY <4>3
      <4>. QED BY <4>2, <4>4
    <3>7. n2 = n
      <4>1. PICK at \in Nat : at = X!CallStackAt(n) /\ at + 1 < X!CallStackPointer
        BY <3>3, <3>4, Below
      <4>2. PICK top \in Nat : top = X!CallStackPointer
        BY <1>2
      <4>3. top # at /\ top # at + 1
        BY <4>1, <4>2
      <4>4. X!Byte(above, top) = X!Byte(X!Cpu, top)
        BY <1>2, <2>1, <2>2, <4>1, <4>3, PutWordElse
      <4>. QED BY <1>3, <2>3, <4>2, <4>4
    <3>8. depth = m
      <4>1. (n + 255) % 256 = n - 1
        BY <1>3, <3>4, Small
      <4>. QED BY <2>4, <3>5, <3>7, <4>1
    <3>9. n3 = m
      <4>1. X!Byte(back, X!CallStackPointer) = X!Byte(down, X!CallStackPointer)
        BY <2>7, SamePointer
      <4>2. m < 256
        BY <1>3, <3>5
      <4>3. down = X!PutByte(above, X!CallStackPointer, m)
        BY <2>5, <3>8
      <4>4. X!Byte(down, X!CallStackPointer) = m
        BY <1>2, <4>2, <4>3, PutByteThere
      <4>. QED BY <2>8, <4>1, <4>4
    <3>10. Len(old) = m + 1 /\ m + 1 < SXE_CALL_STACK_SIZE
      BY <3>3, <3>4, <3>5
    <3>11. /\ above = X!PutWord(X!Cpu, X!CallStackAt(m + 1), 0)
           /\ down = X!PutByte(above, X!CallStackPointer, m)
      BY <2>2, <2>5, <3>5, <3>8
    <3>12. Holds(X!PutWord(back, X!CallStackAt(m), 0), SubSeq(old, 1, m))
      BY <1>2, <2>7, <3>2, <3>10, <3>11, ReturnHolds
    <3>13. Len(held) < SXE_CALL_STACK_SIZE
      BY <3>3, <3>4, <3>5, <3>6
    <3>. QED BY <2>9, <3>2, <3>6, <3>9, <3>12, <3>13
  <2>. QED BY <1>1, <2>10, <2>13, <2>14, CallsMove
<1>. QED BY <1>4, <1>5

LEMMA ExitStep ==
  ASSUME InterpreterInv, NEW s \in Interpreters, X!Exit(s)
  PROVE  InterpreterInv'
<1>1. s \in running /\ X!Leaves(s)
  BY DEF X!Exit
<1>. QED BY <1>1, LeavesStep

(* The processor of a run that begins is one that holds no call. *)
LEMMA Blank ==
  /\ <<>> \in Cpus
  /\ Holds(<<>>, <<>>)
<1>1. DOMAIN <<>> = {} /\ Len(<<>>) = 0
  OBVIOUS
<1>2. <<>> \in [{} -> 0 .. 255]
  BY <1>1
<1>3. <<>> \in Cpus
  <2>1. {} \in SUBSET Nat
    OBVIOUS
  <2>. QED BY <1>2, <2>1 DEF Cpus
<1>4. X!Byte(<<>>, X!CallStackPointer) = 0
  BY <1>1 DEF X!Byte
<1>5. \A i \in Nat : ~ (i < 0)
  OBVIOUS
<1>. QED BY <1>1, <1>3, <1>4, <1>5 DEF Holds

LEMMA Requested ==
  ASSUME InterpreterTypes, processors' = Append(processors, <<>>), current' = Len(processors')
  PROVE  /\ processors' \in Seq(Cpus) /\ current' \in Nat /\ current' <= Len(processors') /\ current' # 0
         /\ X!Cpu' = <<>>
<1>1. processors \in Seq(Cpus)
  BY DEF InterpreterTypes
<1>2. PICK n \in Nat : n = Len(processors)
  BY <1>1
<1>3. PICK blank \in Cpus : blank = <<>>
  BY Blank
<1>4. Append(processors, blank) \in Seq(Cpus) /\ Len(Append(processors, blank)) = n + 1
  BY <1>1, <1>2
<1>5. Append(processors, blank)[n + 1] = blank
  BY <1>1, <1>2
<1>6. processors' \in Seq(Cpus) /\ Len(processors') = n + 1 /\ current' = n + 1
  BY <1>3, <1>4
<1>7. processors'[current'] = <<>>
  BY <1>3, <1>5, <1>6
<1>. QED BY <1>6, <1>7 DEF X!Cpu

LEMMA ImageType ==
  ASSUME X!ConstantsAssumption, NEW image \in Images
  PROVE  image \in [0 .. SXE_MEMORY_SIZE -> Nat]
<1>. DEFINE places == 0 .. SXE_MEMORY_SIZE
<1>. HIDE DEF places
<1>1. image \in [places -> X!Words]
  BY DEF X!ConstantsAssumption, places
<1>2. \A w \in X!Words : w \in Nat
  BY DEF X!Words
<1>3. image \in [places -> Nat]
  BY <1>1, <1>2
<1>. QED BY <1>3 DEF places

LEMMA RunStep ==
  ASSUME X!ConstantsAssumption, InterpreterInv, NEW s \in Interpreters, NEW image \in Images, X!Run(s, image)
  PROVE  InterpreterInv'
<1>1. /\ processors' = Append(processors, <<>>) /\ current' = Len(processors')
      /\ running' = running \cup {s} /\ header' = [header EXCEPT ![s] = image]
      /\ open' = [open EXCEPT ![s] = <<>>]
      /\ disturbed' = IF running = {} THEN disturbed \ {s} ELSE disturbed \cup running'
  BY DEF X!Run
<1>2. InterpreterTypes
  BY DEF InterpreterInv
<1>3. /\ processors' \in Seq(Cpus) /\ current' \in Nat /\ current' <= Len(processors') /\ current' # 0
      /\ X!Cpu' = <<>>
  BY <1>1, <1>2, Requested
<1>4. image \in [0 .. SXE_MEMORY_SIZE -> Nat]
  BY ImageType
<1>5. DOMAIN header' = Interpreters /\ \A t \in running' : header'[t] \in [0 .. SXE_MEMORY_SIZE -> Nat]
  BY <1>1, <1>2, <1>4 DEF InterpreterTypes
<1>6. open' \in [Interpreters -> Seq(Nat)] /\ open'[s] = <<>>
  <2>1. <<>> \in Seq(Nat)
    OBVIOUS
  <2>. QED BY <1>1, <1>2, <2>1 DEF InterpreterTypes
<1>7. InterpreterTypes'
  <2>1. running' \subseteq Interpreters
    BY <1>1, <1>2 DEF InterpreterTypes
  <2>. QED BY <1>3, <1>5, <1>6, <2>1 DEF InterpreterTypes
<1>8. ASSUME NEW t \in running' \ disturbed'
      PROVE  running' = {t} /\ Len(open'[t]) < SXE_CALL_STACK_SIZE /\ Holds(X!Cpu', open'[t])
  <2>1. running = {} /\ t = s /\ running' = {t}
    BY <1>1
  <2>2. Len(<<>>) < SXE_CALL_STACK_SIZE
    <3>1. Len(<<>>) = 0
      OBVIOUS
    <3>. QED BY <3>1, Layout
  <2>. QED BY <1>3, <1>6, <2>1, <2>2, Blank
<1>9. CallsInv'
  BY <1>8 DEF CallsInv, Holds, X!Byte, X!Word, X!CallStackAt, X!CallStackPointer
<1>. QED BY <1>7, <1>9 DEF InterpreterInv

LEMMA RejectStep ==
  ASSUME InterpreterInv, NEW s \in Interpreters, X!Reject(s)
  PROVE  InterpreterInv'
<1>1. /\ processors' = Append(processors, <<>>) /\ current' = Len(processors')
      /\ disturbed' = disturbed \cup running
      /\ UNCHANGED <<header, running, open>>
  BY DEF X!Reject
<1>2. InterpreterTypes
  BY DEF InterpreterInv
<1>3. processors' \in Seq(Cpus) /\ current' \in Nat /\ current' <= Len(processors') /\ current' # 0
  BY <1>1, <1>2, Requested
<1>4. InterpreterTypes'
  BY <1>1, <1>2, <1>3 DEF InterpreterTypes
<1>5. CallsInv'
  BY <1>1 DEF CallsInv
<1>. QED BY <1>4, <1>5 DEF InterpreterInv

LEMMA NothingStep ==
  ASSUME InterpreterInv, UNCHANGED <<processors, current, header, running, open, disturbed>>
  PROVE  InterpreterInv'
BY DEF InterpreterInv, InterpreterTypes, CallsInv, Holds, X!Cpu, X!Byte, X!Word, X!CallStackAt, X!CallStackPointer

LEMMA InterpreterInit ==
  ASSUME X!Init
  PROVE  InterpreterInv
<1>1. InterpreterTypes
  <2>1. processors = <<>> /\ current = 0 /\ running = {} /\ DOMAIN header = Interpreters
    BY DEF X!Init
  <2>2. <<>> \in Seq(Cpus) /\ Len(<<>>) = 0 /\ <<>> \in Seq(Nat)
    OBVIOUS
  <2>3. open \in [Interpreters -> Seq(Nat)]
    BY <2>2 DEF X!Init
  <2>. QED BY <2>1, <2>2, <2>3 DEF InterpreterTypes
<1>2. CallsInv
  BY DEF X!Init, CallsInv
<1>. QED BY <1>1, <1>2 DEF InterpreterInv

LEMMA InterpreterStep ==
  ASSUME X!ConstantsAssumption, InterpreterInv, [X!Next]_X!sxeVars
  PROVE  InterpreterInv'
<1>1. CASE X!Next
  <2>1. PICK s \in Interpreters :
          \/ \E image \in Images : X!Run(s, image)
          \/ X!Reject(s) \/ X!Exit(s) \/ X!Load(s) \/ X!Store(s) \/ X!Skip(s) \/ X!Jump(s) \/ X!Call(s)
          \/ X!Return(s) \/ X!PushOrPop(s) \/ X!Compute(s) \/ X!DivideByZero(s)
    BY <1>1, Zenon DEF X!Next
  <2>2. CASE \E image \in Images : X!Run(s, image)
    BY <2>2, RunStep
  <2>3. CASE X!Reject(s)
    BY <2>3, RejectStep
  <2>4. CASE X!Exit(s)
    BY <2>4, ExitStep
  <2>5. CASE X!Load(s)
    BY <2>5, LoadStep
  <2>6. CASE X!Store(s)
    BY <2>6, StoreStep
  <2>7. CASE X!Skip(s)
    BY <2>7, SkipStep
  <2>8. CASE X!Jump(s)
    BY <2>8, JumpStep
  <2>9. CASE X!Call(s)
    BY <2>9, CallInstruction
  <2>10. CASE X!Return(s)
    BY <2>10, ReturnStep
  <2>11. CASE X!PushOrPop(s)
    BY <2>11, PushOrPopStep
  <2>12. CASE X!Compute(s)
    BY <2>12, ComputeStep
  <2>13. CASE X!DivideByZero(s)
    <3>1. UNCHANGED <<processors, current, header, running, open, disturbed>>
      BY <2>13 DEF X!DivideByZero
    <3>. QED BY <3>1, NothingStep
  <2>. QED BY <2>1, <2>2, <2>3, <2>4, <2>5, <2>6, <2>7, <2>8, <2>9, <2>10, <2>11, <2>12, <2>13, Zenon
<1>2. CASE UNCHANGED X!sxeVars
  <2>1. UNCHANGED <<processors, current, header, running, open, disturbed>>
    BY <1>2 DEF X!sxeVars
  <2>. QED BY <2>1, NothingStep
<1>. QED BY <1>1, <1>2

LEMMA InterpreterCalls ==
  ASSUME X!ConstantsAssumption, InterpreterInv
  PROVE  CallsReturn
<1>1. ASSUME NEW s \in running \ disturbed
      PROVE  /\ X!Byte(X!Cpu, X!CallStackPointer) = Len(open[s])
             /\ \A i \in 1 .. Len(open[s]) : X!Word(X!Cpu, X!CallStackAt(i - 1)) = open[s][i]
  <2>1. Holds(X!Cpu, open[s]) /\ open[s] \in Seq(Nat)
    BY DEF InterpreterInv, InterpreterTypes, CallsInv
  <2>2. PICK held \in Seq(Nat) : held = open[s] /\ Holds(X!Cpu, held)
    BY <2>1
  <2>3. ASSUME NEW i \in 1 .. Len(held) PROVE X!Word(X!Cpu, X!CallStackAt(i - 1)) = held[i]
    <3>1. PICK j \in Nat : j = i - 1 /\ j < Len(held) /\ j + 1 = i
      OBVIOUS
    <3>2. X!Word(X!Cpu, X!CallStackAt(j)) = held[j + 1]
      BY <2>2, <3>1 DEF Holds
    <3>. QED BY <3>1, <3>2
  <2>4. X!Byte(X!Cpu, X!CallStackPointer) = Len(held)
    BY <2>2 DEF Holds
  <2>. QED BY <2>2, <2>3, <2>4
<1>. QED BY <1>1 DEF CallsReturn, X!CallsReturn

(* A program that no other meets, and that keeps an entry of its call stack free,   *)
(* returns to where it called from, whatever its words are: the CALL and the return *)
(* of sxe_run, for any number of interpreters.                                      *)
THEOREM CallsCorrect == X!ConstantsAssumption => (X!Spec => []CallsReturn)
<1>. SUFFICES ASSUME X!ConstantsAssumption PROVE X!Spec => []CallsReturn
  OBVIOUS
<1>1. X!Init => InterpreterInv
  BY InterpreterInit
<1>2. InterpreterInv /\ [X!Next]_X!sxeVars => InterpreterInv'
  BY InterpreterStep
<1>3. InterpreterInv => CallsReturn
  BY InterpreterCalls
<1>. QED BY <1>1, <1>2, <1>3, PTL DEF X!Spec
=============================================================================
