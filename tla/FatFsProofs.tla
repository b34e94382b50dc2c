----------------------------- MODULE FatFsProofs -----------------------------
(***************************************************************************)
(* Proofs about FatFs, for any number of tasks, files and entries and any  *)
(* geometry of the volume.                                                 *)
(***************************************************************************)
EXTENDS FatFs, WellFoundedInduction, TLAPS

-----------------------------------------------------------------------------
(* The least and the greatest element of a set of numbers. *)
LEMMA MinOf ==
  ASSUME NEW S, S \subseteq Nat, S # {}
  PROVE  Min(S) \in S /\ \A y \in S : Min(S) <= y
<1>1. IsWellFoundedOn(OpToRel(<, Nat), Nat)
  BY NatLessThanWellFounded
<1>2. \E x \in S : \A y \in S : ~ (<<y, x>> \in OpToRel(<, Nat))
  BY <1>1, WFMin
<1>3. PICK x \in S : \A y \in S : ~ (<<y, x>> \in OpToRel(<, Nat))
  BY <1>2
<1>4. \A y \in S : ~ (y < x)
  BY <1>3 DEF OpToRel
<1>5. \A y \in S : x <= y
  BY <1>4
<1>. QED BY <1>5 DEF Min

LEMMA MaxOf ==
  ASSUME NEW n \in Nat, NEW S, S \subseteq 0 .. n, S # {}
  PROVE  Max(S) \in S /\ \A y \in S : y <= Max(S)
<1>. DEFINE T == {n - x : x \in S}
<1>1. T \subseteq Nat /\ T # {}
  <2>1. \A x \in S : n - x \in Nat
    OBVIOUS
  <2>2. PICK x \in S : TRUE
    OBVIOUS
  <2>3. n - x \in T
    OBVIOUS
  <2>. QED BY <2>1, <2>3
<1>2. Min(T) \in T /\ \A y \in T : Min(T) <= y
  BY <1>1, MinOf
<1>3. PICK x \in S : Min(T) = n - x
  BY <1>2
<1>4. \A y \in S : x >= y
  BY <1>2, <1>3
<1>. QED BY <1>4 DEF Max

-----------------------------------------------------------------------------
(* The slots, the clusters and the sizes are sets of numbers. *)
LEMMA Numbers ==
  /\ NSlots - 1 \in Nat /\ Slots = 0 .. NSlots - 1
  /\ Clusters \subseteq Nat /\ 0 \in Clusters /\ Scanned \subseteq Clusters
  /\ Sizes \subseteq Nat /\ 0 \in Sizes
BY GeometryAssumption, BoundsAssumption DEF Slots, Clusters, Sizes

(* Slots are chosen by Min and Max only among slots. *)
LEMMA SlotChosen ==
  ASSUME NEW S, S \subseteq Slots, S # {}
  PROVE  Min(S) \in S /\ Max(S) \in S
<1>1. S \subseteq Nat
  BY Numbers
<1>. QED BY <1>1, Numbers, MinOf, MaxOf

(* A length that is not a number of sectors to be read is the size of a file. *)
LengthOK == \A t \in Tasks : pc[t] # "readdata" => len[t] \in Sizes

TypeInv == TypeOK /\ LengthOK

(* What Located does to the copy d of a directory: it writes a slot of it. *)
LEMMA LocatedIs ==
  ASSUME NEW d \in [Slots -> Entry], NEW t \in Tasks, file[t] \in Names, len[t] \in Sizes
  PROVE  LET l == Located(d, t) IN
           /\ l.at \in Slots
           /\ l.copy \in [Slots -> Entry]
           /\ \A q \in Slots : d[q].attributes # 0 =>
                /\ l.copy[q].name = d[q].name
                /\ l.copy[q].attributes = d[q].attributes
                /\ l.copy[q].cluster = d[q].cluster
           /\ \A q \in Slots : d[q].attributes = 0 =>
                \/ l.copy[q].attributes = 0
                \/ /\ Matches(d, file[t]) = {}
                   /\ q = l.at
                   /\ l.copy[q].name = file[t]
<1>. DEFINE free == {q \in Slots : d[q].attributes = 0}
<1>. DEFINE found == Matches(d, file[t])
<1>. DEFINE at == IF found # {} THEN Max(found) ELSE IF free # {} THEN Min(free) ELSE ParentIndex
<1>. DEFINE new == IF found = {} /\ free # {}
                   THEN [d EXCEPT ![at].name = file[t], ![at].attributes = 32]
                   ELSE d
<1>. DEFINE copy == [new EXCEPT ![at].size = len[t]]
<1>1. Located(d, t).at = at /\ Located(d, t).copy = copy
  BY DEF Located
<1>2. found \subseteq Slots
  BY DEF Matches
<1>3. at \in Slots
  <2>1. CASE found # {}
    BY <1>2, <2>1, SlotChosen
  <2>2. CASE found = {} /\ free # {}
    BY <2>2, SlotChosen
  <2>3. CASE found = {} /\ free = {}
    BY <2>3, GeometryAssumption DEF Slots
  <2>. QED BY <2>1, <2>2, <2>3
<1>4. found = {} /\ free # {} => at \in free
  BY SlotChosen
<1>. HIDE DEF at
<1>5. new \in [Slots -> Entry] /\ copy \in [Slots -> Entry]
  <2>1. new \in [Slots -> Entry]
    BY <1>3 DEF Entry
  <2>. HIDE DEF new
  <2>. QED BY <1>3, <2>1 DEF Entry
<1>6. \A q \in Slots : /\ copy[q].name = new[q].name
                       /\ copy[q].attributes = new[q].attributes
                       /\ copy[q].cluster = new[q].cluster
  <2>1. new \in [Slots -> Entry]
    BY <1>5
  <2>. HIDE DEF new
  <2>. QED BY <1>3, <2>1 DEF Entry
<1>. HIDE DEF copy
<1>7. \A q \in Slots : d[q].attributes # 0 => new[q] = d[q]
  BY <1>3, <1>4 DEF Entry
<1>8. \A q \in Slots : d[q].attributes = 0 =>
        \/ new[q].attributes = 0
        \/ found = {} /\ q = at /\ new[q].name = file[t]
  BY <1>3, <1>4 DEF Entry
<1>. HIDE DEF new, found
<1>9. \A q \in Slots : d[q].attributes # 0 =>
        /\ copy[q].name = d[q].name
        /\ copy[q].attributes = d[q].attributes
        /\ copy[q].cluster = d[q].cluster
  BY <1>6, <1>7
<1>10. \A q \in Slots : d[q].attributes = 0 =>
        \/ copy[q].attributes = 0
        \/ found = {} /\ q = at /\ copy[q].name = file[t]
  BY <1>6, <1>8
<1>. QED BY <1>1, <1>3, <1>5, <1>9, <1>10 DEF found

-----------------------------------------------------------------------------
(* A call that ends leaves the variables of its task as they were at first. *)
LEMMA ReturnTypes ==
  ASSUME TypeInv, NEW t \in Tasks, Return(t)
  PROVE  /\ pc' \in [Tasks -> Places] /\ file' \in [Tasks -> Names]
         /\ len' \in [Tasks -> Nat] /\ LengthOK'
         /\ es' \in [Tasks -> [Slots -> Entry]] /\ index' \in [Tasks -> Slots]
         /\ version' \in [Tasks -> 0 .. MaxWrites]
         /\ clash' \subseteq Files /\ stale' \subseteq Tasks
<1>1. [q \in Slots |-> Blank] \in [Slots -> Entry]
  BY Numbers DEF Blank, Entry, Names
<1>2. 0 \in Slots /\ 0 \in 0 .. MaxWrites
  BY GeometryAssumption, BoundsAssumption DEF Slots
<1>3. LengthOK'
  BY Numbers DEF Return, TypeInv, TypeOK, LengthOK
<1>. QED BY <1>1, <1>2, <1>3 DEF Return, TypeInv, TypeOK, Places, Names

(* The initial states have the types. *)
LEMMA InitTypes == Init => TypeInv
<1>. SUFFICES ASSUME Init PROVE TypeInv
  OBVIOUS
<1>1. Blank \in Entry /\ [q \in Slots |-> Blank] \in [Slots -> Entry]
  BY Numbers DEF Blank, Entry, Names
<1>2. Entries \subseteq Entry
  BY EntriesAssumption DEF Entry
<1>3. dir \in [Slots -> Entry]
  <2>1. dir \in [Slots -> Entries \cup {Blank}]
    BY DEF Init
  <2>. QED BY <1>1, <1>2, <2>1
<1>4. \A f \in Files : Named(dir, f) # {} => dir[Max(Named(dir, f))].size \in Sizes
  <2>1. \A f \in Files : Named(dir, f) # {} => Max(Named(dir, f)) \in Slots
    BY SlotChosen DEF Named
  <2>. QED BY <1>3, <2>1 DEF Entry
<1>5. committed \in [Files -> [size : {-2, -1} \cup Sizes, version : Versions]]
  <2>1. 0 \in Versions /\ -1 \in Versions
    BY BoundsAssumption DEF Versions
  <2>2. \A f \in Files :
          (IF Named(dir, f) = {} THEN Absent
           ELSE [size |-> dir[Max(Named(dir, f))].size, version |-> 0])
             \in [size : {-2, -1} \cup Sizes, version : Versions]
    BY <1>4, <2>1 DEF Absent
  <2>. QED BY <2>2 DEF Init
<1>6. 0 \in Slots /\ 0 \in 0 .. MaxWrites /\ 0 \in Sizes /\ 0 \in Nat
  BY GeometryAssumption, BoundsAssumption, Numbers DEF Slots
<1>7. LengthOK
  BY <1>6 DEF Init, LengthOK
<1>8. /\ data \in [Sectors -> 0 .. MaxWrites]
      /\ pc \in [Tasks -> Places] /\ file \in [Tasks -> Names] /\ len \in [Tasks -> Nat]
      /\ index \in [Tasks -> Slots] /\ version \in [Tasks -> 0 .. MaxWrites]
      /\ written \in 0 .. MaxWrites
  BY <1>6 DEF Init, Places, Names
<1>. QED BY <1>1, <1>3, <1>5, <1>7, <1>8 DEF Init, TypeInv, TypeOK

(* Every step keeps the types. *)
LEMMA NextTypes == TypeInv /\ [Next]_vars => TypeInv'
<1>. SUFFICES ASSUME TypeInv, [Next]_vars PROVE TypeInv'
  OBVIOUS
<1>. USE DEF TypeInv
<1>1. ASSUME NEW t \in Tasks, NEW f \in Files, Read(t, f) PROVE TypeInv'
  BY <1>1 DEF Read, TypeOK, LengthOK, disk, Names, Places
<1>2. ASSUME NEW t \in Tasks, NEW f \in Files, NEW n \in Sizes, Write(t, f, n) PROVE TypeInv'
  <2>1. written + 1 \in 0 .. MaxWrites
    BY <1>2, BoundsAssumption DEF Write, TypeOK
  <2>2. Unknown \in [size : {-2, -1} \cup Sizes, version : Versions]
    BY BoundsAssumption DEF Unknown, Versions
  <2>3. len' \in [Tasks -> Nat] /\ LengthOK'
    BY <1>2, Numbers DEF Write, TypeOK, LengthOK
  <2>4. committed' \in [Files -> [size : {-2, -1} \cup Sizes, version : Versions]]
    BY <1>2, <2>2 DEF Write, TypeOK
  <2>5. clash' \subseteq Files
    BY <1>2 DEF Write, TypeOK
  <2>. QED BY <1>2, <2>1, <2>3, <2>4, <2>5 DEF Write, TypeOK, disk, Names, Places
<1>3. ASSUME NEW t \in Tasks, Lookup(t) PROVE TypeInv'
  <2>1. dir \in [Slots -> Entry] /\ file[t] \in Names /\ len[t] \in Sizes
    BY <1>3 DEF Lookup, TypeOK, LengthOK
  <2>2. Located(dir, t).at \in Slots /\ Located(dir, t).copy \in [Slots -> Entry]
    BY <2>1, LocatedIs
  <2>3. pc' \in [Tasks -> Places] /\ LengthOK'
    BY <1>3 DEF Lookup, TypeOK, LengthOK, Places
  <2>4. damage' \subseteq Damage
    BY <1>3 DEF Lookup, TypeOK, Damage
  <2>. QED BY <1>3, <2>2, <2>3, <2>4 DEF Lookup, TypeOK, disk
<1>4. ASSUME NEW t \in Tasks, FatRead(t) PROVE TypeInv'
  <2>1. PICK free \in SUBSET Scanned :
          LET c == IF free = {} THEN 0 ELSE Min(free) IN
            /\ es' = [es EXCEPT ![t][index[t]].cluster = c]
            /\ damage' = damage \cup
                 (IF c = 0 THEN {"nocluster"} ELSE IF c \in Referred THEN {"collision"} ELSE {})
    BY <1>4 DEF FatRead
  <2>. DEFINE c == IF free = {} THEN 0 ELSE Min(free)
  <2>2. c \in Clusters
    <3>1. free \subseteq Nat
      BY Numbers
    <3>. QED BY <3>1, MinOf, Numbers
  <2>3. es' = [es EXCEPT ![t][index[t]].cluster = c] /\ damage' \subseteq Damage
    BY <2>1 DEF TypeOK, Damage
  <2>. HIDE DEF c
  <2>4. es' \in [Tasks -> [Slots -> Entry]]
    <3>1. es[t] \in [Slots -> Entry] /\ index[t] \in Slots
      BY DEF TypeOK
    <3>2. [es[t] EXCEPT ![index[t]].cluster = c] \in [Slots -> Entry]
      BY <2>2, <3>1 DEF Entry
    <3>. QED BY <2>3, <3>2 DEF TypeOK
  <2>. QED BY <1>4, <2>3, <2>4 DEF FatRead, TypeOK, LengthOK, disk, Places
<1>5. ASSUME NEW t \in Tasks, FatWrite(t) PROVE TypeInv'
  BY <1>5 DEF FatWrite, TypeOK, LengthOK, disk, Places
<1>6. ASSUME NEW t \in Tasks, DirWrite(t) PROVE TypeInv'
  <2>1. dir' \in [Slots -> Entry] /\ damage' \subseteq Damage /\ stale' \subseteq Tasks
    BY <1>6 DEF DirWrite, TypeOK, Damage
  <2>. QED BY <1>6, <2>1 DEF DirWrite, TypeOK, LengthOK, Places
<1>7. ASSUME NEW t \in Tasks, DataWrite(t) PROVE TypeInv'
  <2>1. len[t] \in Sizes /\ version[t] \in 0 .. MaxWrites
    BY <1>7 DEF DataWrite, TypeOK, LengthOK
  <2>2. data' \in [Sectors -> 0 .. MaxWrites]
    BY <1>7, <2>1 DEF DataWrite, TypeOK
  <2>3. committed' \in [Files -> [size : {-2, -1} \cup Sizes, version : Versions]]
    <3>1. Unknown \in [size : {-2, -1} \cup Sizes, version : Versions]
      BY BoundsAssumption DEF Unknown, Versions
    <3>2. [size |-> len[t], version |-> version[t]]
             \in [size : {-2, -1} \cup Sizes, version : Versions]
      BY <2>1, BoundsAssumption DEF Versions
    <3>. QED BY <1>7, <3>1, <3>2 DEF DataWrite, TypeOK
  <2>4. damage' \subseteq Damage /\ Return(t) /\ UNCHANGED <<dir, written>>
    BY <1>7 DEF DataWrite, TypeOK, Damage
  <2>. QED BY <2>2, <2>3, <2>4, ReturnTypes DEF TypeOK
<1>8. ASSUME NEW t \in Tasks, Fail(t) PROVE TypeInv'
  BY <1>8, ReturnTypes DEF Fail, TypeOK, disk
<1>9. ASSUME NEW t \in Tasks, ReadLookup(t) PROVE TypeInv'
  <2>1. CASE Fail(t)
    BY <1>8, <2>1
  <2>2. CASE ~ Fail(t)
    <3>. DEFINE q == Max(Matches(dir, file[t]))
    <3>1. q \in Slots
      BY <1>9, <2>2, SlotChosen DEF ReadLookup, Matches
    <3>2. SectorsRead(dir[q].size) \in Nat
      <4>1. dir[q].size \in Nat
        BY <3>1, Numbers DEF TypeOK, Entry
      <4>2. ASSUME NEW n \in Nat PROVE SectorsRead(n) \in Nat
        BY GeometryAssumption DEF SectorsRead
      <4>. HIDE DEF q
      <4>. QED BY <4>1, <4>2
    <3>3. /\ index' = [index EXCEPT ![t] = q]
          /\ len' = [len EXCEPT ![t] = SectorsRead(dir[q].size)]
          /\ es' = [es EXCEPT ![t] = dir]
          /\ pc' = [pc EXCEPT ![t] = "readdata"]
          /\ UNCHANGED <<disk, file, version, written, committed, clash, stale, damage>>
      BY <1>9, <2>2 DEF ReadLookup
    <3>. HIDE DEF q
    <3>4. index' \in [Tasks -> Slots] /\ len' \in [Tasks -> Nat]
      BY <3>1, <3>2, <3>3 DEF TypeOK
    <3>5. LengthOK'
      BY <3>3 DEF TypeOK, LengthOK
    <3>. QED BY <3>3, <3>4, <3>5 DEF TypeOK, disk, Places
  <2>. QED BY <2>1, <2>2
<1>10. ASSUME NEW t \in Tasks, ReadData(t) PROVE TypeInv'
  BY <1>8, <1>10 DEF ReadData, Fail
<1>11. CASE Reboot
  <2>1. [q \in Slots |-> Blank] \in [Slots -> Entry]
    BY Numbers DEF Blank, Entry, Names
  <2>2. 0 \in Slots /\ 0 \in 0 .. MaxWrites
    BY GeometryAssumption, BoundsAssumption DEF Slots
  <2>3. LengthOK'
    BY <1>11, Numbers DEF Reboot, LengthOK
  <2>. QED BY <1>11, <2>1, <2>2, <2>3 DEF Reboot, TypeOK, disk, Names, Places
<1>12. CASE UNCHANGED vars
  BY <1>12 DEF vars, disk, local, TypeOK, LengthOK
<1>. QED BY <1>1, <1>2, <1>3, <1>4, <1>5, <1>6, <1>7, <1>8, <1>9, <1>10, <1>11, <1>12
         DEF Next, TransferFails

LEMMA Types == Spec => []TypeInv
BY InitTypes, NextTypes, PTL DEF Spec

(* Whatever calls, failures and reboots come together, entries, indices and    *)
(* clusters stay within the directory and the volume, for any volume.          *)
THEOREM TypeCorrect == Spec => []TypeOK
BY Types, PTL DEF TypeInv

-----------------------------------------------------------------------------
(* UniqueNames is not inductive: the copies the tasks work on have to list every *)
(* file once, too, for any of them may become the directory.                     *)
Distinct(d) == \A f \in Files : \A p, q \in Named(d, f) : p = q

NamesInv == Distinct(dir) /\ \A t \in Tasks : Distinct(es[t])

LEMMA BlankIsDistinct == Distinct([q \in Slots |-> Blank])
BY DEF Distinct, Named, Blank

(* A copy in which the call's file was located lists it once: a new entry is made *)
(* only when no entry answers to the name.                                        *)
LEMMA LocatedIsDistinct ==
  ASSUME NEW d \in [Slots -> Entry], Distinct(d),
         NEW t \in Tasks, file[t] \in Names, len[t] \in Sizes
  PROVE  Distinct(Located(d, t).copy)
<1>. DEFINE c == Located(d, t).copy
<1>1. /\ \A q \in Slots : d[q].attributes # 0 => c[q].name = d[q].name
      /\ \A q \in Slots : d[q].attributes = 0 =>
           \/ c[q].attributes = 0
           \/ Matches(d, file[t]) = {} /\ q = Located(d, t).at /\ c[q].name = file[t]
  <2>. HIDE DEF c
  <2>1. LET l == Located(d, t) IN
          /\ \A q \in Slots : d[q].attributes # 0 =>
               /\ l.copy[q].name = d[q].name
               /\ l.copy[q].attributes = d[q].attributes
               /\ l.copy[q].cluster = d[q].cluster
          /\ \A q \in Slots : d[q].attributes = 0 =>
               \/ l.copy[q].attributes = 0
               \/ /\ Matches(d, file[t]) = {}
                  /\ q = l.at
                  /\ l.copy[q].name = file[t]
    BY LocatedIs
  <2>. QED BY <2>1 DEF c
<1>. HIDE DEF c
<1>2. SUFFICES ASSUME NEW f \in Files, NEW p \in Named(c, f), NEW q \in Named(c, f) PROVE p = q
  BY DEF Distinct, c
<1>3. p \in Slots /\ q \in Slots /\ c[p].attributes # 0 /\ c[q].attributes # 0
      /\ c[p].name = f /\ c[q].name = f
  BY DEF Named
<1>4. CASE d[p].attributes # 0 /\ d[q].attributes # 0
  <2>1. p \in Named(d, f) /\ q \in Named(d, f)
    BY <1>1, <1>3, <1>4 DEF Named
  <2>. QED BY <2>1 DEF Distinct
<1>5. CASE d[p].attributes = 0 /\ d[q].attributes = 0
  BY <1>1, <1>3, <1>5
<1>6. ASSUME NEW x \in Slots, NEW y \in Slots, d[x].attributes = 0, c[x].attributes # 0,
             d[y].attributes # 0, c[x].name = f, c[y].name = f
      PROVE  FALSE
  <2>1. file[t] = f /\ Matches(d, file[t]) = {}
    BY <1>1, <1>6
  <2>2. d[y].name = f
    BY <1>1, <1>6
  <2>3. y \in Matches(d, file[t])
    BY <1>6, <2>1, <2>2 DEF Matches
  <2>. QED BY <2>1, <2>3
<1>. QED BY <1>3, <1>4, <1>5, <1>6

LEMMA InitNames == Init => NamesInv
<1>. SUFFICES ASSUME Init PROVE NamesInv
  OBVIOUS
<1>1. \A p, q \in Slots : p # q /\ dir[p].name \in Files => dir[p].name # dir[q].name
  BY DEF Init
<1>2. Distinct(dir)
  BY <1>1 DEF Distinct, Named
<1>3. \A t \in Tasks : es[t] = [q \in Slots |-> Blank]
  BY DEF Init
<1>. QED BY <1>2, <1>3, BlankIsDistinct DEF NamesInv

LEMMA NextNames == TypeInv /\ NamesInv /\ [Next]_vars => NamesInv'
<1>. SUFFICES ASSUME TypeInv, NamesInv, [Next]_vars PROVE NamesInv'
  OBVIOUS
<1>. USE DEF NamesInv
<1>1. ASSUME UNCHANGED <<dir, es>> PROVE NamesInv'
  BY <1>1
<1>2. ASSUME NEW t \in Tasks, Return(t), UNCHANGED dir PROVE NamesInv'
  <2>1. es' = [es EXCEPT ![t] = [q \in Slots |-> Blank]]
    BY <1>2 DEF Return
  <2>2. \A u \in Tasks : es'[u] = es[u] \/ es'[u] = [q \in Slots |-> Blank]
    BY <2>1 DEF TypeInv, TypeOK
  <2>3. \A u \in Tasks : Distinct(es'[u])
    BY <2>2, BlankIsDistinct
  <2>. QED BY <1>2, <2>3
<1>3. ASSUME NEW t \in Tasks, Lookup(t) PROVE NamesInv'
  <2>1. dir \in [Slots -> Entry] /\ file[t] \in Names /\ len[t] \in Sizes
    BY <1>3 DEF Lookup, TypeInv, TypeOK, LengthOK
  <2>2. es' = [es EXCEPT ![t] = Located(dir, t).copy] /\ UNCHANGED dir
    BY <1>3 DEF Lookup, disk
  <2>3. Distinct(Located(dir, t).copy)
    BY <2>1, LocatedIsDistinct
  <2>4. \A u \in Tasks : es'[u] = es[u] \/ es'[u] = Located(dir, t).copy
    BY <2>2 DEF TypeInv, TypeOK
  <2>5. \A u \in Tasks : Distinct(es'[u])
    BY <2>3, <2>4
  <2>. QED BY <2>2, <2>5
<1>4. ASSUME NEW t \in Tasks, FatRead(t) PROVE NamesInv'
  <2>1. PICK free \in SUBSET Scanned :
          es' = [es EXCEPT ![t][index[t]].cluster = IF free = {} THEN 0 ELSE Min(free)]
    BY <1>4 DEF FatRead
  <2>2. \A u \in Tasks : \A q \in Slots :
          es'[u][q].name = es[u][q].name /\ es'[u][q].attributes = es[u][q].attributes
    BY <2>1 DEF TypeInv, TypeOK, Entry
  <2>3. \A u \in Tasks : \A f \in Files : Named(es'[u], f) = Named(es[u], f)
    BY <2>2 DEF Named
  <2>4. \A u \in Tasks : Distinct(es'[u])
    BY <2>3 DEF Distinct
  <2>. QED BY <1>4, <2>4 DEF FatRead, disk
<1>5. ASSUME NEW t \in Tasks, DirWrite(t) PROVE NamesInv'
  BY <1>5 DEF DirWrite
<1>6. ASSUME NEW t \in Tasks, ReadLookup(t) PROVE NamesInv'
  <2>1. CASE Fail(t)
    BY <1>2, <2>1 DEF Fail, disk
  <2>2. CASE ~ Fail(t)
    <3>1. es' = [es EXCEPT ![t] = dir] /\ UNCHANGED dir
      BY <1>6, <2>2 DEF ReadLookup, disk
    <3>2. \A u \in Tasks : es'[u] = es[u] \/ es'[u] = dir
      BY <3>1 DEF TypeInv, TypeOK
    <3>. QED BY <3>1, <3>2
  <2>. QED BY <2>1, <2>2
<1>7. CASE Reboot
  <2>1. \A u \in Tasks : es'[u] = [q \in Slots |-> Blank]
    BY <1>7 DEF Reboot
  <2>. QED BY <1>7, <2>1, BlankIsDistinct DEF Reboot, disk
<1>8. CASE \E t \in Tasks : \/ \E f \in Files : Read(t, f) \/ \E n \in Sizes : Write(t, f, n)
                            \/ FatWrite(t)
  BY <1>1, <1>8 DEF Read, Write, FatWrite, disk
<1>9. CASE \E t \in Tasks : DataWrite(t) \/ ReadData(t) \/ TransferFails(t)
  BY <1>2, <1>9 DEF DataWrite, ReadData, TransferFails, Fail, disk
<1>10. CASE UNCHANGED vars
  BY <1>1, <1>10 DEF vars, disk, local
<1>. QED BY <1>3, <1>4, <1>5, <1>6, <1>7, <1>8, <1>9, <1>10 DEF Next

(* No directory lists a file twice, for any number of tasks that create files at *)
(* once from copies of different age, with failures and reboots anywhere.        *)
THEOREM NamesAreUnique == Spec => []UniqueNames
<1>1. NamesInv => UniqueNames
  BY DEF NamesInv, Distinct, UniqueNames
<1>. QED BY <1>1, Types, InitNames, NextNames, PTL DEF Spec

-----------------------------------------------------------------------------
(* What makes EntriesStay true: a copy that no other task's write has overtaken *)
(* has every entry of the directory, with its name and its cluster, and a write *)
(* gives a cluster only to an entry that has none.                              *)
Keeps(d, c) ==
  \A q \in Slots : d[q].attributes # 0 =>
    /\ c[q].name = d[q].name
    /\ c[q].attributes = d[q].attributes
    /\ d[q].cluster \in {0, c[q].cluster}

CopiesInv ==
  \A t \in Tasks :
    /\ t \notin stale /\ pc[t] \in {"fatread", "fatwrite", "dirwrite"} => Keeps(dir, es[t])
    /\ pc[t] = "fatread" => es[t][index[t]].cluster = 0

LEMMA NextCopies == TypeInv /\ CopiesInv /\ [Next]_vars => CopiesInv'
<1>. SUFFICES ASSUME TypeInv, CopiesInv, [Next]_vars PROVE CopiesInv'
  OBVIOUS
<1>. USE DEF CopiesInv, TypeInv, TypeOK
<1>1. ASSUME NEW t \in Tasks, Return(t), UNCHANGED dir PROVE CopiesInv'
  BY <1>1 DEF Return
<1>2. ASSUME NEW t \in Tasks, Lookup(t) PROVE CopiesInv'
  <2>1. dir \in [Slots -> Entry] /\ file[t] \in Names /\ len[t] \in Sizes
    BY <1>2 DEF Lookup, LengthOK
  <2>. DEFINE l == Located(dir, t)
  <2>2. /\ es' = [es EXCEPT ![t] = l.copy] /\ index' = [index EXCEPT ![t] = l.at]
        /\ pc' = [pc EXCEPT ![t] = IF len[t] > ClusterSize THEN "hang"
                                   ELSE IF l.copy[l.at].cluster = 0 THEN "fatread"
                                   ELSE "dirwrite"]
        /\ UNCHANGED <<dir, stale>>
    BY <1>2 DEF Lookup, disk
  <2>3. Keeps(dir, l.copy)
    BY <2>1, LocatedIs DEF Keeps
  <2>. HIDE DEF l
  <2>4. \A u \in Tasks \ {t} : pc'[u] = pc[u] /\ es'[u] = es[u] /\ index'[u] = index[u]
    BY <2>2
  <2>5. es'[t] = l.copy /\ index'[t] = l.at
    BY <2>2
  <2>6. pc'[t] = "fatread" => l.copy[l.at].cluster = 0
    BY <2>2
  <2>. QED BY <2>2, <2>3, <2>4, <2>5, <2>6
<1>3. ASSUME NEW t \in Tasks, FatRead(t) PROVE CopiesInv'
  <2>1. PICK c : es' = [es EXCEPT ![t][index[t]].cluster = c]
    BY <1>3 DEF FatRead
  <2>2. pc[t] = "fatread" /\ pc' = [pc EXCEPT ![t] = "fatwrite"] /\ UNCHANGED <<dir, stale, index>>
    BY <1>3 DEF FatRead, disk
  <2>3. \A u \in Tasks \ {t} : pc'[u] = pc[u] /\ es'[u] = es[u]
    BY <2>1, <2>2
  <2>4. t \notin stale => Keeps(dir, es'[t])
    <3>1. t \notin stale => Keeps(dir, es[t])
      BY <2>2
    <3>2. \A q \in Slots : /\ es'[t][q].name = es[t][q].name
                           /\ es'[t][q].attributes = es[t][q].attributes
                           /\ q # index[t] => es'[t][q].cluster = es[t][q].cluster
      BY <2>1 DEF Entry
    <3>3. es[t][index[t]].cluster = 0
      BY <2>2
    <3>. HIDE DEF CopiesInv, TypeInv, TypeOK
    <3>. QED BY <3>1, <3>2, <3>3 DEF Keeps
  <2>. QED BY <2>2, <2>3, <2>4
<1>4. ASSUME NEW t \in Tasks, DirWrite(t) PROVE CopiesInv'
  <2>1. /\ pc' = [pc EXCEPT ![t] = "datawrite"] /\ UNCHANGED <<es, index>>
        /\ stale' = (stale \ {t}) \cup
             {u \in Tasks \ {t} : pc[u] \in {"fatread", "fatwrite", "dirwrite"}}
    BY <1>4 DEF DirWrite
  <2>. QED BY <2>1
<1>5. ASSUME NEW t \in Tasks, ReadLookup(t) PROVE CopiesInv'
  <2>1. CASE Fail(t)
    BY <1>1, <2>1 DEF Fail, disk
  <2>2. CASE ~ Fail(t)
    <3>1. /\ pc' = [pc EXCEPT ![t] = "readdata"] /\ UNCHANGED <<dir, stale>>
          /\ \A u \in Tasks \ {t} : es'[u] = es[u] /\ index'[u] = index[u]
      BY <1>5, <2>2 DEF ReadLookup, disk
    <3>. QED BY <3>1
  <2>. QED BY <2>1, <2>2
<1>6. CASE Reboot
  BY <1>6 DEF Reboot
<1>7. CASE \E t \in Tasks : \/ \E f \in Files : Read(t, f) \/ \E n \in Sizes : Write(t, f, n)
                            \/ FatWrite(t)
  BY <1>7 DEF Read, Write, FatWrite, disk
<1>8. CASE \E t \in Tasks : DataWrite(t) \/ ReadData(t) \/ TransferFails(t)
  BY <1>1, <1>8 DEF DataWrite, ReadData, TransferFails, Fail, disk
<1>9. CASE UNCHANGED vars
  BY <1>9 DEF vars, disk, local
<1>. QED BY <1>2, <1>3, <1>4, <1>5, <1>6, <1>7, <1>8, <1>9 DEF Next

(* A file loses its name or its cluster only to a task whose copy another write *)
(* of the directory has overtaken, for any number of tasks and entries.         *)
THEOREM EntriesAreKept == Spec => EntriesStay
<1>1. Init => CopiesInv
  BY DEF Init, CopiesInv
<1>2. TypeInv /\ CopiesInv /\ [Next]_vars =>
        [\A q \in Slots :
           dir[q].attributes # 0 =>
             \/ /\ dir'[q].name = dir[q].name
                /\ dir'[q].attributes = dir[q].attributes
                /\ dir[q].cluster \in {0, dir'[q].cluster}
             \/ \E t \in stale : pc[t] = "dirwrite" /\ pc'[t] = "datawrite"]_vars
  <2>1. SUFFICES ASSUME TypeInv, CopiesInv, Next, NEW q \in Slots, dir[q].attributes # 0
        PROVE  \/ /\ dir'[q].name = dir[q].name
                  /\ dir'[q].attributes = dir[q].attributes
                  /\ dir[q].cluster \in {0, dir'[q].cluster}
               \/ \E t \in stale : pc[t] = "dirwrite" /\ pc'[t] = "datawrite"
    OBVIOUS
  <2>2. CASE UNCHANGED dir
    BY <2>1, <2>2
  <2>3. ASSUME NEW t \in Tasks, DirWrite(t)
        PROVE  \/ /\ dir'[q].name = dir[q].name
                  /\ dir'[q].attributes = dir[q].attributes
                  /\ dir[q].cluster \in {0, dir'[q].cluster}
               \/ \E u \in stale : pc[u] = "dirwrite" /\ pc'[u] = "datawrite"
    <3>1. pc[t] = "dirwrite" /\ pc'[t] = "datawrite" /\ dir' = es[t]
      BY <2>1, <2>3 DEF DirWrite, TypeInv, TypeOK
    <3>2. CASE t \in stale
      BY <3>1, <3>2
    <3>3. CASE t \notin stale
      BY <2>1, <3>1, <3>3 DEF CopiesInv, Keeps
    <3>. QED BY <3>2, <3>3
  <2>4. UNCHANGED dir \/ \E t \in Tasks : DirWrite(t)
    BY <2>1 DEF Next, Read, Write, Lookup, FatRead, FatWrite, DataWrite, ReadLookup, ReadData,
                TransferFails, Fail, Reboot, disk
  <2>. QED BY <2>2, <2>3, <2>4
<1>. QED BY <1>1, <1>2, Types, NextCopies, PTL DEF Spec, EntriesStay

-----------------------------------------------------------------------------
(* What is read back.  While nothing has gone wrong (damage = {}), the clusters of *)
(* different files are different in the directory and in every copy that may       *)
(* become the directory; the copy of a task that nobody has overtaken differs from *)
(* the directory in its own entry only; and what the sectors of a file hold was    *)
(* stored by the write that was committed last.                                    *)

(* A task that writes and has its copy of the directory. *)
HasCopy(t) == pc[t] \in {"fatread", "fatwrite", "dirwrite", "datawrite"}

Unused(d) == \A q \in Slots : d[q].attributes = 0 => d[q].cluster = 0

(* No file of d has its cluster in common with another file of e. *)
Apart(d, e) ==
  \A p, q \in Slots :
    /\ d[p].attributes # 0 /\ d[p].name \in Files
    /\ e[q].attributes # 0 /\ e[q].name \in Files
    /\ d[p].cluster = e[q].cluster /\ d[p].cluster # 0
    => d[p].name = e[q].name

(* Who writes a file has taken back its promise, and two who do know of each other. *)
ClashInv ==
  /\ \A t \in Tasks : pc[t] # "idle" => file[t] \in Files
  /\ \A t \in Tasks : pc[t] \in Writing => committed[file[t]] = Unknown
  /\ \A t, u \in Tasks :
       t # u /\ pc[t] \in Writing /\ pc[u] \in Writing /\ file[t] = file[u] => file[t] \in clash

(* The directory, and the copies that may become the directory. *)
Views == {dir} \cup {es[t] : t \in {u \in Tasks : HasCopy(u)}}

ApartInv ==
  /\ Unused(dir) /\ \A t \in Tasks : Unused(es[t])
  /\ \A d, e \in Views : Apart(d, e)

WriterInv ==
  \A t \in Tasks : HasCopy(t) =>
    /\ es[t][index[t]].name = file[t]
    /\ es[t][index[t]].attributes # 0
    /\ es[t][index[t]].size = len[t]
    /\ pc[t] # "fatread" => es[t][index[t]].cluster # 0
    /\ pc[t] # "datawrite" /\ t \notin stale => \A q \in Slots \ {index[t]} : es[t][q] = dir[q]
    /\ pc[t] = "datawrite" /\ file[t] \notin clash => dir[index[t]] = es[t][index[t]]

Kept(f) ==
  IF committed[f] = Absent THEN Named(dir, f) = {}
  ELSE \E q \in Named(dir, f) :
         /\ dir[q].size = committed[f].size
         /\ SectorsRead(dir[q].size) <= SectorsPerCluster
         /\ \A s \in 0 .. SectorsRead(dir[q].size) - 1 :
              data[FirstSector(dir[q].cluster) + s] = committed[f].version

ReaderInv ==
  \A t \in Tasks :
    pc[t] = "readdata" /\ es[t][index[t]].name = file[t] /\ es[t][index[t]].cluster # 0 =>
      /\ dir[index[t]].name = file[t]
      /\ dir[index[t]].attributes # 0
      /\ dir[index[t]].cluster = es[t][index[t]].cluster

KeptInv == \A f \in Files : committed[f] # Unknown => Kept(f)

DataInv ==
  /\ ClashInv
  /\ damage = {} =>
       /\ ApartInv
       /\ WriterInv
       /\ ReaderInv
       /\ KeptInv

-----------------------------------------------------------------------------
(* The sectors of a cluster are sectors of the volume, and of no other cluster. *)
LEMMA SectorsOfClusters ==
  /\ \A c \in Clusters : \A r \in 0 .. SectorsPerCluster - 1 : FirstSector(c) + r \in Sectors
  /\ \A c, d \in Clusters : \A r, s \in 0 .. SectorsPerCluster - 1 :
       c # d => FirstSector(c) + r # FirstSector(d) + s
<1>. DEFINE S == SectorsPerCluster
<1>0. S \in Nat \ {0} /\ LastCluster \in Nat
  BY GeometryAssumption
<1>. HIDE DEF S
<1>1. ASSUME NEW c \in Nat, NEW d \in Nat, c < d PROVE c * S + S <= d * S
  <2>1. PICK k \in Nat : d = c + 1 + k
    <3>1. d - c - 1 \in Nat /\ d = c + 1 + (d - c - 1)
      BY <1>1
    <3>. QED BY <3>1
  <2>2. d * S = c * S + S + k * S
    BY <2>1, <1>0
  <2>3. k * S \in Nat /\ c * S \in Nat
    BY <1>0
  <2>. QED BY <2>2, <2>3, <1>0
<1>2. ASSUME NEW c \in Clusters, NEW r \in 0 .. S - 1
      PROVE  c * S + r \in 0 .. (LastCluster + 1) * S - 1
  <2>1. c \in Nat /\ c < LastCluster + 1 /\ LastCluster + 1 \in Nat
    BY <1>0 DEF Clusters
  <2>2. c * S + S <= (LastCluster + 1) * S
    BY <1>1, <2>1
  <2>3. c * S \in Nat /\ (LastCluster + 1) * S \in Nat
    BY <1>0, <2>1
  <2>. QED BY <2>2, <2>3, <1>0
<1>3. ASSUME NEW c \in Clusters, NEW d \in Clusters, NEW r \in 0 .. S - 1, NEW s \in 0 .. S - 1,
             c # d
      PROVE  c * S + r # d * S + s
  <2>1. c \in Nat /\ d \in Nat /\ c * S \in Nat /\ d * S \in Nat
    BY <1>0 DEF Clusters
  <2>2. CASE c < d
    <3>1. c * S + S <= d * S
      BY <1>1, <2>1, <2>2
    <3>. QED BY <3>1, <2>1, <1>0
  <2>3. CASE d < c
    <3>1. d * S + S <= c * S
      BY <1>1, <2>1, <2>3
    <3>. QED BY <3>1, <2>1, <1>0
  <2>. QED BY <2>1, <2>2, <2>3, <1>3
<1>. QED BY <1>2, <1>3 DEF S, FirstSector, Sectors

(* A file is read in the sectors that its write filled. *)
LEMMA ReadWhatIsWritten ==
  ASSUME NEW n \in Nat
  PROVE  /\ SectorsRead(n) \in Nat \ {0} /\ SectorsWritten(n) \in Nat \ {0}
         /\ SectorsRead(n) <= SectorsWritten(n)
<1>. DEFINE B == BytesPerSector
<1>0. B \in Nat \ {0}
  BY GeometryAssumption
<1>. HIDE DEF B
<1>. DEFINE k == n \div B
<1>. DEFINE r == n % B
<1>1. k \in Nat /\ r \in 0 .. B - 1 /\ n = B * k + r
  BY <1>0
<1>. HIDE DEF k, r
<1>2. (n + B - 1) \div B \in Nat /\ (n + B - 1) \div B <= k + 1
  <2>. DEFINE m == n + B - 1
  <2>. DEFINE j == m \div B
  <2>1. m \in Nat
    BY <1>0
  <2>2. j \in Nat /\ B * j <= m
    BY <1>0, <2>1
  <2>3. m < B * k + 2 * B
    BY <1>0, <1>1
  <2>. HIDE DEF m, j
  <2>4. ASSUME j >= k + 2 PROVE FALSE
    <3>1. PICK i \in Nat : j = k + 2 + i
      <4>1. j - k - 2 \in Nat /\ j = k + 2 + (j - k - 2)
        BY <1>1, <2>2, <2>4
      <4>. QED BY <4>1
    <3>2. B * j = B * k + 2 * B + B * i
      BY <3>1, <1>0, <1>1
    <3>3. B * i \in Nat /\ B * k \in Nat /\ B * j \in Nat
      BY <3>1, <1>0, <1>1, <2>2
    <3>. QED BY <3>2, <3>3, <2>1, <2>2, <2>3, <1>0
  <2>5. j < k + 2
    BY <2>4, <2>2, <1>1
  <2>. QED BY <2>2, <2>5, <1>1 DEF j, m
<1>3. n # 0 => (n + B - 1) \div B # 0
  <2>1. ASSUME n # 0, (n + B - 1) \div B = 0 PROVE FALSE
    <3>. DEFINE m == n + B - 1
    <3>1. m \in Nat /\ m >= B
      BY <1>0, <2>1
    <3>. HIDE DEF m
    <3>2. m = B * (m \div B) + (m % B) /\ m % B \in 0 .. B - 1
      BY <1>0, <3>1
    <3>3. m \div B = 0
      BY <2>1 DEF m
    <3>. QED BY <1>0, <3>1, <3>2, <3>3
  <2>. QED BY <2>1
<1>. QED BY <1>1, <1>2, <1>3 DEF SectorsRead, SectorsWritten, B, k

(* More about Located: the copy differs from the directory in one entry only. *)
LEMMA LocatedEntry ==
  ASSUME NEW d \in [Slots -> Entry], NEW t \in Tasks, file[t] \in Names, len[t] \in Sizes
  PROVE  LET l == Located(d, t) IN
           /\ \A q \in Slots \ {l.at} : l.copy[q] = d[q]
           /\ l.copy[l.at].size = len[t]
           /\ l.copy[l.at].cluster = d[l.at].cluster
           /\ ~ l.full => l.copy[l.at].attributes # 0
<1>. DEFINE free == {q \in Slots : d[q].attributes = 0}
<1>. DEFINE found == Matches(d, file[t])
<1>. DEFINE at == IF found # {} THEN Max(found) ELSE IF free # {} THEN Min(free) ELSE ParentIndex
<1>. DEFINE new == IF found = {} /\ free # {}
                   THEN [d EXCEPT ![at].name = file[t], ![at].attributes = 32]
                   ELSE d
<1>. DEFINE copy == [new EXCEPT ![at].size = len[t]]
<1>1. /\ Located(d, t).at = at /\ Located(d, t).copy = copy
      /\ Located(d, t).full = (found = {} /\ free = {})
  BY DEF Located
<1>2. at \in Slots
  <2>1. Located(d, t).at \in Slots
    BY LocatedIs
  <2>. QED BY <1>1, <2>1
<1>3. found # {} => d[at].attributes # 0
  <2>1. found \subseteq Slots
    BY DEF Matches
  <2>2. found # {} => Max(found) \in found
    BY <2>1, SlotChosen
  <2>3. \A q \in found : d[q].attributes # 0
    BY DEF Matches
  <2>. HIDE DEF found
  <2>. QED BY <2>2, <2>3
<1>. HIDE DEF at, found, free
<1>4. /\ new \in [Slots -> Entry]
      /\ \A q \in Slots \ {at} : new[q] = d[q]
      /\ new[at].cluster = d[at].cluster
      /\ ~ (found = {} /\ free = {}) => new[at].attributes # 0
  <2>1. CASE found = {} /\ free # {}
    <3>1. 32 \in {0, 32} /\ 32 # 0
      OBVIOUS
    <3>. QED BY <1>2, <2>1, <3>1 DEF Entry
  <2>2. CASE ~ (found = {} /\ free # {})
    BY <1>3, <2>2
  <2>. QED BY <2>1, <2>2
<1>. HIDE DEF new
<1>5. /\ \A q \in Slots \ {at} : copy[q] = new[q]
      /\ copy[at].size = len[t] /\ copy[at].cluster = new[at].cluster
      /\ copy[at].attributes = new[at].attributes
  BY <1>2, <1>4 DEF Entry
<1>. HIDE DEF copy
<1>. QED BY <1>1, <1>4, <1>5

(* The steps of a task, and what they leave alone of the other tasks. *)
Moves(t) ==
  \/ \E f \in Files : Read(t, f) \/ \E n \in Sizes : Write(t, f, n)
  \/ Lookup(t) \/ FatRead(t) \/ FatWrite(t) \/ DirWrite(t) \/ DataWrite(t)
  \/ ReadLookup(t) \/ ReadData(t) \/ TransferFails(t)

LEMMA OthersRest ==
  ASSUME TypeInv, NEW t \in Tasks, Moves(t), NEW u \in Tasks, u # t
  PROVE  /\ pc'[u] = pc[u] /\ file'[u] = file[u] /\ len'[u] = len[u]
         /\ es'[u] = es[u] /\ index'[u] = index[u]
<1>. USE DEF TypeInv, TypeOK
<1>1. CASE Return(t)
  BY <1>1 DEF Return
<1>2. CASE \/ \E f \in Files : Read(t, f) \/ \E n \in Sizes : Write(t, f, n)
           \/ FatWrite(t) \/ DirWrite(t)
  BY <1>2 DEF Read, Write, FatWrite, DirWrite
<1>3. CASE Lookup(t)
  <2>1. PICK a, b, c : /\ es' = [es EXCEPT ![t] = a] /\ index' = [index EXCEPT ![t] = b]
                       /\ pc' = [pc EXCEPT ![t] = c] /\ UNCHANGED <<file, len>>
    BY <1>3 DEF Lookup
  <2>. QED BY <2>1
<1>4. CASE FatRead(t)
  <2>1. PICK c : es' = [es EXCEPT ![t][index[t]].cluster = c]
    BY <1>4 DEF FatRead
  <2>. QED BY <1>4, <2>1 DEF FatRead
<1>5. CASE ReadLookup(t) /\ ~ Return(t)
  <2>1. PICK a, b : /\ es' = [es EXCEPT ![t] = dir] /\ index' = [index EXCEPT ![t] = a]
                    /\ len' = [len EXCEPT ![t] = b] /\ pc' = [pc EXCEPT ![t] = "readdata"]
                    /\ UNCHANGED file
    BY <1>5 DEF ReadLookup, Fail
  <2>. QED BY <2>1
<1>. QED BY <1>1, <1>2, <1>3, <1>4, <1>5
         DEF Moves, DataWrite, ReadData, TransferFails, Fail

(* Every step is a task's, a reboot or none; damage stays. *)
LEMMA StepIs ==
  ASSUME [Next]_vars
  PROVE  (\E t \in Tasks : Moves(t)) \/ Reboot \/ UNCHANGED vars
BY DEF Next, Moves

LEMMA DamageStays ==
  ASSUME [Next]_vars, damage' = {}
  PROVE  damage = {}
<1>1. damage \subseteq damage'
  <2>1. ASSUME NEW t \in Tasks, Moves(t) PROVE damage \subseteq damage'
    BY <2>1 DEF Moves, Read, Write, Lookup, FatRead, FatWrite, DirWrite, DataWrite, ReadLookup,
                ReadData, TransferFails, Fail
  <2>. QED BY <2>1, StepIs DEF Reboot, vars
<1>. QED BY <1>1

-----------------------------------------------------------------------------
LEMMA InitClash == Init => ClashInv
BY DEF Init, ClashInv, Writing

LEMMA NextClash == TypeInv /\ ClashInv /\ [Next]_vars => ClashInv'
<1>. SUFFICES ASSUME TypeInv, ClashInv, [Next]_vars PROVE ClashInv'
  OBVIOUS
<1>1. ASSUME NEW t \in Tasks, Moves(t), pc'[t] # "idle" => file'[t] \in Files,
             pc'[t] \in Writing => pc[t] \in Writing /\ file'[t] = file[t],
             UNCHANGED <<committed, clash>>
      PROVE  ClashInv'
  BY <1>1, OthersRest DEF ClashInv
<1>2. ASSUME NEW t \in Tasks, Moves(t), Return(t),
             \A f \in Files : \/ committed'[f] \in {committed[f], Unknown}
                              \/ f = file[t] /\ f \notin clash /\ pc[t] \in Writing
      PROVE  ClashInv'
  <2>1. pc'[t] = "idle" /\ "idle" \notin Writing
    BY <1>2 DEF Return, TypeInv, TypeOK, Writing
  <2>2. \A u \in Tasks \ {t} : pc'[u] = pc[u] /\ file'[u] = file[u]
    BY <1>2, OthersRest
  <2>3. ASSUME NEW u \in Tasks \ {t}, pc[u] \in Writing PROVE committed'[file[u]] = Unknown
    BY <1>2, <2>3 DEF ClashInv, Writing
  <2>4. ASSUME NEW u \in Tasks \ {t}, pc[u] \in Writing, file[u] \in clash
        PROVE  file[u] \in clash'
    BY <1>2, <2>4 DEF Return
  <2>. QED BY <2>1, <2>2, <2>3, <2>4 DEF ClashInv
<1>3. ASSUME NEW t \in Tasks, NEW f \in Files, NEW n \in Sizes, Write(t, f, n) PROVE ClashInv'
  <2>1. /\ pc'[t] = "lookup" /\ file'[t] = f /\ committed' = [committed EXCEPT ![f] = Unknown]
        /\ clash' = IF \E u \in Tasks : pc[u] \in Writing /\ file[u] = f
                    THEN clash \cup {f} ELSE clash
    BY <1>3 DEF Write, TypeInv, TypeOK
  <2>2. \A u \in Tasks \ {t} : pc'[u] = pc[u] /\ file'[u] = file[u]
    BY <1>3, OthersRest DEF Moves
  <2>3. committed'[f] = Unknown /\ \A g \in Files : committed[g] = Unknown => committed'[g] = Unknown
    BY <2>1 DEF TypeInv, TypeOK
  <2>. QED BY <2>1, <2>2, <2>3 DEF ClashInv
<1>4. ASSUME NEW t \in Tasks, Moves(t) PROVE ClashInv'
  <2>1. CASE \E f \in Files : Read(t, f)
    BY <1>1, <1>4, <2>1 DEF Read, TypeInv, TypeOK, Writing
  <2>2. CASE Lookup(t)
    <3>1. PICK c \in {"hang", "fatread", "dirwrite"} : pc' = [pc EXCEPT ![t] = c]
      BY <2>2 DEF Lookup
    <3>. QED BY <1>1, <1>4, <2>2, <3>1 DEF Lookup, TypeInv, TypeOK, ClashInv, Writing
  <2>3. CASE FatRead(t) \/ FatWrite(t) \/ DirWrite(t)
    BY <1>1, <1>4, <2>3 DEF FatRead, FatWrite, DirWrite, TypeInv, TypeOK, ClashInv, Writing
  <2>4. CASE DataWrite(t)
    <3>1. \A f \in Files : \/ committed'[f] \in {committed[f], Unknown}
                           \/ f = file[t] /\ f \notin clash /\ pc[t] \in Writing
      BY <2>4 DEF DataWrite, TypeInv, TypeOK, Writing
    <3>. QED BY <1>2, <1>4, <2>4, <3>1 DEF DataWrite
  <2>5. CASE Fail(t)
    BY <1>2, <1>4, <2>5 DEF Fail
  <2>6. CASE ReadLookup(t) /\ ~ Fail(t)
    BY <1>1, <1>4, <2>6 DEF ReadLookup, TypeInv, TypeOK, ClashInv, Writing
  <2>. QED BY <1>3, <1>4, <2>1, <2>2, <2>3, <2>4, <2>5, <2>6
           DEF Moves, ReadData, TransferFails, Fail
<1>5. CASE Reboot
  BY <1>5 DEF Reboot, ClashInv, Writing
<1>6. CASE UNCHANGED vars
  BY <1>6 DEF vars, local, ClashInv
<1>. QED BY <1>4, <1>5, <1>6, StepIs

-----------------------------------------------------------------------------
(* A directory all of whose clusters are those of d, for the same names. *)
Derived(d, c) ==
  \A q \in Slots : c[q].attributes # 0 /\ c[q].cluster # 0 =>
    d[q].attributes # 0 /\ d[q].name = c[q].name /\ d[q].cluster = c[q].cluster

LEMMA ApartDerived ==
  ASSUME NEW d, NEW e, NEW c, NEW b, Apart(d, e), Derived(d, c), Derived(e, b)
  PROVE  Apart(c, b)
BY DEF Apart, Derived

LEMMA DerivedItself == ASSUME NEW d PROVE Derived(d, d)
BY DEF Derived

(* The clusters of the views are those that a new cluster is compared with. *)
LEMMA ReferredIs ==
  ASSUME NEW d \in Views, NEW q \in Slots, d[q].attributes # 0, d[q].name \in Files
  PROVE  d[q].cluster \in Referred
<1>1. d[q].cluster \in Taken(d)
  BY DEF Taken
<1>2. d = dir \/ \E t \in Tasks : d = es[t] /\ pc[t] \in Writing \ {"lookup"}
  BY DEF Views, HasCopy, Writing
<1>. QED BY <1>1, <1>2 DEF Referred

LEMMA InitApart == Init => ApartInv
<1>. SUFFICES ASSUME Init PROVE ApartInv
  OBVIOUS
<1>1. dir \in [Slots -> Entries \cup {Blank}]
  BY DEF Init
<1>2. Unused(dir)
  <2>1. \A e \in Entries : e.attributes = 32
    BY EntriesAssumption
  <2>2. \A q \in Slots : dir[q] \in Entries \/ dir[q] = Blank
    BY <1>1
  <2>. QED BY <2>1, <2>2 DEF Unused, Blank
<1>3. \A t \in Tasks : Unused(es[t])
  BY DEF Init, Unused, Blank
<1>4. Apart(dir, dir)
  <2>1. \A p, q \in Slots : p # q /\ dir[p].name \in Files /\ dir[p].cluster # 0 =>
          dir[p].cluster # dir[q].cluster
    BY DEF Init
  <2>. QED BY <2>1 DEF Apart
<1>5. Views = {dir}
  BY DEF Init, Views, HasCopy
<1>. QED BY <1>2, <1>3, <1>4, <1>5 DEF ApartInv

(* When the views after a step are views before it, or derived from the directory. *)
LEMMA ViewsDerived ==
  ASSUME ApartInv, \A d \in Views' : d \in Views \/ Derived(dir, d),
         Unused(dir'), \A t \in Tasks : Unused(es'[t])
  PROVE  ApartInv'
<1>1. \A d \in Views' : \E e \in Views : Derived(e, d)
  BY DerivedItself DEF Views
<1>2. ASSUME NEW d \in Views', NEW e \in Views' PROVE Apart(d, e)
  <2>1. PICK c \in Views, b \in Views : Derived(c, d) /\ Derived(b, e)
    BY <1>1, <1>2
  <2>. QED BY <2>1, ApartDerived DEF ApartInv
<1>. QED BY <1>2 DEF ApartInv

LEMMA NextApart ==
  ASSUME TypeInv, ApartInv, WriterInv, \A t \in Tasks : pc[t] # "idle" => file[t] \in Files,
         [Next]_vars, damage' = {}
  PROVE  ApartInv'
<1>. DEFINE empty == [q \in Slots |-> Blank]
<1>0. Unused(empty)
  BY DEF Unused, Blank
<1>1. ASSUME NEW t \in Tasks, Moves(t), HasCopy(t)' => HasCopy(t), es'[t] \in {es[t], empty},
             HasCopy(t)' => es'[t] = es[t],
             UNCHANGED dir \/ (HasCopy(t) /\ dir' = es[t])
      PROVE  ApartInv'
  <2>1. \A u \in Tasks \ {t} : es'[u] = es[u] /\ (HasCopy(u)' <=> HasCopy(u))
    BY <1>1, OthersRest DEF HasCopy
  <2>2. \A d \in Views' : d \in Views
    BY <1>1, <2>1 DEF Views
  <2>3. Unused(dir') /\ \A u \in Tasks : Unused(es'[u])
    BY <1>0, <1>1, <2>1 DEF ApartInv
  <2>. QED BY <2>2, <2>3, ViewsDerived
<1>2. ASSUME NEW t \in Tasks, Lookup(t) PROVE ApartInv'
  <2>1. dir \in [Slots -> Entry] /\ file[t] \in Names /\ len[t] \in Sizes
    BY <1>2 DEF Lookup, TypeInv, TypeOK, LengthOK
  <2>. DEFINE copy == Located(dir, t).copy
  <2>. DEFINE at == Located(dir, t).at
  <2>2. /\ at \in Slots
        /\ \A q \in Slots \ {at} : copy[q] = dir[q]
        /\ copy[at].cluster = dir[at].cluster
        /\ dir[at].attributes # 0 => copy[at].name = dir[at].name /\ copy[at].attributes # 0
    BY <2>1, LocatedIs, LocatedEntry
  <2>3. es' = [es EXCEPT ![t] = copy] /\ UNCHANGED dir
    BY <1>2 DEF Lookup, disk
  <2>. HIDE DEF copy, at
  <2>4. Unused(dir)
    BY DEF ApartInv
  <2>5. Derived(dir, copy)
    <3>1. ASSUME NEW q \in Slots, copy[q].attributes # 0, copy[q].cluster # 0
          PROVE  dir[q].attributes # 0 /\ dir[q].name = copy[q].name
                   /\ dir[q].cluster = copy[q].cluster
      BY <2>2, <2>4, <3>1 DEF Unused
    <3>. QED BY <3>1 DEF Derived
  <2>6. Unused(copy)
    <3>1. ASSUME NEW q \in Slots, copy[q].attributes = 0 PROVE copy[q].cluster = 0
      BY <2>2, <2>4, <3>1 DEF Unused
    <3>. QED BY <3>1 DEF Unused
  <2>7. /\ es'[t] = copy
        /\ \A u \in Tasks \ {t} : es'[u] = es[u] /\ (HasCopy(u)' <=> HasCopy(u))
    BY <1>2, <2>3, OthersRest DEF HasCopy, TypeInv, TypeOK, Moves
  <2>8. \A d \in Views' : d \in Views \/ Derived(dir, d)
    BY <2>3, <2>5, <2>7 DEF Views
  <2>9. \A u \in Tasks : Unused(es'[u])
    BY <2>6, <2>7 DEF ApartInv
  <2>. QED BY <2>3, <2>4, <2>8, <2>9, ViewsDerived
<1>3. ASSUME NEW t \in Tasks, FatRead(t) PROVE ApartInv'
  <2>1. PICK c : /\ es' = [es EXCEPT ![t][index[t]].cluster = c]
                 /\ c # 0 /\ c \notin Referred
    <3>1. PICK free \in SUBSET Scanned :
            LET c == IF free = {} THEN 0 ELSE Min(free) IN
              /\ es' = [es EXCEPT ![t][index[t]].cluster = c]
              /\ damage' = damage \cup
                   (IF c = 0 THEN {"nocluster"} ELSE IF c \in Referred THEN {"collision"} ELSE {})
      BY <1>3 DEF FatRead
    <3>. DEFINE c == IF free = {} THEN 0 ELSE Min(free)
    <3>2. /\ es' = [es EXCEPT ![t][index[t]].cluster = c]
          /\ damage' = damage \cup
               (IF c = 0 THEN {"nocluster"} ELSE IF c \in Referred THEN {"collision"} ELSE {})
      BY <3>1
    <3>. HIDE DEF c
    <3>. QED BY <3>2
  <2>2. HasCopy(t) /\ HasCopy(t)' /\ UNCHANGED dir /\ es[t] \in Views
    BY <1>3 DEF FatRead, HasCopy, disk, TypeInv, TypeOK, Views
  <2>3. \A u \in Tasks \ {t} : es'[u] = es[u] /\ (HasCopy(u)' <=> HasCopy(u))
    BY <1>3, OthersRest DEF HasCopy, Moves
  <2>4. /\ index[t] \in Slots
        /\ \A q \in Slots \ {index[t]} : es'[t][q] = es[t][q]
        /\ es'[t][index[t]].cluster = c
        /\ es'[t][index[t]].name = es[t][index[t]].name
        /\ es'[t][index[t]].attributes = es[t][index[t]].attributes
    BY <2>1 DEF TypeInv, TypeOK, Entry
  <2>5. es[t][index[t]].attributes # 0
    BY <2>2 DEF WriterInv
  <2>6. \A e \in Views : Apart(es'[t], e) /\ Apart(e, es'[t])
    <3>1. ASSUME NEW e \in Views, NEW p \in Slots, NEW q \in Slots,
                 es'[t][p].attributes # 0, es'[t][p].name \in Files,
                 e[q].attributes # 0, e[q].name \in Files,
                 es'[t][p].cluster = e[q].cluster, e[q].cluster # 0
          PROVE  es'[t][p].name = e[q].name
      <4>1. p # index[t]
        BY <2>1, <2>4, <3>1, ReferredIs
      <4>2. Apart(es[t], e)
        BY <2>2 DEF ApartInv
      <4>. QED BY <2>4, <3>1, <4>1, <4>2 DEF Apart
    <3>. QED BY <3>1 DEF Apart
  <2>7. Apart(es'[t], es'[t])
    <3>1. ASSUME NEW p \in Slots, NEW q \in Slots,
                 es'[t][p].attributes # 0, es'[t][p].name \in Files,
                 es'[t][q].attributes # 0, es'[t][q].name \in Files,
                 es'[t][p].cluster = es'[t][q].cluster, es'[t][q].cluster # 0
          PROVE  es'[t][p].name = es'[t][q].name
      <4>1. CASE q # index[t]
        BY <2>2, <2>4, <2>6, <3>1, <4>1 DEF Apart
      <4>2. CASE p # index[t]
        BY <2>2, <2>4, <2>6, <3>1, <4>2 DEF Apart
      <4>. QED BY <4>1, <4>2
    <3>. QED BY <3>1 DEF Apart
  <2>8. \A d \in Views' : d \in Views \/ d = es'[t]
    BY <2>2, <2>3 DEF Views
  <2>9. Unused(es'[t])
    BY <2>4, <2>5 DEF ApartInv, Unused
  <2>10. \A u \in Tasks : Unused(es'[u])
    BY <2>3, <2>9 DEF ApartInv
  <2>11. Unused(dir') /\ \A d, e \in Views : Apart(d, e)
    BY <2>2 DEF ApartInv
  <2>. QED BY <2>6, <2>7, <2>8, <2>10, <2>11 DEF ApartInv
<1>4. ASSUME NEW t \in Tasks, ReadLookup(t), ~ Fail(t) PROVE ApartInv'
  <2>1. es' = [es EXCEPT ![t] = dir] /\ pc' = [pc EXCEPT ![t] = "readdata"] /\ UNCHANGED dir
    BY <1>4 DEF ReadLookup, disk
  <2>2. ~ HasCopy(t)' /\ es'[t] = dir
    BY <2>1 DEF HasCopy, TypeInv, TypeOK
  <2>3. \A u \in Tasks \ {t} : es'[u] = es[u] /\ (HasCopy(u)' <=> HasCopy(u))
    BY <1>4, OthersRest DEF HasCopy, Moves
  <2>4. \A d \in Views' : d \in Views
    BY <2>1, <2>2, <2>3 DEF Views
  <2>5. Unused(dir') /\ \A u \in Tasks : Unused(es'[u])
    BY <2>1, <2>2, <2>3 DEF ApartInv
  <2>. QED BY <2>4, <2>5, ViewsDerived
<1>5. ASSUME NEW t \in Tasks, Moves(t) PROVE ApartInv'
  <2>1. CASE Return(t) /\ UNCHANGED dir
    <3>1. es'[t] = empty /\ ~ HasCopy(t)'
      BY <2>1 DEF Return, HasCopy, TypeInv, TypeOK
    <3>. QED BY <1>1, <1>5, <2>1, <3>1
  <2>2. CASE \/ \E f \in Files : Read(t, f) \/ \E n \in Sizes : Write(t, f, n)
             \/ FatWrite(t) \/ DirWrite(t)
    <3>1. /\ UNCHANGED es /\ (HasCopy(t)' => HasCopy(t))
          /\ UNCHANGED dir \/ (HasCopy(t) /\ dir' = es[t])
      BY <2>2 DEF Read, Write, FatWrite, DirWrite, HasCopy, TypeInv, TypeOK, disk
    <3>. QED BY <1>1, <1>5, <3>1
  <2>3. CASE Fail(t) \/ DataWrite(t) \/ ReadData(t)
    BY <2>1, <2>3 DEF Fail, DataWrite, ReadData, disk
  <2>. QED BY <1>2, <1>3, <1>4, <1>5, <2>2, <2>3 DEF Moves, TransferFails
<1>6. CASE Reboot
  <2>1. UNCHANGED dir /\ \A u \in Tasks : es'[u] = empty /\ ~ HasCopy(u)'
    BY <1>6 DEF Reboot, disk, HasCopy
  <2>2. \A d \in Views' : d \in Views
    BY <2>1 DEF Views
  <2>. QED BY <1>0, <2>1, <2>2, ViewsDerived DEF ApartInv
<1>7. CASE UNCHANGED vars
  BY <1>7 DEF vars, disk, local, ApartInv, Views, HasCopy
<1>. QED BY <1>5, <1>6, <1>7, StepIs

-----------------------------------------------------------------------------
LEMMA NextWriter ==
  ASSUME TypeInv, ClashInv, CopiesInv, WriterInv, [Next]_vars, damage' = {}
  PROVE  WriterInv'
<1>. DEFINE Own(t) ==
       HasCopy(t) =>
         /\ es[t][index[t]].name = file[t]
         /\ es[t][index[t]].attributes # 0
         /\ es[t][index[t]].size = len[t]
         /\ pc[t] # "fatread" => es[t][index[t]].cluster # 0
         /\ pc[t] # "datawrite" /\ t \notin stale => \A q \in Slots \ {index[t]} : es[t][q] = dir[q]
         /\ pc[t] = "datawrite" /\ file[t] \notin clash => dir[index[t]] = es[t][index[t]]
<1>0. ASSUME NEW t \in Tasks, Moves(t), Own(t)', UNCHANGED dir,
             \A u \in Tasks \ {t} : /\ u \in stale => u \in stale'
                                    /\ HasCopy(u) /\ file[u] \in clash => file[u] \in clash'
      PROVE  WriterInv'
  <2>1. ASSUME NEW u \in Tasks \ {t} PROVE Own(u)'
    <3>1. /\ pc'[u] = pc[u] /\ file'[u] = file[u] /\ len'[u] = len[u]
          /\ es'[u] = es[u] /\ index'[u] = index[u]
      BY <1>0, OthersRest
    <3>2. HasCopy(u)' <=> HasCopy(u)
      BY <3>1 DEF HasCopy
    <3>. QED BY <1>0, <3>1, <3>2 DEF WriterInv
  <2>. QED BY <1>0, <2>1 DEF WriterInv
<1>1. ASSUME NEW t \in Tasks, Moves(t), UNCHANGED dir, ~ HasCopy(t)',
             UNCHANGED <<clash, stale>> \/ Return(t)
      PROVE  WriterInv'
  <2>1. ASSUME NEW u \in Tasks \ {t}
        PROVE  /\ u \in stale => u \in stale'
               /\ HasCopy(u) /\ file[u] \in clash => file[u] \in clash'
    BY <1>1 DEF Return, HasCopy, Writing
  <2>. QED BY <1>0, <1>1, <2>1
<1>2. ASSUME NEW t \in Tasks, Lookup(t) PROVE WriterInv'
  <2>1. dir \in [Slots -> Entry] /\ file[t] \in Names /\ len[t] \in Sizes
    BY <1>2 DEF Lookup, TypeInv, TypeOK, LengthOK
  <2>. DEFINE l == Located(dir, t)
  <2>2. /\ l.at \in Slots
        /\ \A q \in Slots \ {l.at} : l.copy[q] = dir[q]
        /\ l.copy[l.at].size = len[t]
        /\ ~ l.full => l.copy[l.at].attributes # 0
    BY <2>1, LocatedIs, LocatedEntry
  <2>3. /\ es' = [es EXCEPT ![t] = l.copy]
        /\ index' = [index EXCEPT ![t] = l.at]
        /\ damage' = damage \cup
             (IF l.full THEN {"full"} ELSE IF l.copy[l.at].name # file[t] THEN {"alias"} ELSE {})
        /\ pc' = [pc EXCEPT ![t] = IF len[t] > ClusterSize THEN "hang"
                                   ELSE IF l.copy[l.at].cluster = 0 THEN "fatread"
                                   ELSE "dirwrite"]
        /\ UNCHANGED <<dir, file, len, clash, stale>>
    BY <1>2 DEF Lookup, disk
  <2>. HIDE DEF l
  <2>4. ~ l.full /\ l.copy[l.at].name = file[t]
    BY <2>3
  <2>5. /\ es'[t] = l.copy /\ index'[t] = l.at
        /\ pc'[t] \in {"hang", "fatread", "dirwrite"}
        /\ pc'[t] = "dirwrite" => l.copy[l.at].cluster # 0
    BY <2>3 DEF TypeInv, TypeOK
  <2>6. Own(t)'
    BY <2>2, <2>3, <2>4, <2>5 DEF HasCopy
  <2>. QED BY <1>0, <1>2, <2>3, <2>6 DEF Moves
<1>3. ASSUME NEW t \in Tasks, FatRead(t) PROVE WriterInv'
  <2>1. PICK c : es' = [es EXCEPT ![t][index[t]].cluster = c] /\ c # 0
    <3>1. PICK free \in SUBSET Scanned :
            LET c == IF free = {} THEN 0 ELSE Min(free) IN
              /\ es' = [es EXCEPT ![t][index[t]].cluster = c]
              /\ damage' = damage \cup
                   (IF c = 0 THEN {"nocluster"} ELSE IF c \in Referred THEN {"collision"} ELSE {})
      BY <1>3 DEF FatRead
    <3>. DEFINE c == IF free = {} THEN 0 ELSE Min(free)
    <3>2. /\ es' = [es EXCEPT ![t][index[t]].cluster = c]
          /\ damage' = damage \cup
               (IF c = 0 THEN {"nocluster"} ELSE IF c \in Referred THEN {"collision"} ELSE {})
      BY <3>1
    <3>. HIDE DEF c
    <3>. QED BY <3>2
  <2>2. /\ pc[t] = "fatread" /\ pc'[t] = "fatwrite"
        /\ UNCHANGED <<dir, file, len, index, clash, stale>>
    BY <1>3 DEF FatRead, disk, TypeInv, TypeOK
  <2>3. /\ index[t] \in Slots
        /\ \A q \in Slots \ {index[t]} : es'[t][q] = es[t][q]
        /\ es'[t][index[t]].cluster = c
        /\ es'[t][index[t]].size = es[t][index[t]].size
        /\ es'[t][index[t]].name = es[t][index[t]].name
        /\ es'[t][index[t]].attributes = es[t][index[t]].attributes
    BY <2>1 DEF TypeInv, TypeOK, Entry
  <2>4. Own(t)
    BY DEF WriterInv
  <2>5. Own(t)'
    BY <2>1, <2>2, <2>3, <2>4 DEF HasCopy
  <2>. QED BY <1>0, <1>3, <2>2, <2>5 DEF Moves
<1>4. ASSUME NEW t \in Tasks, FatWrite(t) PROVE WriterInv'
  <2>1. /\ pc[t] = "fatwrite" /\ pc'[t] = "dirwrite"
        /\ UNCHANGED <<dir, file, len, es, index, clash, stale>>
    BY <1>4 DEF FatWrite, disk, TypeInv, TypeOK
  <2>2. Own(t)
    BY DEF WriterInv
  <2>3. Own(t)'
    BY <2>1, <2>2 DEF HasCopy
  <2>. QED BY <1>0, <1>4, <2>1, <2>3 DEF Moves
<1>5. ASSUME NEW t \in Tasks, DirWrite(t) PROVE WriterInv'
  <2>1. /\ pc[t] = "dirwrite" /\ pc'[t] = "datawrite" /\ dir' = es[t]
        /\ UNCHANGED <<file, len, es, index, clash>>
        /\ stale' = (stale \ {t}) \cup
             {u \in Tasks \ {t} : pc[u] \in {"fatread", "fatwrite", "dirwrite"}}
        /\ t \notin stale
    BY <1>5 DEF DirWrite, TypeInv, TypeOK
  <2>2. Own(t)
    BY DEF WriterInv
  <2>3. Own(t)'
    BY <2>1, <2>2 DEF HasCopy
  <2>4. ASSUME NEW u \in Tasks \ {t} PROVE Own(u)'
    <3>1. pc'[u] = pc[u] /\ (HasCopy(u)' <=> HasCopy(u))
      BY <1>5, OthersRest DEF HasCopy, Moves
    <3>2. Own(u) /\ index[u] \in Slots
      BY DEF WriterInv, TypeInv, TypeOK
    <3>3. HasCopy(u) /\ pc[u] # "datawrite" => u \in stale'
      BY <2>1 DEF HasCopy
    <3>4. ASSUME pc[u] = "datawrite", file[u] \notin clash
          PROVE  dir'[index[u]] = es[u][index[u]]
      <4>1. dir[index[u]] = es[u][index[u]]
        BY <3>2, <3>4 DEF HasCopy
      <4>2. CASE index[u] # index[t]
        BY <2>1, <2>2, <3>2, <4>1, <4>2 DEF HasCopy
      <4>3. CASE index[u] = index[t]
        <5>1. dir[index[t]].attributes # 0 /\ dir[index[t]].name = file[u]
          BY <3>2, <3>4, <4>1, <4>3 DEF HasCopy
        <5>2. Keeps(dir, es[t])
          BY <2>1 DEF CopiesInv
        <5>3. es[t][index[t]].name = file[u]
          BY <3>2, <4>3, <5>1, <5>2 DEF Keeps
        <5>4. file[t] = file[u]
          BY <2>1, <2>2, <5>3 DEF HasCopy
        <5>5. file[u] \in clash
          BY <2>1, <3>4, <5>4 DEF ClashInv, Writing
        <5>. QED BY <3>4, <5>5
      <4>. QED BY <4>2, <4>3
    <3>. QED BY <2>1, <3>1, <3>2, <3>3, <3>4
  <2>. QED BY <2>3, <2>4 DEF WriterInv
<1>6. ASSUME NEW t \in Tasks, Moves(t) PROVE WriterInv'
  <2>1. CASE Return(t) /\ UNCHANGED dir
    <3>1. ~ HasCopy(t)'
      BY <2>1 DEF Return, HasCopy, TypeInv, TypeOK
    <3>. QED BY <1>1, <1>6, <2>1, <3>1
  <2>2. CASE \E f \in Files : Read(t, f)
    BY <1>1, <1>6, <2>2 DEF Read, HasCopy, TypeInv, TypeOK, disk
  <2>3. CASE \E f \in Files : \E n \in Sizes : Write(t, f, n)
    <3>1. /\ ~ HasCopy(t)' /\ UNCHANGED <<dir, stale>>
          /\ clash \subseteq clash'
      BY <2>3 DEF Write, HasCopy, TypeInv, TypeOK, disk
    <3>. QED BY <1>0, <1>6, <3>1
  <2>4. CASE Fail(t) \/ DataWrite(t) \/ ReadData(t)
    BY <2>1, <2>4 DEF Fail, DataWrite, ReadData, disk
  <2>5. CASE ReadLookup(t) /\ ~ Fail(t)
    <3>1. pc' = [pc EXCEPT ![t] = "readdata"] /\ UNCHANGED <<dir, clash, stale>>
      BY <2>5 DEF ReadLookup, disk
    <3>. QED BY <1>1, <1>6, <3>1 DEF HasCopy, TypeInv, TypeOK
  <2>. QED BY <1>2, <1>3, <1>4, <1>5, <1>6, <2>2, <2>3, <2>4, <2>5 DEF Moves, TransferFails
<1>7. CASE Reboot
  BY <1>7 DEF Reboot, WriterInv, HasCopy
<1>8. CASE UNCHANGED vars
  BY <1>8 DEF vars, disk, local, WriterInv, HasCopy
<1>. QED BY <1>6, <1>7, <1>8, StepIs

-----------------------------------------------------------------------------
(* A file that has a cluster keeps it, so what a reader knows of it stays true. *)
LEMMA NextReader ==
  ASSUME TypeInv, CopiesInv, ReaderInv, [Next]_vars, damage' = {}
  PROVE  ReaderInv'
<1>. DEFINE Knows(t) ==
       pc[t] = "readdata" /\ es[t][index[t]].name = file[t] /\ es[t][index[t]].cluster # 0 =>
         /\ dir[index[t]].name = file[t]
         /\ dir[index[t]].attributes # 0
         /\ dir[index[t]].cluster = es[t][index[t]].cluster
<1>1. ASSUME NEW t \in Tasks, Moves(t), pc'[t] # "readdata", UNCHANGED dir PROVE ReaderInv'
  <2>1. ASSUME NEW u \in Tasks \ {t} PROVE Knows(u)'
    <3>1. Knows(u)
      BY DEF ReaderInv
    <3>. QED BY <1>1, <3>1, OthersRest
  <2>. QED BY <1>1, <2>1 DEF ReaderInv
<1>2. ASSUME NEW t \in Tasks, ReadLookup(t), ~ Fail(t) PROVE ReaderInv'
  <2>1. PICK q \in Matches(dir, file[t]) :
          /\ index' = [index EXCEPT ![t] = q] /\ es' = [es EXCEPT ![t] = dir]
          /\ UNCHANGED <<dir, file>>
    <3>1. Matches(dir, file[t]) # {} /\ Matches(dir, file[t]) \subseteq Slots
      BY <1>2 DEF ReadLookup, Matches
    <3>2. Max(Matches(dir, file[t])) \in Matches(dir, file[t])
      BY <3>1, SlotChosen
    <3>. QED BY <1>2, <3>2 DEF ReadLookup, disk
  <2>2. index'[t] = q /\ es'[t] = dir /\ dir[q].attributes # 0
    BY <2>1 DEF Matches, TypeInv, TypeOK
  <2>3. Knows(t)'
    BY <2>1, <2>2
  <2>4. ASSUME NEW u \in Tasks \ {t} PROVE Knows(u)'
    <3>1. Knows(u)
      BY DEF ReaderInv
    <3>. QED BY <1>2, <2>1, <3>1, OthersRest DEF Moves
  <2>. QED BY <2>3, <2>4 DEF ReaderInv
<1>3. ASSUME NEW t \in Tasks, DirWrite(t) PROVE ReaderInv'
  <2>1. /\ pc[t] = "dirwrite" /\ pc'[t] = "datawrite" /\ dir' = es[t] /\ t \notin stale
        /\ UNCHANGED <<file, es, index>>
    BY <1>3 DEF DirWrite, TypeInv, TypeOK
  <2>2. Keeps(dir, es[t])
    BY <2>1 DEF CopiesInv
  <2>3. ASSUME NEW u \in Tasks PROVE Knows(u)'
    <3>1. pc'[u] = "readdata" => pc[u] = "readdata"
      BY <1>3, <2>1, OthersRest DEF Moves
    <3>2. Knows(u) /\ index[u] \in Slots
      BY DEF ReaderInv, TypeInv, TypeOK
    <3>. QED BY <2>1, <2>2, <3>1, <3>2 DEF Keeps
  <2>. QED BY <2>3 DEF ReaderInv
<1>4. ASSUME NEW t \in Tasks, Moves(t) PROVE ReaderInv'
  <2>1. CASE Fail(t) \/ DataWrite(t) \/ ReadData(t)
    BY <1>1, <1>4, <2>1 DEF Fail, DataWrite, ReadData, disk, Return, TypeInv, TypeOK
  <2>2. CASE \/ \E f \in Files : Read(t, f) \/ \E n \in Sizes : Write(t, f, n)
             \/ FatRead(t) \/ FatWrite(t)
    BY <1>1, <1>4, <2>2 DEF Read, Write, FatRead, FatWrite, disk, TypeInv, TypeOK
  <2>3. CASE Lookup(t)
    <3>1. PICK c \in {"hang", "fatread", "dirwrite"} : pc' = [pc EXCEPT ![t] = c]
      BY <2>3 DEF Lookup
    <3>. QED BY <1>1, <1>4, <2>3, <3>1 DEF Lookup, disk, TypeInv, TypeOK
  <2>. QED BY <1>2, <1>3, <1>4, <2>1, <2>2, <2>3 DEF Moves, TransferFails
<1>5. CASE Reboot
  BY <1>5 DEF Reboot, ReaderInv
<1>6. CASE UNCHANGED vars
  BY <1>6 DEF vars, disk, local, ReaderInv
<1>. QED BY <1>4, <1>5, <1>6, StepIs

-----------------------------------------------------------------------------
LEMMA InitKept == Init => KeptInv
<1>. SUFFICES ASSUME Init, NEW f \in Files, committed[f] # Unknown PROVE Kept(f)
  BY DEF KeptInv
<1>1. CASE Named(dir, f) = {}
  BY <1>1 DEF Init, Kept
<1>2. CASE Named(dir, f) # {}
  <2>. DEFINE q == Max(Named(dir, f))
  <2>1. committed[f] = [size |-> dir[q].size, version |-> 0]
    BY <1>2 DEF Init
  <2>2. q \in Named(dir, f)
    BY <1>2, SlotChosen DEF Named
  <2>. HIDE DEF q
  <2>3. q \in Slots /\ dir[q] \in Entries
    <3>1. dir \in [Slots -> Entries \cup {Blank}]
      BY DEF Init
    <3>. QED BY <2>2, <3>1 DEF Named, Blank
  <2>4. dir[q].cluster \in Clusters /\ dir[q].size \in Nat
    BY <2>3, EntriesAssumption, Numbers
  <2>5. SectorsRead(dir[q].size) <= SectorsPerCluster
    BY <2>3, FitAssumption
  <2>6. \A s \in 0 .. SectorsRead(dir[q].size) - 1 : s \in 0 .. SectorsPerCluster - 1
    BY <2>4, <2>5, ReadWhatIsWritten, GeometryAssumption
  <2>7. \A s \in 0 .. SectorsRead(dir[q].size) - 1 : data[FirstSector(dir[q].cluster) + s] = 0
    BY <2>4, <2>6, SectorsOfClusters DEF Init
  <2>8. committed[f] # Absent
    BY <2>1, <2>4 DEF Absent
  <2>. QED BY <2>1, <2>2, <2>5, <2>7, <2>8 DEF Kept
<1>. QED BY <1>1, <1>2

(* A write of the directory leaves the entries of other files alone. *)
LEMMA DirWriteKeeps ==
  ASSUME TypeInv, ClashInv, CopiesInv, WriterInv, KeptInv,
         NEW t \in Tasks, DirWrite(t), damage' = {}
  PROVE  KeptInv'
<1>1. /\ pc[t] = "dirwrite" /\ dir' = es[t] /\ t \notin stale
      /\ UNCHANGED <<data, committed>>
  BY DEF DirWrite
<1>2. /\ es[t][index[t]].name = file[t]
      /\ \A q \in Slots \ {index[t]} : es[t][q] = dir[q]
      /\ index[t] \in Slots
  BY <1>1 DEF WriterInv, HasCopy, TypeInv, TypeOK
<1>3. Keeps(dir, es[t])
  BY <1>1 DEF CopiesInv
<1>. SUFFICES ASSUME NEW f \in Files, committed'[f] # Unknown PROVE Kept(f)'
  BY DEF KeptInv
<1>4. committed'[f] = committed[f] /\ Kept(f)
  BY <1>1 DEF KeptInv
<1>5. f # file[t]
  BY <1>1, <1>4 DEF ClashInv, Writing
<1>6. \A q \in Slots : dir'[q].attributes # 0 /\ dir'[q].name = f => dir'[q] = dir[q]
  BY <1>1, <1>2, <1>5
<1>7. \A q \in Named(dir, f) : dir'[q] = dir[q]
  BY <1>1, <1>2, <1>3, <1>5 DEF Named, Keeps
<1>8. Named(dir, f)' = Named(dir, f)
  BY <1>6, <1>7 DEF Named
<1>. QED BY <1>1, <1>4, <1>7, <1>8 DEF Kept

(* The sectors of a write are those of its cluster, and no other file has any of them. *)
LEMMA DataWriteKeeps ==
  ASSUME TypeInv, ClashInv, ApartInv, WriterInv, KeptInv,
         NEW t \in Tasks, DataWrite(t), damage' = {}
  PROVE  KeptInv'
<1>. DEFINE c == es[t][index[t]].cluster
<1>. DEFINE n == SectorsWritten(len[t])
<1>1. /\ pc[t] = "datawrite" /\ UNCHANGED dir
      /\ n <= SectorsPerCluster
      /\ data' = [s \in Sectors |-> IF s \in FirstSector(c) .. FirstSector(c) + n - 1
                                    THEN version[t] ELSE data[s]]
      /\ committed' = [committed EXCEPT ![file[t]] =
                         IF file[t] \in clash THEN Unknown
                         ELSE [size |-> len[t], version |-> version[t]]]
  <2>1. ~ (SectorsWritten(len[t]) > SectorsPerCluster)
    BY DEF DataWrite
  <2>2. n \in Nat /\ SectorsPerCluster \in Nat
    BY ReadWhatIsWritten, GeometryAssumption DEF TypeInv, TypeOK
  <2>. HIDE DEF n, c
  <2>3. n <= SectorsPerCluster
    BY <2>1, <2>2 DEF n
  <2>. QED BY <2>3 DEF DataWrite, n, c
<1>2. /\ HasCopy(t) /\ index[t] \in Slots
      /\ es[t][index[t]].name = file[t] /\ es[t][index[t]].attributes # 0
      /\ es[t][index[t]].size = len[t] /\ c # 0
      /\ file[t] \notin clash => dir[index[t]] = es[t][index[t]]
  BY <1>1 DEF WriterInv, HasCopy, TypeInv, TypeOK
<1>3. c \in Clusters /\ len[t] \in Nat /\ file[t] \in Files /\ n \in Nat \ {0}
  <2>1. es[t][index[t]] \in Entry
    BY <1>2 DEF TypeInv, TypeOK
  <2>2. len[t] \in Nat
    BY DEF TypeInv, TypeOK
  <2>. QED BY <1>1, <2>1, <2>2, ReadWhatIsWritten DEF Entry, ClashInv
<1>. HIDE DEF c, n
<1>. SUFFICES ASSUME NEW f \in Files, committed'[f] # Unknown PROVE Kept(f)'
  BY DEF KeptInv
<1>4. CASE f = file[t]
  <2>1. committed'[f] = [size |-> len[t], version |-> version[t]] /\ file[t] \notin clash
    BY <1>1, <1>4 DEF TypeInv, TypeOK
  <2>2. /\ dir'[index[t]].size = len[t] /\ dir'[index[t]].cluster = c
        /\ index[t] \in Named(dir, f)'
    BY <1>1, <1>2, <1>4, <2>1 DEF Named, c
  <2>3. SectorsRead(len[t]) \in Nat /\ SectorsRead(len[t]) <= n
    BY <1>3, ReadWhatIsWritten DEF n
  <2>4. SectorsRead(len[t]) <= SectorsPerCluster
    BY <1>1, <1>3, <2>3, GeometryAssumption
  <2>5. ASSUME NEW s \in 0 .. SectorsRead(len[t]) - 1 PROVE data'[FirstSector(c) + s] = version[t]
    <3>1. s \in 0 .. SectorsPerCluster - 1 /\ s \in 0 .. n - 1
      BY <1>3, <2>3, <2>4, GeometryAssumption
    <3>2. FirstSector(c) + s \in Sectors
      BY <1>3, <3>1, SectorsOfClusters
    <3>3. FirstSector(c) \in Nat
      BY <1>3, GeometryAssumption DEF FirstSector, Clusters
    <3>4. FirstSector(c) + s \in FirstSector(c) .. FirstSector(c) + n - 1
      BY <1>3, <3>1, <3>3
    <3>. QED BY <1>1, <3>2, <3>4
  <2>6. committed'[f] # Absent /\ committed'[f].size = len[t] /\ committed'[f].version = version[t]
    BY <1>3, <2>1 DEF Absent
  <2>. QED BY <2>2, <2>4, <2>5, <2>6 DEF Kept
<1>5. CASE f # file[t]
  <2>1. committed'[f] = committed[f] /\ Kept(f) /\ Named(dir, f)' = Named(dir, f)
    BY <1>1, <1>5 DEF TypeInv, TypeOK, KeptInv, Named
  <2>2. CASE committed[f] = Absent
    BY <2>1, <2>2 DEF Kept
  <2>3. CASE committed[f] # Absent
    <3>1. PICK q \in Named(dir, f) :
            /\ dir[q].size = committed[f].size
            /\ SectorsRead(dir[q].size) <= SectorsPerCluster
            /\ \A s \in 0 .. SectorsRead(dir[q].size) - 1 :
                 data[FirstSector(dir[q].cluster) + s] = committed[f].version
      BY <2>1, <2>3 DEF Kept
    <3>2. /\ q \in Slots /\ dir[q].attributes # 0 /\ dir[q].name = f
          /\ dir[q].cluster \in Clusters /\ dir[q].size \in Nat
      BY <3>1, Numbers DEF Named, TypeInv, TypeOK, Entry
    <3>3. dir[q].cluster # c
      <4>1. Apart(dir, es[t])
        BY <1>2 DEF ApartInv, Views
      <4>. QED BY <1>2, <1>3, <1>5, <3>2, <4>1 DEF Apart, c
    <3>4. ASSUME NEW s \in 0 .. SectorsRead(dir[q].size) - 1
          PROVE  data'[FirstSector(dir[q].cluster) + s] = data[FirstSector(dir[q].cluster) + s]
      <4>1. s \in 0 .. SectorsPerCluster - 1
        BY <3>1, <3>2, ReadWhatIsWritten, GeometryAssumption
      <4>2. FirstSector(dir[q].cluster) + s \in Sectors
        BY <3>2, <4>1, SectorsOfClusters
      <4>3. ASSUME FirstSector(dir[q].cluster) + s \in FirstSector(c) .. FirstSector(c) + n - 1
            PROVE  FALSE
        <5>. DEFINE x == FirstSector(dir[q].cluster) + s
        <5>1. FirstSector(c) \in Nat /\ x \in FirstSector(c) .. FirstSector(c) + n - 1
          BY <1>3, <4>3, GeometryAssumption DEF FirstSector, Clusters
        <5>. HIDE DEF x
        <5>2. PICK r \in 0 .. SectorsPerCluster - 1 : x = FirstSector(c) + r
          <6>1. x - FirstSector(c) \in 0 .. SectorsPerCluster - 1
            BY <1>1, <1>3, <5>1, GeometryAssumption
          <6>2. x = FirstSector(c) + (x - FirstSector(c))
            BY <5>1
          <6>. QED BY <6>1, <6>2
        <5>. QED BY <1>3, <3>2, <3>3, <4>1, <5>2, SectorsOfClusters DEF x
      <4>. QED BY <1>1, <4>2, <4>3
    <3>5. dir' = dir
      BY <1>1
    <3>. QED BY <2>1, <2>3, <3>1, <3>4, <3>5 DEF Kept
  <2>. QED BY <2>2, <2>3
<1>. QED BY <1>4, <1>5

LEMMA NextKept ==
  ASSUME TypeInv, ClashInv, CopiesInv, ApartInv, WriterInv, KeptInv, [Next]_vars, damage' = {}
  PROVE  KeptInv'
<1>1. CASE UNCHANGED <<dir, data, committed>>
  BY <1>1 DEF KeptInv, Kept, Named
<1>2. ASSUME NEW t \in Tasks, NEW f \in Files, NEW n \in Sizes, Write(t, f, n) PROVE KeptInv'
  <2>1. committed' = [committed EXCEPT ![f] = Unknown] /\ UNCHANGED <<dir, data>>
    BY <1>2 DEF Write, disk
  <2>2. \A g \in Files : committed'[g] # Unknown => committed'[g] = committed[g]
    BY <2>1 DEF TypeInv, TypeOK
  <2>. QED BY <2>1, <2>2 DEF KeptInv, Kept, Named
<1>3. ASSUME NEW t \in Tasks, Moves(t) PROVE KeptInv'
  <2>1. CASE \/ \E f \in Files : Read(t, f)
             \/ Lookup(t) \/ FatRead(t) \/ FatWrite(t) \/ ReadLookup(t) \/ ReadData(t) \/ Fail(t)
    BY <1>1, <2>1 DEF Read, Lookup, FatRead, FatWrite, ReadLookup, ReadData, Fail, disk
  <2>. QED BY <1>2, <1>3, <2>1, DirWriteKeeps, DataWriteKeeps DEF Moves, TransferFails
<1>4. CASE Reboot \/ UNCHANGED vars
  BY <1>1, <1>4 DEF Reboot, vars, disk
<1>. QED BY <1>3, <1>4, StepIs

-----------------------------------------------------------------------------
LEMMA DataIsSafe == Spec => [](TypeInv /\ NamesInv /\ CopiesInv /\ DataInv)
<1>1. Init => DataInv
  BY InitClash, InitApart, InitKept DEF DataInv, Init, WriterInv, ReaderInv, HasCopy
<1>2. TypeInv /\ CopiesInv /\ DataInv /\ [Next]_vars => DataInv'
  <2>. SUFFICES ASSUME TypeInv, CopiesInv, DataInv, [Next]_vars PROVE DataInv'
    OBVIOUS
  <2>1. ClashInv /\ ClashInv'
    BY NextClash DEF DataInv
  <2>2. ASSUME damage' = {} PROVE ApartInv' /\ WriterInv' /\ ReaderInv' /\ KeptInv'
    <3>1. damage = {}
      BY <2>2, DamageStays
    <3>2. ApartInv /\ WriterInv /\ ReaderInv /\ KeptInv
      BY <3>1 DEF DataInv
    <3>3. \A t \in Tasks : pc[t] # "idle" => file[t] \in Files
      BY <2>1 DEF ClashInv
    <3>. QED BY <2>1, <2>2, <3>2, <3>3, NextApart, NextWriter, NextReader, NextKept
  <2>. QED BY <2>1, <2>2 DEF DataInv
<1>3. Init => CopiesInv
  BY DEF Init, CopiesInv
<1>. QED BY <1>1, <1>2, <1>3, Types, InitNames, NextNames, NextCopies, PTL DEF Spec

(* What a completed write stored is read back and what was not written stays away,  *)
(* through failures and reboots and for any tasks, files and geometry, unless one   *)
(* of the six things is noted in damage.                                            *)
THEOREM WritesAreDurable == Spec => []WrittenIsReadBack
<1>1. DataInv => WrittenIsReadBack
  <2>. SUFFICES ASSUME DataInv, damage = {}, NEW f \in Files, committed[f] # Unknown PROVE Intact(f)
    BY DEF WrittenIsReadBack
  <2>1. Kept(f)
    BY DEF DataInv, KeptInv
  <2>. QED BY <2>1 DEF Kept, Intact
<1>. QED BY <1>1, DataIsSafe, PTL

(* A reader that has found its file reads that file's last completed write, however *)
(* many writes of any file come between its two transfers.                          *)
THEOREM ReadersAreRight == Spec => []ReaderSeesTheFile
<1>1. TypeInv /\ NamesInv /\ DataInv => ReaderSeesTheFile
  <2>. SUFFICES ASSUME TypeInv, NamesInv, DataInv, damage = {}, NEW t \in Tasks,
                       pc[t] = "readdata", es[t][index[t]].name = file[t],
                       es[t][index[t]].cluster # 0,
                       committed[file[t]] \notin {Unknown, Absent},
                       NEW s \in 0 .. Min({len[t], SectorsRead(committed[file[t]].size)}) - 1
                PROVE  data[FirstSector(es[t][index[t]].cluster) + s] = committed[file[t]].version
    BY DEF ReaderSeesTheFile
  <2>1. /\ file[t] \in Files /\ index[t] \in Slots
        /\ dir[index[t]].name = file[t] /\ dir[index[t]].attributes # 0
        /\ dir[index[t]].cluster = es[t][index[t]].cluster
    BY DEF DataInv, ClashInv, ReaderInv, TypeInv, TypeOK
  <2>2. PICK q \in Named(dir, file[t]) :
          /\ dir[q].size = committed[file[t]].size
          /\ \A r \in 0 .. SectorsRead(dir[q].size) - 1 :
               data[FirstSector(dir[q].cluster) + r] = committed[file[t]].version
    BY <2>1 DEF DataInv, KeptInv, Kept
  <2>3. q = index[t]
    BY <2>1, <2>2 DEF NamesInv, Distinct, Named
  <2>4. s \in 0 .. SectorsRead(committed[file[t]].size) - 1
    <3>. DEFINE a == len[t]
    <3>. DEFINE b == SectorsRead(committed[file[t]].size)
    <3>1. committed[file[t]].size \in Nat
      BY <2>2, Numbers DEF Named, TypeInv, TypeOK, Entry
    <3>2. a \in Nat /\ b \in Nat
      BY <3>1, ReadWhatIsWritten DEF TypeInv, TypeOK
    <3>3. s \in 0 .. Min({a, b}) - 1
      OBVIOUS
    <3>. HIDE DEF a, b
    <3>4. Min({a, b}) \in {a, b} /\ Min({a, b}) <= b
      BY <3>2, MinOf
    <3>5. Min({a, b}) \in Nat
      BY <3>2, <3>4
    <3>6. s \in 0 .. b - 1
      BY <3>2, <3>3, <3>4, <3>5
    <3>. QED BY <3>6 DEF b
  <2>. QED BY <2>1, <2>2, <2>3, <2>4
<1>. QED BY <1>1, DataIsSafe, PTL
=============================================================================
