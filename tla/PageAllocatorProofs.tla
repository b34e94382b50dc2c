------------------------ MODULE PageAllocatorProofs ------------------------
(***************************************************************************)
(* Proofs about PageAllocator, for any number of pages, tasks, network     *)
(* cards and programs.                                                     *)
(***************************************************************************)
EXTENDS PageAllocator, TLAPS

-----------------------------------------------------------------------------
(* Type correctness, with the fact that a caller that is about to take a    *)
(* page stands at a page of the map.                                        *)
TypeInv == TypeOK /\ TakesWhatItAskedFor

LEMMA GrantType ==
  ASSUME TypeOK, NEW a \in Actors, NEW p \in Pages, Grant(a, p)
  PROVE  grants' \in [Actors -> [Pages -> Nat]]
BY DEF TypeOK, Grant

LEMMA InitType == Init => TypeInv
BY SizeAssumption DEF Init, TypeInv, TypeOK, TakesWhatItAskedFor, Pages, Actors, Kinds

LEMMA StepType == TypeInv /\ [Next]_vars => TypeInv'
<1> SUFFICES ASSUME TypeInv, [Next]_vars PROVE TypeInv'
  OBVIOUS
<1> USE SizeAssumption DEF TypeInv, TypeOK, TakesWhatItAskedFor, Suits
<1>1. ASSUME NEW t \in Tasks, NEW kind \in Kinds, Request(t, kind) PROVE TypeInv'
  BY <1>1 DEF Request
<1>2. ASSUME NEW t \in Tasks, Test(t) PROVE TypeInv'
  <2>1. cursor' \in [Tasks -> 0 .. NPages]
    <3>1. cursor[t] \in 0 .. NPages /\ cursor[t] < NPages
      BY <1>2 DEF Test
    <3>2. cursor[t] + 1 \in 0 .. NPages
      BY <3>1
    <3> QED
      BY <1>2, <3>2 DEF Test
  <2>2. pc' \in [Tasks -> {"idle", "test", "take", "spin"}]
    BY <1>2 DEF Test
  <2>3. TakesWhatItAskedFor'
    BY <1>2 DEF Test
  <2> QED
    BY <1>2, <2>1, <2>2, <2>3 DEF Test
<1>3. ASSUME NEW t \in Tasks, Take(t) PROVE TypeInv'
  <2>1. cursor[t] \in Pages
    BY <1>3 DEF Take, Pages
  <2>2. grants' \in [Actors -> [Pages -> Nat]]
    BY <1>3, <2>1, GrantType DEF Take, Actors
  <2>3. memorymap' \in [Pages -> {0, 1}]
    BY <1>3 DEF Take
  <2>4. cursor' \in [Tasks -> 0 .. NPages] /\ want' \in [Tasks -> Kinds]
    BY <1>3 DEF Take, Kinds
  <2>5. TakesWhatItAskedFor'
    BY <1>3 DEF Take
  <2> QED
    BY <1>3, <2>1, <2>2, <2>3, <2>4, <2>5 DEF Take
<1>4. ASSUME NEW t \in Tasks, Exhausted(t) PROVE TypeInv'
  BY <1>4 DEF Exhausted
<1>5. ASSUME NEW t \in Tasks, NEW p \in Pages, FreePage(t, p) PROVE TypeInv'
  <2>1. grants[t][p] \in Nat /\ grants[t][p] > 0
    BY <1>5 DEF FreePage, Held, Actors
  <2>2. grants[t][p] - 1 \in Nat
    BY <2>1
  <2>3. grants' \in [Actors -> [Pages -> Nat]]
    BY <1>5, <2>2 DEF FreePage, Actors
  <2> QED
    BY <1>5, <2>3 DEF FreePage
<1>6. ASSUME NEW t \in Tasks, NEW s \in Stacks, AddTaskStack(t, s) PROVE TypeInv'
  <2>1. grants' \in [Actors -> [Pages -> Nat]]
    BY <1>6, GrantType DEF AddTaskStack, Halt, FreePages, Actors
  <2> QED
    BY <1>6, <2>1 DEF AddTaskStack, Halt, FreePages
<1>7. ASSUME NicReply PROVE TypeInv'
  BY <1>7 DEF NicReply, Halt
<1>8. ASSUME NEW n \in Nics, NicTcpReply(n) PROVE TypeInv'
  <2>1. grants' \in [Actors -> [Pages -> Nat]]
    BY <1>8, GrantType DEF NicTcpReply, Halt, FreePages, Actors
  <2> QED
    BY <1>8, <2>1 DEF NicTcpReply, Halt, FreePages
<1>9. CASE UNCHANGED vars
  BY <1>9 DEF vars
<1> QED
  BY <1>1, <1>2, <1>3, <1>4, <1>5, <1>6, <1>7, <1>8, <1>9 DEF Next

(* The map holds bytes, the cursor never leaves 0 .. NPages and the ghosts   *)
(* count grants, in every reachable state of requestPage and freePage.       *)
THEOREM TypeCorrect == Spec => []TypeOK
<1>1. TypeInv => TypeOK
  BY DEF TypeInv
<1> QED
  BY InitType, StepType, <1>1, PTL DEF Spec

(* requestBigPage hands out aligned pages only, whoever preempts it.         *)
THEOREM AlignedRequests == Spec => []TakesWhatItAskedFor
<1>1. TypeInv => TakesWhatItAskedFor
  BY DEF TypeInv
<1> QED
  BY InitType, StepType, <1>1, PTL DEF Spec

-----------------------------------------------------------------------------
(* Who holds what.  MapExact and SharedOnlyByRace are inductive together.    *)
RaceInv == TypeInv /\ SharedOnlyByRace /\ MapExact

LEMMA InitRace == Init => RaceInv
<1> SUFFICES ASSUME Init PROVE RaceInv
  OBVIOUS
<1>1. \A a \in Actors : \A p \in Pages : ~Held(a, p)
  BY DEF Init, Held
<1>2. SharedOnlyByRace /\ MapExact
  BY <1>1 DEF Init, SharedOnlyByRace, MapExact
<1> QED
  BY InitType, <1>2 DEF RaceInv

(* What one grant changes: only the pair it names. *)
LEMMA GrantEffect ==
  ASSUME TypeOK, NEW a \in Actors, NEW p \in Pages, Grant(a, p)
  PROVE  /\ grants'[a][p] = grants[a][p] + 1
         /\ Held(a, p)'
         /\ \A b \in Actors : \A q \in Pages :
              b # a \/ q # p => grants'[b][q] = grants[b][q] /\ (Held(b, q)' <=> Held(b, q))
BY DEF TypeOK, Grant, Held

(* Taking a page keeps both invariants when the page is free, or raced.      *)
LEMMA TakingPage ==
  ASSUME TypeOK, SharedOnlyByRace, MapExact,
         NEW a \in Actors, NEW p \in Pages, Grant(a, p),
         memorymap' = [memorymap EXCEPT ![p] = 1],
         raced \subseteq raced', raced' \subseteq Pages,
         memorymap[p] = 0 \/ p \in raced'
  PROVE  SharedOnlyByRace' /\ MapExact'
<1>1. ASSUME NEW q \in Pages \ raced', q # p
      PROVE  /\ memorymap'[q] = 1 <=> \E b \in Actors : Held(b, q)'
             /\ \A b, c \in Actors : Held(b, q)' /\ Held(c, q)' => b = c /\ grants'[b][q] = 1
  <2>1. q \in Pages \ raced
    BY <1>1
  <2>2. memorymap'[q] = memorymap[q]
    BY <1>1 DEF TypeOK
  <2>3. \A b \in Actors : grants'[b][q] = grants[b][q] /\ (Held(b, q)' <=> Held(b, q))
    BY <1>1, GrantEffect
  <2> QED
    BY <2>1, <2>2, <2>3 DEF SharedOnlyByRace, MapExact
<1>2. ASSUME p \notin raced'
      PROVE  /\ memorymap'[p] = 1 <=> \E b \in Actors : Held(b, p)'
             /\ \A b, c \in Actors : Held(b, p)' /\ Held(c, p)' => b = c /\ grants'[b][p] = 1
  <2>1. \A b \in Actors : ~Held(b, p)
    BY <1>2 DEF MapExact
  <2>2. grants[a][p] = 0
    BY <2>1 DEF Held, TypeOK
  <2>3. grants'[a][p] = 1 /\ Held(a, p)' /\ \A b \in Actors : b # a => ~Held(b, p)'
    BY <2>1, <2>2, GrantEffect
  <2>4. memorymap'[p] = 1
    BY DEF TypeOK
  <2> QED
    BY <2>3, <2>4
<1> QED
  BY <1>1, <1>2 DEF SharedOnlyByRace, MapExact

LEMMA StepRace == RaceInv /\ [Next]_vars => RaceInv'
<1> SUFFICES ASSUME RaceInv, [Next]_vars PROVE SharedOnlyByRace' /\ MapExact'
  BY StepType DEF RaceInv
<1> USE DEF RaceInv
<1>0. TypeOK /\ TakesWhatItAskedFor
  BY DEF TypeInv
<1>1. ASSUME UNCHANGED <<memorymap, grants, raced>> PROVE SharedOnlyByRace' /\ MapExact'
  BY <1>1 DEF SharedOnlyByRace, MapExact, Held
<1>2. ASSUME NEW t \in Tasks, NEW kind \in Kinds, Request(t, kind)
      PROVE  SharedOnlyByRace' /\ MapExact'
  BY <1>1, <1>2 DEF Request
<1>3. ASSUME NEW t \in Tasks, Test(t) PROVE SharedOnlyByRace' /\ MapExact'
  BY <1>1, <1>3 DEF Test
<1>4. ASSUME NEW t \in Tasks, Take(t) PROVE SharedOnlyByRace' /\ MapExact'
  <2>1. cursor[t] \in Pages /\ t \in Actors
    BY <1>0, <1>4, SizeAssumption DEF Take, TakesWhatItAskedFor, TypeOK, Pages, Actors
  <2>2. memorymap[cursor[t]] \in {0, 1}
    BY <1>0, <2>1 DEF TypeOK
  <2>3. raced \subseteq raced' /\ raced' \subseteq Pages
    BY <1>0, <1>4, <2>1 DEF Take, TypeOK
  <2>4. memorymap[cursor[t]] = 0 \/ cursor[t] \in raced'
    BY <1>4, <2>2 DEF Take
  <2> QED
    BY <1>0, <1>4, <2>1, <2>3, <2>4, TakingPage DEF Take
<1>5. ASSUME NEW t \in Tasks, Exhausted(t) PROVE SharedOnlyByRace' /\ MapExact'
  BY <1>1, <1>5 DEF Exhausted
<1>6. ASSUME NEW t \in Tasks, NEW p \in Pages, FreePage(t, p)
      PROVE  SharedOnlyByRace' /\ MapExact'
  <2>0. t \in Actors /\ grants[t][p] \in Nat /\ grants[t][p] > 0
    BY <1>0, <1>6 DEF FreePage, Held, TypeOK, Actors
  <2>1. \A b \in Actors : \A q \in Pages :
          b # t \/ q # p => grants'[b][q] = grants[b][q] /\ (Held(b, q)' <=> Held(b, q))
    BY <1>0, <1>6, <2>0 DEF FreePage, Held, TypeOK
  <2>2. grants'[t][p] = grants[t][p] - 1
    BY <1>0, <1>6, <2>0 DEF FreePage, TypeOK
  <2>3. ASSUME NEW q \in Pages \ raced', q # p
        PROVE  /\ memorymap'[q] = 1 <=> \E b \in Actors : Held(b, q)'
               /\ \A b, c \in Actors : Held(b, q)' /\ Held(c, q)' => b = c /\ grants'[b][q] = 1
    <3>1. q \notin raced
      BY <1>6, <2>3 DEF FreePage
    <3>2. memorymap'[q] = memorymap[q]
      BY <1>0, <1>6, <2>3 DEF FreePage, TypeOK
    <3> QED
      BY <2>1, <2>3, <3>1, <3>2 DEF SharedOnlyByRace, MapExact
  <2>4. ASSUME p \notin raced'
        PROVE  memorymap'[p] = 0 /\ \A b \in Actors : ~Held(b, p)'
    <3>1. memorymap'[p] = 0
      BY <1>0, <1>6 DEF FreePage, TypeOK
    <3>2. grants[t][p] = 1 /\ \A b \in Actors \ {t} : ~Held(b, p)
      <4>1. CASE p \in raced
        BY <1>6, <2>4, <4>1 DEF FreePage
      <4>2. CASE p \notin raced
        BY <2>0, <4>2 DEF SharedOnlyByRace, Held
      <4> QED
        BY <4>1, <4>2
    <3>3. ~Held(t, p)'
      BY <2>2, <3>2 DEF Held
    <3> QED
      BY <2>1, <3>1, <3>2, <3>3
  <2>5. (memorymap'[p] = 0) => (memorymap'[p] # 1)
    OBVIOUS
  <2> QED
    BY <2>3, <2>4, <2>5 DEF SharedOnlyByRace, MapExact
<1>7. ASSUME NEW t \in Tasks, NEW s \in Stacks, AddTaskStack(t, s)
      PROVE  SharedOnlyByRace' /\ MapExact'
  <2>1. CASE UNCHANGED <<memorymap, grants, raced>>
    BY <1>1, <2>1
  <2>2. ASSUME NEW p \in FreePages, Grant(s, p),
               memorymap' = [memorymap EXCEPT ![p] = 1], UNCHANGED raced
        PROVE  SharedOnlyByRace' /\ MapExact'
    BY <1>0, <2>2, TakingPage DEF FreePages, Actors, TypeOK
  <2> QED
    BY <1>7, <2>1, <2>2 DEF AddTaskStack, Halt
<1>8. ASSUME NicReply PROVE SharedOnlyByRace' /\ MapExact'
  BY <1>1, <1>8 DEF NicReply, Halt
<1>9. ASSUME NEW n \in Nics, NicTcpReply(n) PROVE SharedOnlyByRace' /\ MapExact'
  <2>1. CASE UNCHANGED <<memorymap, grants, raced>>
    BY <1>1, <2>1
  <2>2. ASSUME NEW p \in FreePages, Grant(n, p),
               memorymap' = [memorymap EXCEPT ![p] = 1], UNCHANGED raced
        PROVE  SharedOnlyByRace' /\ MapExact'
    BY <1>0, <2>2, TakingPage DEF FreePages, Actors, TypeOK
  <2> QED
    BY <1>9, <2>1, <2>2 DEF NicTcpReply, Halt
<1>10. CASE UNCHANGED vars
  BY <1>1, <1>10 DEF vars
<1> QED
  BY <1>2, <1>3, <1>4, <1>5, <1>6, <1>7, <1>8, <1>9, <1>10 DEF Next

LEMMA RaceInvariant == Spec => []RaceInv
BY InitRace, StepRace, PTL DEF Spec

(* The stale test is the only way two requests get the same page, for any    *)
(* number of preemptible callers, network cards and programs.                *)
THEOREM SharingNeedsTheRace == Spec => []SharedOnlyByRace
<1>1. RaceInv => SharedOnlyByRace
  BY DEF RaceInv
<1> QED
  BY RaceInvariant, <1>1, PTL

(* No page is lost by the allocator and none is handed out unmarked, unless  *)
(* that race has hit the page and its holders have not all returned it.      *)
THEOREM MapIsExact == Spec => []MapExact
<1>1. RaceInv => MapExact
  BY DEF RaceInv
<1> QED
  BY RaceInvariant, <1>1, PTL

-----------------------------------------------------------------------------
(* The boot task alone.  Nothing changes the map under a running request, so *)
(* what it has read of the map stays true until it returns.                  *)
ReadsAreFresh ==
  \A t \in Tasks :
    /\ pc[t] = "idle" => cursor[t] = 0
    /\ pc[t] = "take" => memorymap[cursor[t]] = 0
    /\ pc[t] = "test" =>
         \A p \in Pages : p < cursor[t] /\ Suits(want[t], p) => memorymap[p] = 1

BootInv == RaceInv /\ raced = {} /\ ReadsAreFresh /\ SpinsOnlyWhenFull

LEMMA InitBoot == Init => BootInv
<1> SUFFICES ASSUME Init PROVE BootInv
  OBVIOUS
<1>1. ReadsAreFresh /\ SpinsOnlyWhenFull /\ raced = {}
  BY DEF Init, ReadsAreFresh, SpinsOnlyWhenFull
<1> QED
  BY InitRace, <1>1 DEF BootInv

LEMMA StepBoot ==
  ASSUME Alone
  PROVE  BootInv /\ [Next]_vars => BootInv'
<1> SUFFICES ASSUME BootInv, [Next]_vars
             PROVE  raced' = {} /\ ReadsAreFresh' /\ SpinsOnlyWhenFull'
  BY StepRace DEF BootInv
<1>0. TypeOK /\ TakesWhatItAskedFor /\ raced = {} /\ ReadsAreFresh /\ SpinsOnlyWhenFull
  BY DEF BootInv, RaceInv, TypeInv
<1>a. \A s, t \in Tasks : s = t
  BY DEF Alone
<1>1. ASSUME NEW t \in Tasks, NEW kind \in Kinds, Request(t, kind)
      PROVE  raced' = {} /\ ReadsAreFresh' /\ SpinsOnlyWhenFull'
  <2>1. pc'[t] = "test" /\ cursor'[t] = 0
    BY <1>0, <1>1 DEF Request, ReadsAreFresh, TypeOK
  <2>2. \A p \in Pages : ~(p < 0)
    BY SizeAssumption DEF Pages
  <2> QED
    BY <1>0, <1>a, <1>1, <2>1, <2>2 DEF Request, ReadsAreFresh, SpinsOnlyWhenFull
<1>2. ASSUME NEW t \in Tasks, Test(t)
      PROVE  raced' = {} /\ ReadsAreFresh' /\ SpinsOnlyWhenFull'
  <2>0. cursor[t] \in Pages /\ memorymap' = memorymap /\ want' = want /\ raced' = {}
    BY <1>0, <1>2, SizeAssumption DEF Test, TypeOK, Pages
  <2>1. CASE pc'[t] = "take" /\ memorymap[cursor[t]] = 0 /\ UNCHANGED cursor
    BY <1>0, <1>a, <2>0, <2>1 DEF ReadsAreFresh, SpinsOnlyWhenFull
  <2>2. CASE /\ memorymap[cursor[t]] # 0 \/ ~Suits(want[t], cursor[t])
             /\ cursor' = [cursor EXCEPT ![t] = @ + 1]
             /\ UNCHANGED pc
    <3>1. cursor'[t] = cursor[t] + 1 /\ pc'[t] = "test"
      BY <1>0, <1>2, <2>2 DEF Test, TypeOK
    <3>2. ASSUME NEW p \in Pages, p < cursor[t] + 1, Suits(want[t], p)
          PROVE  memorymap[p] = 1
      <4>1. p < cursor[t] \/ p = cursor[t]
        BY <2>0, <3>2 DEF Pages
      <4>2. memorymap[p] \in {0, 1}
        BY <1>0 DEF TypeOK
      <4> QED
        BY <1>0, <1>2, <2>2, <3>2, <4>1, <4>2 DEF Test, ReadsAreFresh
    <3> QED
      BY <1>a, <2>0, <3>1, <3>2 DEF ReadsAreFresh, SpinsOnlyWhenFull
  <2> QED
    BY <1>0, <1>2, <2>1, <2>2 DEF Test, TypeOK
<1>3. ASSUME NEW t \in Tasks, Take(t)
      PROVE  raced' = {} /\ ReadsAreFresh' /\ SpinsOnlyWhenFull'
  <2>1. pc'[t] = "idle" /\ cursor'[t] = 0
    BY <1>0, <1>3 DEF Take, TypeOK
  <2>2. raced' = {}
    BY <1>0, <1>3 DEF Take, ReadsAreFresh
  <2> QED
    BY <1>a, <2>1, <2>2 DEF ReadsAreFresh, SpinsOnlyWhenFull
<1>4. ASSUME NEW t \in Tasks, Exhausted(t)
      PROVE  raced' = {} /\ ReadsAreFresh' /\ SpinsOnlyWhenFull'
  <2>1. \A p \in Pages : p < cursor[t]
    BY <1>0, <1>4, SizeAssumption DEF Exhausted, TypeOK, Pages
  <2>2. \A p \in Pages : Suits(want[t], p) => memorymap[p] = 1
    BY <1>0, <1>4, <2>1 DEF Exhausted, ReadsAreFresh
  <2>3. pc'[t] = "spin" /\ memorymap' = memorymap /\ want' = want /\ raced' = {}
    BY <1>0, <1>4 DEF Exhausted, TypeOK
  <2> QED
    BY <1>a, <2>2, <2>3 DEF ReadsAreFresh, SpinsOnlyWhenFull
<1>5. ASSUME NEW t \in Tasks, NEW p \in Pages, FreePage(t, p)
      PROVE  raced' = {} /\ ReadsAreFresh' /\ SpinsOnlyWhenFull'
  <2>1. pc'[t] = "idle" /\ cursor'[t] = 0 /\ raced' = {}
    BY <1>0, <1>5 DEF FreePage, ReadsAreFresh
  <2> QED
    BY <1>a, <2>1 DEF ReadsAreFresh, SpinsOnlyWhenFull
<1>6. CASE UNCHANGED vars
  BY <1>0, <1>6 DEF vars, ReadsAreFresh, SpinsOnlyWhenFull
<1> QED
  BY <1>1, <1>2, <1>3, <1>4, <1>5, <1>6 DEF Next, Alone

LEMMA BootInvariant ==
  ASSUME Alone
  PROVE  Spec => []BootInv
BY InitBoot, StepBoot, PTL DEF Spec

(* Until the first interrupt handler or program allocates, a page has one    *)
(* owner.                                                                    *)
THEOREM BootExclusive ==
  ASSUME Alone
  PROVE  Spec => []Exclusive
<1>1. BootInv => Exclusive
  BY DEF BootInv, RaceInv, SharedOnlyByRace, Exclusive
<1> QED
  BY BootInvariant, <1>1, PTL

(* And the boot task stops with "Out of memory!" only when that is so.       *)
THEOREM BootSpinsOnlyWhenFull ==
  ASSUME Alone
  PROVE  Spec => []SpinsOnlyWhenFull
<1>1. BootInv => SpinsOnlyWhenFull
  BY DEF BootInv
<1> QED
  BY BootInvariant, <1>1, PTL

-----------------------------------------------------------------------------
(* The refinement.  With one task the owner of a page is the task or Nobody. *)
Stuck == {t \in Tasks : pc[t] = "spin"}
Owners == [p \in Pages |-> Owner(p)]
Asks == [t \in Tasks |-> Asked(t)]

LEMMA OwnerOfHeld ==
  ASSUME Alone, NEW t \in Tasks
  PROVE  \A p \in Pages : Owner(p) = IF Held(t, p) THEN t ELSE Nobody
BY DEF Alone, Owner

LEMMA OwnerOfHeldNext ==
  ASSUME Alone, NEW t \in Tasks
  PROVE  \A p \in Pages : Owner(p)' = IF Held(t, p)' THEN t ELSE Nobody
BY DEF Alone, Owner

(* A page is a candidate of the abstract request if and only if the map byte *)
(* is 0 and the page suits.                                                  *)
LEMMA CandidatesAreFree ==
  ASSUME Alone, BootInv, NEW t \in Tasks, NEW p \in Pages
  PROVE  Owner(p) = Nobody <=> memorymap[p] = 0
<1>1. memorymap[p] = 1 <=> Held(t, p)
  BY DEF BootInv, RaceInv, MapExact, Alone, Actors
<1>2. memorymap[p] \in {0, 1} /\ t # Nobody
  BY ActorsAssumption DEF BootInv, RaceInv, TypeInv, TypeOK
<1> QED
  BY <1>1, <1>2, OwnerOfHeld

LEMMA StepRefines ==
  ASSUME Alone
  PROVE  BootInv /\ [Next]_vars => [Ownership!Next]_(Ownership!vars)
<1> SUFFICES ASSUME BootInv, [Next]_vars PROVE [Ownership!Next]_<<Owners, Asks, Stuck>>
  BY DEF Ownership!vars, Owners, Asks, Stuck
<1>0. TypeOK /\ TakesWhatItAskedFor /\ ReadsAreFresh /\ SpinsOnlyWhenFull
  BY DEF BootInv, RaceInv, TypeInv
<1>a. \A s, t \in Tasks : s = t
  BY DEF Alone
<1>h. ASSUME UNCHANGED grants PROVE Owners' = Owners
  BY <1>h DEF Owners, Owner, Held
<1>w. \A t \in Tasks : want[t] \in {"page", "bigpage"} /\ want[t] # "nothing"
  BY <1>0 DEF TypeOK, Kinds
<1>1. ASSUME NEW t \in Tasks, NEW kind \in Kinds, Request(t, kind)
      PROVE  Ownership!Next
  <2>1. Stuck' = Stuck
    BY <1>0, <1>a, <1>1 DEF Request, Stuck, TypeOK
  <2>2. Owners' = Owners
    BY <1>h, <1>1 DEF Request
  <2>3. pc[t] = "idle" /\ pc'[t] = "test" /\ want'[t] = kind
    BY <1>0, <1>1 DEF Request, TypeOK
  <2>4. Asks[t] = "nothing" /\ Asks' = [Asks EXCEPT ![t] = kind]
    BY <1>a, <2>3 DEF Asks, Asked
  <2>5. Ownership!Ask(t, kind)
    BY <2>1, <2>2, <2>4 DEF Ownership!Ask, Owners, Asks, Stuck
  <2> QED
    BY <2>5 DEF Ownership!Next, Ownership!Kinds, Kinds
<1>2. ASSUME NEW t \in Tasks, Test(t)
      PROVE  UNCHANGED <<Owners, Asks, Stuck>>
  <2>1. Stuck' = Stuck
    BY <1>0, <1>a, <1>2 DEF Test, Stuck, TypeOK
  <2>2. pc[t] # "idle" /\ pc'[t] # "idle" /\ want' = want
    BY <1>0, <1>2 DEF Test, TypeOK
  <2>3. Asks' = Asks
    BY <1>a, <2>2 DEF Asks, Asked
  <2> QED
    BY <1>h, <1>2, <2>1, <2>3 DEF Test
<1>3. ASSUME NEW t \in Tasks, Take(t)
      PROVE  Ownership!Next
  <2>0. cursor[t] \in Pages
    BY <1>0, <1>3, SizeAssumption DEF Take, TakesWhatItAskedFor, TypeOK, Pages
  <2>p. PICK p \in Pages : p = cursor[t]
    BY <2>0
  <2>1. p \in Pages /\ Suits(want[t], p) /\ memorymap[p] = 0 /\ t \in Actors
    BY <1>0, <1>3, <2>p, SizeAssumption
    DEF Take, TakesWhatItAskedFor, ReadsAreFresh, TypeOK, Pages, Actors
  <2>2. t \notin Stuck /\ Stuck' = Stuck
    BY <1>0, <1>a, <1>3 DEF Take, Stuck, TypeOK
  <2>3. Owner(p) = Nobody
    BY <2>1, CandidatesAreFree
  <2>4. Asks[t] = want[t] /\ Asks[t] # "nothing"
    BY <1>3, <1>w DEF Take, Asks, Asked
  <2>5. Asks' = [Asks EXCEPT ![t] = "nothing"]
    <3>1. pc'[t] = "idle"
      BY <1>0, <1>3 DEF Take, TypeOK
    <3> QED
      BY <1>a, <3>1 DEF Asks, Asked
  <2>6. Owners' = [Owners EXCEPT ![p] = t]
    <3>1. Grant(t, p)
      BY <1>3, <2>p DEF Take
    <3>2. Held(t, p)' /\ \A q \in Pages : q # p => (Held(t, q)' <=> Held(t, q))
      BY <1>0, <2>1, <3>1, GrantEffect
    <3>3. \A q \in Pages : Owner(q)' = IF q = p THEN t ELSE Owner(q)
      BY <3>2, OwnerOfHeld, OwnerOfHeldNext
    <3> QED
      BY <2>1, <3>3 DEF Owners
  <2>7. p \in Ownership!Suitable(Asks[t]) /\ Owners[p] = Nobody
    BY <2>1, <2>3, <2>4 DEF Ownership!Suitable, Suits, Owners
  <2>8. Ownership!Obtain(t, p)
    BY <2>2, <2>4, <2>5, <2>6, <2>7
    DEF Ownership!Obtain, Ownership!Waiting, Ownership!Candidates, Owners, Asks, Stuck
  <2> QED
    BY <2>1, <2>8 DEF Ownership!Next
<1>4. ASSUME NEW t \in Tasks, Exhausted(t)
      PROVE  Ownership!Next
  <2>1. \A p \in Pages : p < cursor[t]
    BY <1>0, <1>4, SizeAssumption DEF Exhausted, TypeOK, Pages
  <2>2. Asks[t] = want[t] /\ Asks[t] # "nothing"
    BY <1>4, <1>w DEF Exhausted, Asks, Asked
  <2>3. ASSUME NEW p \in Ownership!Suitable(Asks[t])
        PROVE  p \in Pages /\ Owners[p] # Nobody
    <3>1. p \in Pages /\ Suits(want[t], p)
      BY <1>w, <2>2, <2>3, SizeAssumption DEF Ownership!Suitable, Suits, Pages
    <3>2. memorymap[p] = 1
      BY <1>0, <1>4, <2>1, <3>1 DEF Exhausted, ReadsAreFresh
    <3>3. Owner(p) # Nobody
      BY <3>1, <3>2, CandidatesAreFree
    <3> QED
      BY <3>1, <3>3 DEF Owners
  <2>4. t \notin Stuck /\ Stuck' = Stuck \cup {t}
    BY <1>0, <1>a, <1>4 DEF Exhausted, Stuck, TypeOK
  <2>5. Owners' = Owners
    BY <1>h, <1>4 DEF Exhausted
  <2>6. Asks' = Asks
    <3>1. pc[t] # "idle" /\ pc'[t] # "idle" /\ want' = want
      BY <1>0, <1>4 DEF Exhausted, TypeOK
    <3> QED
      BY <1>a, <3>1 DEF Asks, Asked
  <2>7. Ownership!GiveUp(t)
    BY <2>2, <2>3, <2>4, <2>5, <2>6
    DEF Ownership!GiveUp, Ownership!Waiting, Ownership!Candidates, Owners, Asks, Stuck
  <2> QED
    BY <2>7 DEF Ownership!Next
<1>5. ASSUME NEW t \in Tasks, NEW p \in Pages, FreePage(t, p)
      PROVE  Ownership!Next
  <2>0. t \in Actors /\ Held(t, p) /\ grants[t][p] = 1
    BY <1>5 DEF FreePage, Actors, BootInv, RaceInv, SharedOnlyByRace
  <2>1. pc[t] = "idle" /\ UNCHANGED <<pc, want>>
    BY <1>5 DEF FreePage
  <2>2. Asks[t] = "nothing" /\ Asks' = Asks /\ Stuck' = Stuck
    BY <2>1 DEF Asks, Asked, Stuck
  <2>3. ~Held(t, p)' /\ \A q \in Pages : q # p => (Held(t, q)' <=> Held(t, q))
    BY <1>0, <1>5, <2>0 DEF FreePage, Held, TypeOK
  <2>4. \A q \in Pages : Owner(q)' = IF q = p THEN Nobody ELSE Owner(q)
    BY <2>3, OwnerOfHeld, OwnerOfHeldNext
  <2>5. Owners' = [Owners EXCEPT ![p] = Nobody]
    BY <2>4 DEF Owners
  <2>6. Owners[p] = t
    BY <2>0, OwnerOfHeld DEF Owners
  <2>7. Ownership!Return(t, p)
    BY <2>2, <2>5, <2>6 DEF Ownership!Return, Owners, Asks, Stuck
  <2> QED
    BY <2>7 DEF Ownership!Next
<1>6. CASE UNCHANGED vars
  BY <1>h, <1>6 DEF vars, Stuck, Asks, Asked
<1> QED
  BY <1>1, <1>2, <1>3, <1>4, <1>5, <1>6 DEF Next, Alone

(* The loop over the byte map implements the ownership specification as long *)
(* as only the boot task allocates, for any number of pages.                 *)
THEOREM BootImplementsOwnership ==
  ASSUME Alone
  PROVE  Spec => ImplementsOwnership
<1>1. Init => Ownership!Init
  BY DEF Init, Ownership!Init, Owner, Held, Actors, Asked
<1> QED
  BY <1>1, BootInvariant, StepRefines, PTL DEF Spec, ImplementsOwnership, Ownership!Spec
=============================================================================
