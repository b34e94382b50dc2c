---------------------------- MODULE PageAllocator ----------------------------
(***************************************************************************)
(* The physical page allocator of the kernel (kernel/drivers/memory.c):    *)
(* requestPage, requestBigPage and freePage over one byte per page.        *)
(*                                                                         *)
(* The allocator has no lock.  It is called by code that runs with         *)
(* interrupts enabled - the shells, the drivers they call, and the system  *)
(* calls of programs, which enter through a trap gate - so a call may be   *)
(* preempted by the timer, or interrupted by the network card, at any      *)
(* instruction; in particular between the test of a map byte and the store *)
(* that takes the page.  Those callers are Tasks, and their call is three  *)
(* actions: the entry, one Test per page, and Take.                        *)
(*                                                                         *)
(* Two callers run with interrupts off and are one action: addTask, which  *)
(* brackets its requestPage with cli and sti, and the network card's       *)
(* interrupt handler, which answers ARP, ICMP and TCP packets from pages   *)
(* it allocates, and leaks one page per TCP answer (fillTcpHeader).        *)
(*                                                                         *)
(* Pages are named by their index in memorymap.  The map is MapSize bytes  *)
(* long in the code (1024) and NPages is the size of the area it describes.*)
(***************************************************************************)
EXTENDS Naturals

CONSTANTS
  Tasks,      \* callers that can be preempted
  Nics,       \* interrupt handlers of network cards: none before the card is set up
  Stacks,     \* what holds the stacks addTask requests: none before the first program
  NPages,     \* (free_memory_max - free_memory_min) / PAGE_SIZE
  BigPages,   \* the indices whose address is a multiple of PAGE_GAP_SIZE
  Nobody,     \* the owner of a page nobody owns
  MaxGrants   \* bound: a task asks for no more while it was granted a page so often

ASSUME ActorsAssumption ==
  /\ Tasks \cap Nics = {}
  /\ Tasks \cap Stacks = {}
  /\ Nobody \notin Tasks
ASSUME SizeAssumption ==
  /\ NPages \in Nat
  /\ MaxGrants \in Nat
  /\ BigPages \subseteq 0 .. NPages - 1

Actors == Tasks \cup Nics \cup Stacks
Pages == 0 .. NPages - 1
Kinds == {"page", "bigpage"}

VARIABLES
  memorymap,  \* the byte map: 0 is free, 1 is taken
  pc,         \* per task: outside the allocator, at the test, at the store, or spinning
  cursor,     \* per task: the loop variable i (0 outside a call)
  want,       \* per task: which of the two functions it called
  cpu,        \* "stopped": it spins with interrupts off
  grants,     \* ghost: how often each actor was handed each page and has not returned it
  raced       \* ghost: pages marked by a caller whose test was stale, until all return them

vars == <<memorymap, pc, cursor, want, cpu, grants, raced>>

-----------------------------------------------------------------------------
(* The map bytes a request may take: any free page, or a free aligned one. *)
Suits(kind, p) == kind = "page" \/ p \in BigPages

FreePages == {p \in Pages : memorymap[p] = 0}

Held(a, p) == grants[a][p] > 0

Grant(a, p) == grants' = [grants EXCEPT ![a][p] = @ + 1]

Init ==
  /\ memorymap = [p \in Pages |-> 0]
  /\ pc = [t \in Tasks |-> "idle"]
  /\ cursor = [t \in Tasks |-> 0]
  /\ want = [t \in Tasks |-> "page"]
  /\ cpu = "on"
  /\ grants = [a \in Actors |-> [p \in Pages |-> 0]]
  /\ raced = {}

-----------------------------------------------------------------------------
(* requestPage / requestBigPage called with interrupts enabled *)

Request(t, kind) ==
  /\ cpu = "on"
  /\ pc[t] = "idle"
  /\ \A p \in Pages : grants[t][p] < MaxGrants
  /\ pc' = [pc EXCEPT ![t] = "test"]
  /\ want' = [want EXCEPT ![t] = kind]
  /\ UNCHANGED <<memorymap, cursor, cpu, grants, raced>>

(* Faulty variant of Test, for the sensitivity of the properties. *)
TestStuck(t) ==       \* a free page that does not suit is looked at again
  /\ cpu = "on"
  /\ pc[t] = "test"
  /\ cursor[t] < NPages
  /\ IF memorymap[cursor[t]] = 0
       THEN pc' = [pc EXCEPT ![t] = IF Suits(want[t], cursor[t]) THEN "take" ELSE "test"]
            /\ UNCHANGED cursor
       ELSE cursor' = [cursor EXCEPT ![t] = @ + 1] /\ UNCHANGED pc
  /\ UNCHANGED <<memorymap, want, cpu, grants, raced>>

(* Faulty variant of Test: the alignment is not looked at. *)
TestUnaligned(t) ==
  /\ cpu = "on"
  /\ pc[t] = "test"
  /\ cursor[t] < NPages
  /\ IF memorymap[cursor[t]] = 0
       THEN pc' = [pc EXCEPT ![t] = "take"] /\ UNCHANGED cursor
       ELSE cursor' = [cursor EXCEPT ![t] = @ + 1] /\ UNCHANGED pc
  /\ UNCHANGED <<memorymap, want, cpu, grants, raced>>

(* memorymap[i] is read; the page is not taken yet. *)
Test(t) ==
  /\ cpu = "on"
  /\ pc[t] = "test"
  /\ cursor[t] < NPages
  /\ \/ /\ memorymap[cursor[t]] = 0
        /\ Suits(want[t], cursor[t])
        /\ pc' = [pc EXCEPT ![t] = "take"]
        /\ UNCHANGED cursor
     \/ /\ memorymap[cursor[t]] # 0 \/ ~Suits(want[t], cursor[t])
        /\ cursor' = [cursor EXCEPT ![t] = @ + 1]
        /\ UNCHANGED pc
  /\ UNCHANGED <<memorymap, want, cpu, grants, raced>>

(* Faulty variant of Take: the byte is not set. *)
TakeUnmarked(t) ==
  /\ cpu = "on"
  /\ pc[t] = "take"
  /\ Grant(t, cursor[t])
  /\ pc' = [pc EXCEPT ![t] = "idle"]
  /\ cursor' = [cursor EXCEPT ![t] = 0]
  /\ want' = [want EXCEPT ![t] = "page"]
  /\ UNCHANGED <<memorymap, cpu, raced>>

(* memorymap[i] = 1, whatever the byte has become since the test. *)
Take(t) ==
  /\ cpu = "on"
  /\ pc[t] = "take"
  /\ memorymap' = [memorymap EXCEPT ![cursor[t]] = 1]
  /\ Grant(t, cursor[t])
  /\ raced' = IF memorymap[cursor[t]] = 1 THEN raced \cup {cursor[t]} ELSE raced
  /\ pc' = [pc EXCEPT ![t] = "idle"]
  /\ cursor' = [cursor EXCEPT ![t] = 0]
  /\ want' = [want EXCEPT ![t] = "page"]
  /\ UNCHANGED cpu

(* "Out of memory!": the caller spins, the other tasks still get the processor. *)
Exhausted(t) ==
  /\ cpu = "on"
  /\ pc[t] = "test"
  /\ cursor[t] >= NPages
  /\ pc' = [pc EXCEPT ![t] = "spin"]
  /\ UNCHANGED <<memorymap, cursor, want, cpu, grants, raced>>

(* Faulty variant of FreePage: the division rounds up. *)
FreePageRoundedUp(t, p) ==
  /\ cpu = "on"
  /\ pc[t] = "idle"
  /\ Held(t, p)
  /\ memorymap' = [q \in Pages |-> IF q = p + 1 THEN 0 ELSE memorymap[q]]
  /\ grants' = [grants EXCEPT ![t][p] = @ - 1]
  /\ UNCHANGED <<pc, cursor, want, cpu, raced>>

(* freePage on a page the caller was handed: no check, the byte is cleared. *)
FreePage(t, p) ==
  /\ cpu = "on"
  /\ pc[t] = "idle"
  /\ Held(t, p)
  /\ memorymap' = [memorymap EXCEPT ![p] = 0]
  /\ grants' = [grants EXCEPT ![t][p] = @ - 1]
  /\ raced' = IF grants[t][p] = 1 /\ \A a \in Actors \ {t} : ~Held(a, p)
              THEN raced \ {p} ELSE raced
  /\ UNCHANGED <<pc, cursor, want, cpu>>

-----------------------------------------------------------------------------
(* Callers that run with interrupts off: the loop and the store are one step *)

(* The page such a call returns: first fit. *)
IsFirstFree(p) == p \in FreePages /\ \A q \in FreePages : p <= q

IsSecondFree(p, first) ==
  /\ p \in FreePages \ {first}
  /\ \A q \in FreePages \ {first} : p <= q

(* The request found no page: the processor spins with interrupts off. *)
Halt ==
  /\ cpu' = "stopped"
  /\ UNCHANGED <<memorymap, grants>>

(* addTask: a running task creates another one, whose stack is never returned. *)
AddTaskStack(t, s) ==
  /\ cpu = "on"
  /\ pc[t] = "idle"
  /\ \/ /\ FreePages = {}
        /\ Halt
     \/ \E p \in FreePages :
          /\ IsFirstFree(p)
          /\ grants[s][p] < MaxGrants
          /\ memorymap' = [memorymap EXCEPT ![p] = 1]
          /\ Grant(s, p)
          /\ UNCHANGED cpu
  /\ UNCHANGED <<pc, cursor, want, raced>>

(* An ARP or ICMP request is answered: a page is requested, sent and freed. *)
NicReply ==
  /\ cpu = "on"
  /\ FreePages = {}
  /\ Halt
  /\ UNCHANGED <<pc, cursor, want, raced>>

(* A TCP segment is answered: fillTcpHeader requests a second page and keeps it. *)
NicTcpReply(n) ==
  /\ cpu = "on"
  /\ \/ \E p, q \in FreePages :
          /\ IsFirstFree(p)
          /\ IsSecondFree(q, p)
          /\ grants[n][q] < MaxGrants
          /\ memorymap' = [memorymap EXCEPT ![q] = 1]
          /\ Grant(n, q)
          /\ UNCHANGED cpu
     \/ \E p \in FreePages :
          /\ FreePages = {p}
          /\ grants[n][p] < MaxGrants
          /\ memorymap' = [memorymap EXCEPT ![p] = 1]
          /\ Grant(n, p)
          /\ cpu' = "stopped"
     \/ /\ FreePages = {}
        /\ Halt
  /\ UNCHANGED <<pc, cursor, want, raced>>

-----------------------------------------------------------------------------
Next ==
  \/ \E t \in Tasks :
       \/ \E kind \in Kinds : Request(t, kind)
       \/ Test(t)
       \/ Take(t)
       \/ Exhausted(t)
       \/ \E p \in Pages : FreePage(t, p)
       \/ \E s \in Stacks : AddTaskStack(t, s)
  \/ \E n \in Nics : NicReply \/ NicTcpReply(n)

(* The timer hands the processor to every task in turn (see Multitasking), so *)
(* a call that has begun keeps taking its steps.                              *)
Fairness == \A t \in Tasks : WF_vars(Test(t)) /\ WF_vars(Take(t)) /\ WF_vars(Exhausted(t))

Spec == Init /\ [][Next]_vars /\ Fairness

-----------------------------------------------------------------------------
TypeOK ==
  /\ memorymap \in [Pages -> {0, 1}]
  /\ pc \in [Tasks -> {"idle", "test", "take", "spin"}]
  /\ cursor \in [Tasks -> 0 .. NPages]
  /\ want \in [Tasks -> Kinds]
  /\ cpu \in {"on", "stopped"}
  /\ grants \in [Actors -> [Pages -> Nat]]
  /\ raced \subseteq Pages

(* Two requests are answered with the same page only when one of them was    *)
(* preempted between the test and the store while another caller took it:    *)
(* no other interleaving of requestPage and freePage shares a page, and once *)
(* everyone has returned a page shared that way it is exclusive again.       *)
SharedOnlyByRace ==
  \A p \in Pages \ raced : \A a, b \in Actors :
    Held(a, p) /\ Held(b, p) => a = b /\ grants[a][p] = 1

(* Outside that race the byte map is exact: a page is marked if and only if   *)
(* somebody was handed it and has not returned it; no page is lost or forged. *)
MapExact ==
  \A p \in Pages \ raced : memorymap[p] = 1 <=> \E a \in Actors : Held(a, p)

(* requestBigPage returns aligned pages only: what a task is about to take     *)
(* satisfies the request it made, although others moved pages since it tested. *)
TakesWhatItAskedFor ==
  \A t \in Tasks : pc[t] = "take" => cursor[t] < NPages /\ Suits(want[t], cursor[t])

(* The boot: one task, before the network card and before the first program. *)
Alone ==
  /\ Nics = {}
  /\ Stacks = {}
  /\ \A s, t \in Tasks : s = t

(* While only the boot task allocates no page is ever shared. *)
Exclusive ==
  \A p \in Pages : \A a, b \in Actors :
    Held(a, p) /\ Held(b, p) => a = b /\ grants[a][p] = 1

(* While only the boot task allocates "Out of memory!" is the truth: it spins *)
(* only when no page that suits its request is left.                          *)
SpinsOnlyWhenFull ==
  \A t \in Tasks : pc[t] = "spin" => \A p \in Pages : Suits(want[t], p) => memorymap[p] = 1

(* The owner of a page, when at most one actor holds it. *)
Owner(p) == IF \E t \in Tasks : Held(t, p) THEN CHOOSE t \in Tasks : Held(t, p) ELSE Nobody

(* What a task waits for from the call until it has its page, or for ever. *)
Asked(t) == IF pc[t] = "idle" THEN "nothing" ELSE want[t]

Ownership == INSTANCE PageOwnership WITH
  Callers <- Tasks,
  Nothing <- "nothing",
  owner   <- [p \in Pages |-> Owner(p)],
  asked   <- [t \in Tasks |-> Asked(t)],
  stuck   <- {t \in Tasks : pc[t] = "spin"}

(* While only the boot task allocates, the loop over the byte map implements *)
(* the ownership specification: requestPage and requestBigPage each answer   *)
(* with a page that suits that call and run out of memory only when none is  *)
(* left, whatever was taken and returned before.                             *)
ImplementsOwnership == Ownership!Spec

(* The loop ends: a request is answered or runs out of memory, however many   *)
(* pages the other callers take and return behind its cursor, unless a caller *)
(* that has interrupts off stops the machine.                                 *)
RequestEnds ==
  \A t \in Tasks : pc[t] \in {"test", "take"} ~> pc[t] \in {"idle", "spin"} \/ cpu = "stopped"
=============================================================================
