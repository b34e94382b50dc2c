------------------------------- MODULE Programs -------------------------------
(***************************************************************************)
(* How a program gets into memory in the 64-bit kernel: the shell          *)
(* (kernel/drivers/tty.c) writes a path into the one buffer pd, exec       *)
(* (exec/program.c) asks for the size of the file, takes pages, reads the  *)
(* file, maps it at the address of all programs (paging.c) and makes a     *)
(* task of it (multitasking.c), which becomes a shell when it ends.        *)
(*                                                                         *)
(* A task may be left between any two of these steps.  A call of the       *)
(* allocator is one step (see PageAllocator), and so is one of the file    *)
(* system (see FatFs); a page that is asked for is the lowest free one,    *)
(* wherever the image lies.  Who waits for whom is Multitasking's matter;  *)
(* ELF and SXE files are not mapped (see Sxe), and what an ELF header says *)
(* of the addresses of its parts is outside the model.                     *)
(***************************************************************************)
EXTENDS Naturals, FiniteSetsExt

CONSTANTS
  Names,       \* the programs on the disk
  Size,        \* of each of them, in pages
  NPages,
  Gap,         \* PAGE_GAP_SIZE: the pages that one entry of the table maps
  NTasks,      \* bound: how often a program is started, and one
  MaxOthers,   \* bound: how many pages others hold
  None

(* What is assumed of the constants. *)
ConstantsAssumption ==
  /\ Gap \in Nat \ {0}
  /\ Size \in [Names -> 1 .. Gap]
  /\ NPages \in Nat \ {0} /\ NPages % Gap = 0
  /\ NTasks \in Nat \ {0} /\ MaxOthers \in Nat

Pids == 1 .. NTasks
Pages == 0 .. NPages - 1

(* The owner of a page that is free, and of one that no load has taken. *)
Free == 0
Other == NTasks + 1

StackPages == 5     \* the stack begins 0x5000 above its page

VARIABLES
  pd,          \* the path that the shells share
  owner,       \* whose request each page was given to: the task to be, or Other
  content,     \* the part of a program that lies in each page, or Nothing
  mapped,      \* the page at the address of the programs
  starts,      \* how many starts there have been, the boot's included
  place,       \* per task: where it is
  load,        \* per task: the number of its last start
  pages,       \* per task: how many pages it has still to ask for
  name,        \* per task: the program that was typed for it
  base,        \* per task: the first page of its image
  stack,       \* per task: the page its stack is counted from
  mixed        \* ghost: tasks that were started while another shell was starting one

programsVars ==
  <<pd, owner, content, mapped, starts, place, load, pages, name, base, stack, mixed>>

Part(n, i) == <<n, i>>
Nothing == Part(None, 0)

(* A shell that is about to start a program. *)
Starting == {"fill", "size", "big", "pages", "read", "map", "add"}
Goto(t, there) == place' = [place EXCEPT ![t] = there]
Fails(t) == Goto(t, "prompt")

FreePages == {p \in Pages : owner[p] = Free}
Give(p, who) == owner' = [owner EXCEPT ![p] = who]

-----------------------------------------------------------------------------
(* The shell: somebody types n.  pd is cleared, and the name copied to it.  Starts are *)
(* numbered; the task that comes of one has its number.                                *)
Clear(t, n) ==
  /\ place[t] = "prompt"
  /\ starts < NTasks
  /\ starts' = starts + 1
  /\ load' = [load EXCEPT ![t] = starts']
  /\ name' = [name EXCEPT ![starts'] = n]
  /\ pd' = None
  /\ Goto(t, "fill")
  /\ LET others == {u \in Pids \ {t} : place[u] \in Starting}
     IN mixed' = IF others = {} THEN mixed ELSE mixed \cup {starts'} \cup {load[u] : u \in others}
  /\ UNCHANGED <<owner, content, mapped, pages, base, stack>>

Fill(t) ==
  /\ place[t] = "fill"
  /\ pd' = name[load[t]]
  /\ Goto(t, "size")
  /\ UNCHANGED <<owner, content, mapped, starts, load, pages, name, base, stack, mixed>>

-----------------------------------------------------------------------------
(* exec.  What pd says then is the file whose size is asked for and, later, the one that *)
(* is read; of a path that is not whole there is none.                                   *)
AskSize(t) ==
  /\ place[t] = "size"
  /\ IF pd = None
       THEN Fails(t) /\ UNCHANGED pages
       ELSE /\ pages' = [pages EXCEPT ![t] = Size[pd]]
            /\ Goto(t, "big")
  /\ UNCHANGED <<pd, owner, content, mapped, starts, load, name, base, stack, mixed>>

(* requestBigPage: the lowest free page that an entry can map; without one it does not *)
(* return.                                                                             *)
BigPage(t) ==
  /\ place[t] = "big"
  /\ LET aligned == {p \in FreePages : p % Gap = 0}
     IN /\ aligned # {}
        /\ Give(Min(aligned), load[t])
        /\ base' = [base EXCEPT ![load[t]] = Min(aligned)]
  /\ Goto(t, "pages")
  /\ UNCHANGED <<pd, content, mapped, starts, load, pages, name, stack, mixed>>

(* As many requests of a page as the file has pages, counting the one after the loop. *)
OnePage(t) ==
  /\ place[t] = "pages"
  /\ FreePages # {}
  /\ Give(Min(FreePages), load[t])
  /\ pages' = [pages EXCEPT ![t] = @ - 1]
  /\ Goto(t, IF pages[t] = 1 THEN "read" ELSE "pages")
  /\ UNCHANGED <<pd, content, mapped, starts, load, name, base, stack, mixed>>

(* readFile: the file goes to as many pages as it has, whoever they belong to. *)
ReadFile(t) ==
  /\ place[t] = "read"
  /\ \/ Fails(t) /\ UNCHANGED content
     \/ /\ pd # None
        /\ LET first == base[load[t]]
           IN content' = [p \in Pages |-> IF p \in first .. first + Size[pd] - 1
                                          THEN Part(pd, p - first) ELSE content[p]]
        /\ Goto(t, "map")
  /\ UNCHANGED <<pd, owner, mapped, starts, load, pages, name, base, stack, mixed>>

(* map_memory: the entry is there since initialise_paging_driver, and is changed. *)
MapMemory(t) ==
  /\ place[t] = "map"
  /\ mapped' = base[load[t]]
  /\ Goto(t, "add")
  /\ UNCHANGED <<pd, owner, content, starts, load, pages, name, base, stack, mixed>>

AddTaskLowStack(t) ==   \* faulty variant of AddTask: the stack is counted from the page before
  /\ place[t] = "add"
  /\ FreePages # {}
  /\ Give(Min(FreePages), load[t])
  /\ stack' = [stack EXCEPT ![load[t]] = Min(FreePages) + 1]
  /\ place' = [place EXCEPT ![t] = "wait", ![load[t]] = "program"]
  /\ UNCHANGED <<pd, content, mapped, starts, load, pages, name, base, mixed>>

(* addTask, between its cli and sti. *)
AddTask(t) ==
  /\ place[t] = "add"
  /\ FreePages # {}
  /\ Give(Min(FreePages), load[t])
  /\ stack' = [stack EXCEPT ![load[t]] = Min(FreePages)]
  /\ place' = [place EXCEPT ![t] = "wait", ![load[t]] = "program"]
  /\ UNCHANGED <<pd, content, mapped, starts, load, pages, name, base, mixed>>

-----------------------------------------------------------------------------
(* The program pushes.  Its stack is overwritten as far as it reaches before its page ends, *)
(* or less far, which leaves more of what was there.                                        *)
Reach(t) == stack[t] .. stack[t] + StackPages - 1

Push(t) ==
  /\ place[t] = "program"
  /\ content' = [p \in Pages |-> IF p \in Reach(t) THEN Nothing ELSE content[p]]
  /\ UNCHANGED <<pd, owner, mapped, starts, place, load, pages, name, base, stack, mixed>>

(* It ends, and its task is a shell; the one that waits for it may hear of it (see *)
(* Multitasking).                                                                  *)
Exit(t) ==
  /\ place[t] = "program"
  /\ place' \in {[place EXCEPT ![t] = "prompt"],
                 [u \in Pids |-> IF u = t \/ (place[u] = "wait" /\ load[u] = t)
                                  THEN "prompt" ELSE place[u]]}
  /\ UNCHANGED <<pd, owner, content, mapped, starts, load, pages, name, base, stack, mixed>>

(* Pages that others ask for, write and return. *)
OtherTakes ==
  /\ FreePages # {}
  /\ Cardinality({p \in Pages : owner[p] = Other}) < MaxOthers
  /\ Give(Min(FreePages), Other)
  /\ content' = [content EXCEPT ![Min(FreePages)] = Nothing]
  /\ UNCHANGED <<pd, mapped, starts, place, load, pages, name, base, stack, mixed>>

OtherReturns(p) ==
  /\ owner[p] = Other
  /\ Give(p, Free)
  /\ UNCHANGED <<pd, content, mapped, starts, place, load, pages, name, base, stack, mixed>>

Init ==
  /\ pd = None
  /\ owner \in {[p \in Pages |-> IF p < n THEN Other ELSE Free] : n \in 0 .. MaxOthers}
  /\ content = [p \in Pages |-> Nothing]
  /\ mapped = 0
  /\ starts = 1
  /\ place = [t \in Pids |-> IF t = 1 THEN "prompt" ELSE "none"]
  /\ load = [t \in Pids |-> 0]
  /\ pages = [t \in Pids |-> 0]
  /\ name = [t \in Pids |-> None]
  /\ base = [t \in Pids |-> 0]
  /\ stack = [t \in Pids |-> NPages]
  /\ mixed = {}

Next ==
  \/ \E t \in Pids :
       \/ \E n \in Names : Clear(t, n)
       \/ Fill(t)
       \/ AskSize(t)
       \/ BigPage(t)
       \/ OnePage(t)
       \/ ReadFile(t)
       \/ MapMemory(t)
       \/ AddTask(t)
       \/ Push(t)
       \/ Exit(t)
  \/ OtherTakes
  \/ \E p \in Pages : OtherReturns(p)

Spec == Init /\ [][Next]_programsVars

-----------------------------------------------------------------------------
(* What a task runs at the address of the programs is the whole file that was typed, if *)
(* its shell started it while no other shell started one, the pages that are mapped     *)
(* there are all its own, and no stack comes down to them.  (Every condition is needed: *)
(* pd and the mapping are shared, the pages after the first are asked for but may lie   *)
(* elsewhere, and a stack begins four pages above its own.)                             *)
RunsItsProgram ==
  \A t \in Pids :
    LET image == mapped .. mapped + Size[name[t]] - 1
    IN place[t] = "program" /\ t \notin mixed
         /\ (\A p \in image : owner[p] = t)
         /\ (\A u \in Pids : image \cap Reach(u) = {})
       => \A p \in image : content[p] = Part(name[t], p - mapped)
=============================================================================
