-------------------------- MODULE MCPageAllocator --------------------------
(* Two small instances of PageAllocator, of which one is under way: callers   *)
(* that disturb each other, or the boot task alone with more pages.  Page 1   *)
(* is the aligned one.                                                        *)
EXTENDS PageAllocator, TLC

CONSTANTS
  BootPages,    \* NPages of the boot
  Kernel        \* the boot task

VARIABLES
  machine,      \* "boot" or "tasks"
  bootmap, bootpc, bootcursor, bootwant, bootcpu, bootgrants, bootraced

bootvars == <<bootmap, bootpc, bootcursor, bootwant, bootcpu, bootgrants, bootraced>>
MCvars == <<machine, vars, bootvars>>

MCBigPages == {1}

Boot == INSTANCE PageAllocator WITH
  Tasks <- {Kernel}, Nics <- {}, Stacks <- {}, NPages <- BootPages,
  memorymap <- bootmap, pc <- bootpc, cursor <- bootcursor, want <- bootwant, cpu <- bootcpu,
  grants <- bootgrants, raced <- bootraced

MCInit == machine \in {"boot", "tasks"} /\ Init /\ Boot!Init

MCNext ==
  \/ machine = "tasks" /\ Next /\ UNCHANGED <<machine, bootvars>>
  \/ machine = "boot" /\ Boot!Next /\ UNCHANGED <<machine, vars>>

Runs(A) == machine = "tasks" /\ A /\ UNCHANGED <<machine, bootvars>>

MCFairness ==
  \A t \in Tasks : WF_MCvars(Runs(Test(t))) /\ WF_MCvars(Runs(Take(t))) /\ WF_MCvars(Runs(Exhausted(t)))

MCSpec == MCInit /\ [][MCNext]_MCvars /\ MCFairness

(* The boot task alone implements PageOwnership (see PageAllocator). *)
BootImplementsOwnership == Boot!ImplementsOwnership
=============================================================================
