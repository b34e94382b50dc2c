---------------------------- MODULE Multitasking ----------------------------
(***************************************************************************)
(* The scheduler of the 64-bit kernel (kernel/drivers/multitasking.c and   *)
(* timer.c) with what uses it: the shells (tty.c), the programs they start *)
(* (exec/program.c), the two ways a program ends (idt.c) and sleep.        *)
(*                                                                         *)
(* The processor executes the context in its registers, cpu.  The handler  *)
(* of the timer interrupt copies the registers into tasks[vl], advances vl *)
(* and copies tasks[vl] back; it is entered through an interrupt gate, so  *)
(* it is one action, and it may come between any two actions of a task.    *)
(* A task is known to the kernel by vl only: system calls use vl as "the   *)
(* process that called", whatever the registers hold.  The field id of a   *)
(* context is a ghost: whose context it really is.                         *)
(*                                                                         *)
(* The branch vl == 0xf of the handler is left out: vl < cmt, and cmt past *)
(* MAX_TASKS has already overrun the table, which the bound on AddTask     *)
(* keeps outside this model.  The branch on tasks[vl].cr3 is never taken:  *)
(* nothing sets that field.                                                *)
(***************************************************************************)
EXTENDS Naturals

CONSTANTS
  MAX_TASKS,   \* the size of the table tasks (10)
  BootSleep,   \* the argument of sleep at the end of the initialisation (5)
  MaxSleep     \* bound: the longest sleep a program asks for

ASSUME TableAssumption == MAX_TASKS \in Nat \ {0}
ASSUME SleepAssumption == BootSleep \in Nat \ {0} /\ MaxSleep \in Nat

Pids == 0 .. MAX_TASKS - 1

(* Where the instruction pointer of a context is:                            *)
(*   prompt     in tty_inner_loop          added      after the sti of addTask *)
(*   started    exec has returned arg      waiting    in the loop of waitForPid*)
(*   program    in a paged program         inline     in an ELF or SXE program *)
(*   sleepset   before counter = 0         sleepspin  in the loop of sleep     *)
Places == {"zero", "prompt", "added", "started", "waiting",
           "program", "inline", "sleepset", "sleepspin"}

Contexts == [id : Pids, at : Places, arg : Nat, ret : Places, cs : {"zero", "kernel"}]

VARIABLES
  vl,        \* the current pid
  cmt,       \* how many tasks exist
  cpu,       \* the context in the registers
  saved,     \* tasks[i].sessionregs
  flag,      \* the task_running word waitForPid and system call 60 use for each pid
  counter,   \* timer.c: set by the timer, cleared and polled by sleep
  exited,    \* ghost: pids that have made system call 60
  debt,      \* ghost: per pid, the ticks its sleep still has to last
  since      \* ghost: per pid, the ticks since it had the processor (at most MAX_TASKS)

vars == <<vl, cmt, cpu, saved, flag, counter, exited, debt, since>>

Tasks == 0 .. cmt - 1

(* The context of a task, wherever it is. *)
Ctx(p) == IF p = vl THEN cpu ELSE saved[p]

Zeroed == [id |-> 0, at |-> "zero", arg |-> 0, ret |-> "zero", cs |-> "zero"]

-----------------------------------------------------------------------------
(* initialise_multitasking_driver: the table is cleared, tasks[0] is running,  *)
(* and the boot task is about to sleep.  The words the other pids wait on lie  *)
(* outside the table (the index is scaled twice) and hold anything.            *)
Init ==
  /\ vl = 0
  /\ cmt = 1
  /\ cpu = [id |-> 0, at |-> "sleepset", arg |-> BootSleep, ret |-> "prompt", cs |-> "kernel"]
  /\ saved = [p \in Pids |-> Zeroed]
  /\ flag \in {f \in [Pids -> {0, 1}] : f[0] = 1}
  /\ counter = 0
  /\ exited = {}
  /\ debt = [p \in Pids |-> IF p = 0 THEN BootSleep ELSE 0]
  /\ since = [p \in Pids |-> 0]

Ghosts ==
  /\ debt' = [p \in Pids |-> IF debt[p] > 0 THEN debt[p] - 1 ELSE 0]
  /\ since' = [p \in Pids |-> IF p = vl' \/ p >= cmt THEN 0
                             ELSE IF since[p] < MAX_TASKS THEN since[p] + 1 ELSE MAX_TASKS]

(* Faulty variants of Tick. *)
TickSavesLate ==      \* vl is advanced before the registers are saved
  /\ vl' = IF vl + 1 = cmt THEN 0 ELSE vl + 1
  /\ saved' = [saved EXCEPT ![vl'] = cpu]
  /\ cpu' = saved'[vl']
  /\ counter' = 1
  /\ Ghosts
  /\ UNCHANGED <<cmt, flag, exited>>

TickSkips ==          \* vl is advanced twice
  /\ saved' = [saved EXCEPT ![vl] = cpu]
  /\ vl' = IF vl + 2 >= cmt THEN 0 ELSE vl + 2
  /\ cpu' = saved'[vl']
  /\ counter' = 1
  /\ Ghosts
  /\ UNCHANGED <<cmt, flag, exited>>

(* multitaskinghandler, and timerfunc, which it calls *)
Tick ==
  /\ saved' = [saved EXCEPT ![vl] = cpu]
  /\ vl' = IF vl + 1 = cmt THEN 0 ELSE vl + 1
  /\ cpu' = saved'[vl']
  /\ counter' = 1
  /\ Ghosts
  /\ UNCHANGED <<cmt, flag, exited>>

-----------------------------------------------------------------------------
(* The shell *)

(* A paged program: exec maps it and calls addTask, which, between cli and sti, *)
(* copies tasks[0], clears the registers, sets the instruction pointer and      *)
(* counts the task.                                                             *)
AddTask ==
  /\ cpu.at = "prompt"
  /\ cmt < MAX_TASKS
  /\ saved' = [saved EXCEPT ![cmt] =
                 [id |-> cmt, at |-> "program", arg |-> 0, ret |-> "zero", cs |-> saved[0].cs]]
  /\ cmt' = cmt + 1
  /\ cpu' = [cpu EXCEPT !.at = "added"]
  /\ UNCHANGED <<vl, flag, counter, exited, debt, since>>

(* return cmt - 1 comes after the sti: cmt is read again, with interrupts on. *)
AddTaskReturns ==
  /\ cpu.at = "added"
  /\ cpu' = [cpu EXCEPT !.at = "started", !.arg = cmt - 1]
  /\ UNCHANGED <<vl, cmt, saved, flag, counter, exited, debt, since>>

(* An ELF or SXE program runs in the shell's own context. *)
ExecInline ==
  /\ cpu.at = "prompt"
  /\ cpu' = [cpu EXCEPT !.at = "inline"]
  /\ UNCHANGED <<vl, cmt, saved, flag, counter, exited, debt, since>>

(* The shell takes what the program returns for a pid, if it is not 0. *)
InlineReturns ==
  /\ cpu.at = "inline"
  /\ \/ cpu' = [cpu EXCEPT !.at = "prompt"]
     \/ \E rt \in Pids \ {0} : cpu' = [cpu EXCEPT !.at = "started", !.arg = rt]
  /\ UNCHANGED <<vl, cmt, saved, flag, counter, exited, debt, since>>

(* waitForPid: the word is set, then polled. *)
WaitForPid ==
  /\ cpu.at = "started"
  /\ flag' = [flag EXCEPT ![cpu.arg] = 1]
  /\ cpu' = [cpu EXCEPT !.at = "waiting"]
  /\ UNCHANGED <<vl, cmt, saved, counter, exited, debt, since>>

(* Faulty variant of WaitEnds: the word of the shell itself is polled. *)
WaitEndsOwnWord ==
  /\ cpu.at = "waiting"
  /\ flag[vl] = 0
  /\ cpu' = [cpu EXCEPT !.at = "prompt", !.arg = 0]
  /\ UNCHANGED <<vl, cmt, saved, flag, counter, exited, debt, since>>

WaitEnds ==
  /\ cpu.at = "waiting"
  /\ flag[cpu.arg] = 0
  /\ cpu' = [cpu EXCEPT !.at = "prompt", !.arg = 0]
  /\ UNCHANGED <<vl, cmt, saved, flag, counter, exited, debt, since>>

-----------------------------------------------------------------------------
(* Programs *)

InProgram == cpu.at \in {"program", "inline"}

(* int 0x81 with rax = 60: the word of getPid() is cleared, and the task goes on *)
(* as a shell.                                                                   *)
Exit60 ==
  /\ InProgram
  /\ flag' = [flag EXCEPT ![vl] = 0]
  /\ exited' = exited \cup {cpu.id}
  /\ cpu' = [cpu EXCEPT !.at = "prompt"]
  /\ UNCHANGED <<vl, cmt, saved, counter, debt, since>>

(* int 0x80 with rax = 1, the exit of the C library: only the jump to the shell. *)
Exit80 ==
  /\ InProgram
  /\ cpu' = [cpu EXCEPT !.at = "prompt"]
  /\ UNCHANGED <<vl, cmt, saved, flag, counter, exited, debt, since>>

(* System call 408 calls sleep. *)
Sleep(n) ==
  /\ InProgram
  /\ n \in 1 .. MaxSleep
  /\ cpu' = [cpu EXCEPT !.at = "sleepset", !.arg = n, !.ret = cpu.at]
  /\ debt' = [debt EXCEPT ![cpu.id] = n]
  /\ UNCHANGED <<vl, cmt, saved, flag, counter, exited, since>>

(* Faulty variant of SleepSet. *)
SleepSetKeepsCounter ==   \* the counter is not cleared
  /\ cpu.at = "sleepset"
  /\ cpu' = [cpu EXCEPT !.at = "sleepspin"]
  /\ UNCHANGED <<vl, cmt, saved, flag, counter, exited, debt, since>>

(* One turn of its loop: counter = 0, then poll until the timer has set it. *)
SleepSet ==
  /\ cpu.at = "sleepset"
  /\ counter' = 0
  /\ cpu' = [cpu EXCEPT !.at = "sleepspin"]
  /\ UNCHANGED <<vl, cmt, saved, flag, exited, debt, since>>

SleepSpin ==
  /\ cpu.at = "sleepspin"
  /\ counter # 0
  /\ cpu' = IF cpu.arg = 1
            THEN [cpu EXCEPT !.at = cpu.ret, !.arg = 0, !.ret = "zero"]
            ELSE [cpu EXCEPT !.at = "sleepset", !.arg = @ - 1]
  /\ UNCHANGED <<vl, cmt, saved, flag, counter, exited, debt, since>>

-----------------------------------------------------------------------------
Next ==
  \/ Tick
  \/ AddTask
  \/ AddTaskReturns
  \/ ExecInline
  \/ InlineReturns
  \/ WaitForPid
  \/ WaitEnds
  \/ Exit60
  \/ Exit80
  \/ \E n \in 1 .. MaxSleep : Sleep(n)
  \/ SleepSet
  \/ SleepSpin

(* The timer does not stop (mode 3 of the interval timer, 100 Hz), and a task in *)
(* a loop of the kernel turns it many times in the 10 ms it has the processor:   *)
(* one that gets the processor again and again does not miss its turn forever.   *)
Turn(p) == cpu.id = p /\ (WaitForPid \/ WaitEnds \/ SleepSet \/ SleepSpin)

Fairness ==
  /\ WF_vars(Tick)
  /\ \A p \in Pids : SF_vars(Turn(p))

Spec == Init /\ [][Next]_vars /\ Fairness

-----------------------------------------------------------------------------
TypeOK ==
  /\ vl \in Pids
  /\ cmt \in 1 .. MAX_TASKS
  /\ cpu \in Contexts
  /\ saved \in [Pids -> Contexts]
  /\ flag \in [Pids -> {0, 1}]
  /\ counter \in {0, 1}
  /\ exited \subseteq Pids
  /\ debt \in [Pids -> Nat]
  /\ since \in [Pids -> Nat]

(* The caller of a system call is the task vl names, and what waits in the table *)
(* in the place of a task is that task: no sequence of ticks and task creations  *)
(* gives a task another one's registers.                                         *)
ContextsKeepTheirTask ==
  /\ vl < cmt
  /\ \A p \in Tasks : Ctx(p).id = p

(* The copy addTask takes of tasks[0] holds the segments and flags of a running  *)
(* task, and not the zeros of the cleared table: the sleep at the end of the     *)
(* initialisation has let the timer save them before any program is started.     *)
TasksHaveSegments == \A p \in Tasks : Ctx(p).cs = "kernel"

(* In a round of the table every task gets the processor: nobody waits longer    *)
(* than there are other tasks, although the table grows meanwhile.               *)
RoundRobin == \A p \in Tasks : since[p] < cmt

(* sleep(n) lasts n ticks, although all tasks share one counter.                 *)
SleepsLongEnough ==
  \A p \in Tasks : Ctx(p).at \notin {"sleepset", "sleepspin"} => debt[p] = 0

(* A task's registers change by its own instructions only: what a tick takes out *)
(* of the processor comes back unchanged, and creating a task disturbs no other. *)
OnlyTheRunningTaskMoves ==
  [][\A p \in Tasks : Ctx(p)' # Ctx(p) => p = vl /\ vl' = vl]_vars

(* The shell prompts again only when the program it started has made call 60.    *)
WaitReturnsAfterExit ==
  [][\A p \in Tasks :
       Ctx(p).at = "waiting" /\ Ctx(p)'.at # "waiting" => Ctx(p).arg \in exited]_vars

(* Every task gets the processor again and again. *)
EveryTaskRuns == \A p \in Pids : []<>(p < cmt => vl = p)

(* A sleep ends, although other tasks clear the counter it polls. *)
SleepEnds ==
  \A p \in Pids :
    p < cmt /\ Ctx(p).at \in {"sleepset", "sleepspin"} ~> Ctx(p).at \notin {"sleepset", "sleepspin"}

(* No shell polls a word that stays cleared forever: it prompts again, unless *)
(* another one that waits for the same pid sets the word first.               *)
ClearedWordIsSeen ==
  \A p \in Pids : []<>~(p < cmt /\ Ctx(p).at = "waiting" /\ flag[Ctx(p).arg] = 0)

(* Nobody is left behind: the three of them, of every task at once. *)
TasksGoOn == EveryTaskRuns /\ SleepEnds /\ ClearedWordIsSeen
=============================================================================
