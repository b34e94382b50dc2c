------------------------- MODULE MultitaskingProofs -------------------------
(***************************************************************************)
(* Proofs about the scheduler, for every size of the task table and every  *)
(* length of the sleeps.  Everything rests on one invariant: Sound says    *)
(* what holds of a task and its context, wherever the context is, so that  *)
(* a tick, which only moves contexts, has to be proved to move none of     *)
(* them away from its task.                                                *)
(***************************************************************************)
EXTENDS Multitasking, TLAPS

USE TableAssumption, SleepAssumption

Sleeping == {"sleepset", "sleepspin"}

(* What a context and the words it depends on satisfy while task p has it. *)
Sound(p, c) ==
  /\ c.id = p
  /\ c.cs = "kernel"
  /\ c.at \in {"started", "waiting"} => c.arg \in Pids
  /\ c.at = "waiting" /\ flag[c.arg] = 0 => c.arg \in exited
  /\ c.at \in Sleeping => c.arg > 0 /\ debt[p] <= c.arg /\ c.ret \in {"prompt", "program", "inline"}
  /\ c.at = "sleepspin" /\ counter # 0 => debt[p] < c.arg
  /\ c.at \notin Sleeping => debt[p] = 0

(* Until the timer has saved tasks[0] for the first time the boot task sleeps. *)
BootSleeps == saved[0].cs # "kernel" => cmt = 1 /\ counter = 0 /\ cpu.at \in Sleeping

(* When each task had the processor last, in a round that began with task 0. *)
Rounds ==
  \A p \in Pids :
    /\ p <= vl => since[p] = vl - p
    /\ p > vl /\ p < cmt => since[p] <= vl + cmt - p
    /\ p >= cmt => since[p] = 0 /\ debt[p] = 0

Inv ==
  /\ TypeOK
  /\ vl < cmt
  /\ \A p \in Tasks : Sound(p, Ctx(p))
  /\ BootSleeps
  /\ Rounds

-----------------------------------------------------------------------------
(* Steps of the running task alone: nobody else's context moves. *)
Local == UNCHANGED <<vl, cmt, saved>> /\ cpu' \in Contexts

(* A tick moves the contexts between the registers and the table, and every *)
(* task finds its own again.                                                *)
LEMMA TickKeepsContexts ==
  ASSUME Inv, Tick
  PROVE  /\ vl' \in Tasks
         /\ vl' \in Pids
         /\ saved' \in [Pids -> Contexts]
         /\ \A p \in Tasks : Ctx(p)' = Ctx(p)
<1>1. vl \in Pids /\ vl < cmt /\ cmt \in 1 .. MAX_TASKS /\ cpu \in Contexts
      /\ saved \in [Pids -> Contexts]
  BY DEF Inv, TypeOK
<1>2. vl' \in Tasks /\ vl' \in Pids
  BY <1>1 DEF Tick, Tasks, Pids
<1>3. saved' = [saved EXCEPT ![vl] = cpu] /\ cpu' = saved'[vl']
  BY DEF Tick
<1>4. saved' \in [Pids -> Contexts]
  BY <1>1, <1>3
<1>5. ASSUME NEW p \in Tasks PROVE Ctx(p)' = Ctx(p)
  <2>1. p \in Pids
    BY <1>1 DEF Tasks, Pids
  <2>2. saved'[p] = Ctx(p)
    BY <1>1, <1>3, <2>1 DEF Ctx
  <2>. QED BY <1>3, <2>2 DEF Ctx
<1>. QED BY <1>2, <1>4, <1>5

(* A step of the running task that leaves the table alone. *)
LEMMA LocalKeepsContexts ==
  ASSUME Inv, Local
  PROVE  /\ Ctx(vl)' = cpu'
         /\ \A p \in Tasks \ {vl} : Ctx(p)' = Ctx(p)
  BY DEF Local, Ctx

(* What the invariant says of the running task. *)
LEMMA Running ==
  ASSUME Inv
  PROVE  /\ vl \in Tasks
         /\ cpu \in Contexts
         /\ Sound(vl, cpu)
<1>1. vl \in Tasks
  BY DEF Inv, TypeOK, Tasks, Pids
<1>. QED BY <1>1 DEF Inv, TypeOK, Ctx

-----------------------------------------------------------------------------
LEMMA InitInv ==
  ASSUME Init
  PROVE  Inv
<1>1. 0 \in Pids
  BY DEF Pids
<1>2. cpu \in Contexts /\ Zeroed \in Contexts
  BY <1>1 DEF Init, Contexts, Places, Zeroed
<1>3. TypeOK
  BY <1>1, <1>2 DEF Init, TypeOK
<1>4. \A p \in Tasks : Sound(p, Ctx(p))
  <2>1. Tasks = {0} /\ Ctx(0) = cpu /\ debt[0] = BootSleep
    BY <1>1 DEF Init, Tasks, Ctx
  <2>. QED BY <2>1 DEF Init, Sound, Sleeping
<1>5. BootSleeps
  BY DEF Init, BootSleeps, Sleeping
<1>6. Rounds
  BY DEF Init, Rounds, Pids
<1>. QED BY <1>3, <1>4, <1>5, <1>6 DEF Inv, Init

LEMMA TickInv ==
  ASSUME Inv, Tick
  PROVE  Inv'
<1>1. /\ vl' \in Tasks
      /\ vl' \in Pids
      /\ saved' \in [Pids -> Contexts]
      /\ \A p \in Tasks : Ctx(p)' = Ctx(p)
  BY TickKeepsContexts
<1>2. cmt' = cmt /\ flag' = flag /\ exited' = exited /\ counter' = 1 /\ cpu' = saved'[vl']
  BY DEF Tick
<1>3. vl \in Pids /\ vl < cmt /\ cmt \in 1 .. MAX_TASKS /\ debt \in [Pids -> Nat] /\ since \in [Pids -> Nat]
  BY DEF Inv, TypeOK
<1>4. /\ debt' = [p \in Pids |-> IF debt[p] > 0 THEN debt[p] - 1 ELSE 0]
      /\ since' = [p \in Pids |-> IF p = vl' \/ p >= cmt THEN 0
                                  ELSE IF since[p] < MAX_TASKS THEN since[p] + 1 ELSE MAX_TASKS]
  BY DEF Tick, Ghosts
<1>5. debt' \in [Pids -> Nat] /\ since' \in [Pids -> Nat]
  BY <1>3, <1>4
<1>6. TypeOK'
  BY <1>1, <1>2, <1>5 DEF Inv, TypeOK
<1>7. Tasks' = Tasks
  BY <1>2 DEF Tasks
<1>8. ASSUME NEW p \in Tasks PROVE Sound(p, Ctx(p))'
  <2>1. p \in Pids /\ debt[p] \in Nat
    BY <1>3 DEF Tasks, Pids
  <2>2. Sound(p, Ctx(p)) /\ Ctx(p)' = Ctx(p)
    BY <1>1 DEF Inv
  <2>3. debt'[p] = IF debt[p] > 0 THEN debt[p] - 1 ELSE 0
    BY <1>4, <2>1
  <2>4. Ctx(p) \in Contexts
    BY <1>3, <2>1 DEF Inv, TypeOK, Ctx
  <2>5. Ctx(p).arg \in Nat
    BY <2>4 DEF Contexts
  <2>. QED BY <1>2, <2>1, <2>2, <2>3, <2>5 DEF Sound, Sleeping
<1>9. BootSleeps'
  <2>1. 0 \in Pids /\ 0 \in Tasks
    BY <1>3 DEF Pids, Tasks
  <2>2. CASE vl = 0
    <3>1. saved'[0] = cpu
      BY <2>1, <2>2 DEF Tick, Inv, TypeOK
    <3>2. cpu.cs = "kernel"
      BY Running DEF Sound
    <3>. QED BY <3>1, <3>2 DEF BootSleeps
  <2>3. CASE vl # 0
    <3>1. cmt # 1
      BY <1>3, <2>3 DEF Pids
    <3>2. saved'[0] = saved[0]
      BY <2>1, <2>3 DEF Tick, Inv, TypeOK
    <3>. QED BY <3>1, <3>2 DEF BootSleeps, Inv
  <2>. QED BY <2>2, <2>3
<1>10. Rounds'
  <2>1. SUFFICES ASSUME NEW p \in Pids
                 PROVE  /\ p <= vl' => since'[p] = vl' - p
                        /\ p > vl' /\ p < cmt => since'[p] <= vl' + cmt - p
                        /\ p >= cmt => since'[p] = 0 /\ debt'[p] = 0
    BY <1>2 DEF Rounds
  <2>2. /\ since'[p] = IF p = vl' \/ p >= cmt THEN 0
                       ELSE IF since[p] < MAX_TASKS THEN since[p] + 1 ELSE MAX_TASKS
        /\ debt'[p] = IF debt[p] > 0 THEN debt[p] - 1 ELSE 0
    BY <1>4
  <2>3. /\ p <= vl => since[p] = vl - p
        /\ p > vl /\ p < cmt => since[p] <= vl + cmt - p
        /\ p >= cmt => since[p] = 0 /\ debt[p] = 0
    BY DEF Inv, Rounds
  <2>4. p \in Nat /\ since[p] \in Nat /\ debt[p] \in Nat
    BY <1>3 DEF Pids
  <2>5. vl' = IF vl + 1 = cmt THEN 0 ELSE vl + 1
    BY DEF Tick
  <2>6. vl \in Nat /\ cmt \in Nat /\ cmt <= MAX_TASKS /\ vl < cmt
    BY <1>3 DEF Pids
  <2>. QED BY <2>2, <2>3, <2>4, <2>5, <2>6
<1>11. (vl < cmt)'
  BY <1>1, <1>2, <1>3 DEF Tasks, Pids
<1>12. (\A p \in Tasks : Sound(p, Ctx(p)))'
  BY <1>7, <1>8
<1>. QED BY <1>6, <1>9, <1>10, <1>11, <1>12 DEF Inv

(* What a step of the running task must respect: it may not clear the word of a *)
(* task that has not exited, set the counter or touch the debt of others.       *)
LEMMA LocalInv ==
  ASSUME Inv, Local, UNCHANGED since,
         flag' \in [Pids -> {0, 1}], exited' \subseteq Pids, debt' \in [Pids -> Nat],
         \A q \in Pids : flag'[q] = 0 => flag[q] = 0 \/ q \in exited',
         exited \subseteq exited',
         counter' \in {0, counter},
         \A p \in Pids \ {vl} : debt'[p] = debt[p],
         Sound(vl, cpu)',
         BootSleeps'
  PROVE  Inv'
<1>1. vl \in Pids /\ vl < cmt /\ cmt \in 1 .. MAX_TASKS
  BY DEF Inv, TypeOK
<1>2. Tasks' = Tasks /\ vl' = vl /\ cmt' = cmt
  BY DEF Local, Tasks
<1>3. TypeOK'
  BY <1>2 DEF Local, Inv, TypeOK
<1>4. ASSUME NEW p \in Tasks PROVE Sound(p, Ctx(p))'
  <2>1. CASE p = vl
    BY <1>2, <2>1 DEF Ctx
  <2>2. CASE p # vl
    <3>1. Ctx(p)' = Ctx(p) /\ Sound(p, Ctx(p))
      BY <2>2, LocalKeepsContexts DEF Inv
    <3>2. p \in Pids
      BY <1>1 DEF Tasks, Pids
    <3>3. debt'[p] = debt[p]
      BY <2>2, <3>2
    <3>4. counter' # 0 => counter # 0
      OBVIOUS
    <3>. QED BY <3>1, <3>3, <3>4 DEF Sound, Sleeping
  <2>. QED BY <2>1, <2>2
<1>5. (\A p \in Tasks : Sound(p, Ctx(p)))'
  BY <1>2, <1>4
<1>6. Rounds'
  <2>1. \A p \in Pids : p >= cmt => debt'[p] = debt[p]
    BY <1>1 DEF Pids
  <2>. QED BY <1>2, <2>1 DEF Inv, Rounds
<1>. QED BY <1>1, <1>2, <1>3, <1>5, <1>6 DEF Inv

(* The context the running task leaves behind when it starts a program: as      *)
(* LocalInv, with one more task in the table.                                   *)
LEMMA AddTaskInv ==
  ASSUME Inv, AddTask
  PROVE  Inv'
<1>1. vl \in Pids /\ vl < cmt /\ cmt \in 1 .. MAX_TASKS /\ saved \in [Pids -> Contexts]
  BY DEF Inv, TypeOK
<1>2. cmt \in Pids /\ cmt' = cmt + 1 /\ cmt' \in 1 .. MAX_TASKS /\ vl' = vl
  BY <1>1 DEF AddTask, Pids
<1>3. cpu \in Contexts /\ Sound(vl, cpu) /\ vl \in Tasks
  BY Running
<1>4. /\ cpu' \in Contexts
      /\ cpu'.id = cpu.id /\ cpu'.cs = cpu.cs /\ cpu'.at = "added"
  BY <1>3 DEF AddTask, Contexts, Places
<1>5. saved[0].cs = "kernel"
  BY DEF AddTask, Inv, BootSleeps, Sleeping
<1>6. DEFINE new == [id |-> cmt, at |-> "program", arg |-> 0, ret |-> "zero", cs |-> "kernel"]
<1>7. new \in Contexts
  BY <1>2 DEF Contexts, Places
<1>8. saved' = [saved EXCEPT ![cmt] = new]
  BY <1>5 DEF AddTask
<1>9. saved' \in [Pids -> Contexts]
  BY <1>1, <1>2, <1>7, <1>8
<1>10. UNCHANGED <<flag, counter, exited, debt, since>>
  BY DEF AddTask
<1>11. TypeOK'
  BY <1>2, <1>4, <1>9, <1>10 DEF Inv, TypeOK
<1>12. Tasks' = Tasks \cup {cmt} /\ cmt \notin Tasks /\ Tasks \subseteq Pids
  BY <1>1, <1>2 DEF Tasks, Pids
<1>13. ASSUME NEW p \in Tasks' PROVE Sound(p, Ctx(p))'
  <2>1. CASE p = vl
    <3>1. Ctx(p)' = cpu'
      BY <1>2, <2>1 DEF Ctx
    <3>2. debt[vl] = 0
      BY <1>3 DEF AddTask, Sound, Sleeping
    <3>. QED BY <1>3, <1>4, <1>10, <2>1, <3>1, <3>2 DEF Sound, Sleeping
  <2>2. CASE p = cmt
    <3>1. Ctx(p)' = new
      BY <1>1, <1>2, <1>3, <1>8, <1>12, <2>2 DEF Ctx
    <3>2. debt[cmt] = 0
      BY <1>1, <1>2 DEF Inv, Rounds
    <3>. QED BY <1>10, <2>2, <3>1, <3>2 DEF Sound, Sleeping
  <2>3. CASE p \in Tasks \ {vl}
    <3>1. Ctx(p)' = Ctx(p) /\ Sound(p, Ctx(p))
      BY <1>1, <1>2, <1>8, <1>12, <2>3 DEF Ctx, Inv
    <3>. QED BY <1>10, <3>1 DEF Sound, Sleeping
  <2>. QED BY <1>12, <2>1, <2>2, <2>3
<1>14. (\A p \in Tasks : Sound(p, Ctx(p)))'
  BY <1>13
<1>15. BootSleeps'
  <2>1. 0 \in Pids /\ cmt # 0
    BY <1>1 DEF Pids
  <2>2. saved'[0] = saved[0]
    BY <1>1, <1>8, <2>1
  <2>. QED BY <1>5, <2>2 DEF BootSleeps
<1>16. Rounds'
  <2>1. \A p \in Pids : since[p] \in Nat /\ debt[p] \in Nat
    BY DEF Inv, TypeOK
  <2>. QED BY <1>1, <1>2, <1>10, <2>1 DEF Inv, Rounds, Pids
<1>17. (vl < cmt)'
  BY <1>1, <1>2 DEF Pids
<1>. QED BY <1>11, <1>14, <1>15, <1>16, <1>17 DEF Inv

-----------------------------------------------------------------------------
(* The steps of a shell or program that do not end a sleep or start a task. *)
LEMMA SimpleStepsInv ==
  ASSUME Inv,
         \/ AddTaskReturns
         \/ ExecInline
         \/ InlineReturns
         \/ WaitForPid
         \/ WaitEnds
         \/ Exit60
         \/ Exit80
  PROVE  Inv'
<1>1. vl \in Pids /\ vl < cmt /\ cmt \in 1 .. MAX_TASKS /\ cpu \in Contexts
      /\ flag \in [Pids -> {0, 1}] /\ exited \subseteq Pids /\ debt \in [Pids -> Nat]
  BY DEF Inv, TypeOK
<1>2. Sound(vl, cpu)
  BY Running
<1>3. UNCHANGED <<vl, cmt, saved, counter, debt, since>>
  BY DEF AddTaskReturns, ExecInline, InlineReturns, WaitForPid, WaitEnds, Exit60, Exit80
<1>4. cpu.at \notin Sleeping /\ debt[vl] = 0
  BY <1>2 DEF AddTaskReturns, ExecInline, InlineReturns, WaitForPid, WaitEnds, Exit60, Exit80,
              InProgram, Sound, Sleeping
<1>5. saved'[0].cs = "kernel"
  BY <1>3, <1>4 DEF Inv, BootSleeps
<1>6. BootSleeps'
  BY <1>5 DEF BootSleeps
<1>7. cmt - 1 \in Pids /\ cmt - 1 \in Nat
  BY <1>1 DEF Pids
<1>8. Pids \subseteq Nat
  BY DEF Pids
<1>9. /\ cpu' \in Contexts
      /\ cpu'.id = cpu.id /\ cpu'.cs = cpu.cs
      /\ cpu'.at \notin Sleeping
      /\ cpu'.at \in {"started", "waiting"} => cpu'.arg \in Pids
      /\ cpu'.at = "waiting" => flag'[cpu'.arg] = 1
      /\ \A q \in Pids : flag'[q] = 0 => flag[q] = 0 \/ q \in exited'
      /\ flag' \in [Pids -> {0, 1}]
      /\ exited \subseteq exited' /\ exited' \subseteq Pids
  <2>1. CASE AddTaskReturns
    BY <1>1, <1>7, <2>1 DEF AddTaskReturns, Contexts, Places, Sleeping
  <2>2. CASE ExecInline
    BY <1>1, <2>2 DEF ExecInline, Contexts, Places, Sleeping
  <2>3. CASE InlineReturns
    BY <1>1, <1>8, <2>3 DEF InlineReturns, Contexts, Places, Sleeping
  <2>4. CASE WaitForPid
    <3>1. cpu.arg \in Pids
      BY <1>2, <2>4 DEF WaitForPid, Sound
    <3>. QED BY <1>1, <2>4, <3>1 DEF WaitForPid, Contexts, Places, Sleeping
  <2>5. CASE WaitEnds
    BY <1>1, <2>5 DEF WaitEnds, Contexts, Places, Sleeping
  <2>6. CASE Exit60
    <3>1. cpu.id = vl
      BY <1>2 DEF Sound
    <3>. QED BY <1>1, <2>6, <3>1 DEF Exit60, Contexts, Places, Sleeping
  <2>7. CASE Exit80
    BY <1>1, <2>7 DEF Exit80, Contexts, Places, Sleeping
  <2>. QED BY <2>1, <2>2, <2>3, <2>4, <2>5, <2>6, <2>7
<1>10. Sound(vl, cpu)'
  BY <1>2, <1>3, <1>4, <1>9 DEF Sound, Sleeping
<1>11. Local
  BY <1>3, <1>9 DEF Local
<1>. QED BY <1>1, <1>3, <1>6, <1>9, <1>10, <1>11, LocalInv

LEMMA SleepInv ==
  ASSUME Inv, NEW n \in 1 .. MaxSleep, Sleep(n)
  PROVE  Inv'
<1>1. vl \in Pids /\ cpu \in Contexts /\ debt \in [Pids -> Nat]
      /\ flag \in [Pids -> {0, 1}] /\ exited \subseteq Pids
  BY DEF Inv, TypeOK
<1>2. Sound(vl, cpu)
  BY Running
<1>3. UNCHANGED <<vl, cmt, saved, flag, counter, exited, since>>
  BY DEF Sleep
<1>4. n \in Nat /\ n > 0
  OBVIOUS
<1>5. cpu' = [cpu EXCEPT !.at = "sleepset", !.arg = n, !.ret = cpu.at] /\ cpu.at \in {"program", "inline"}
  BY DEF Sleep, InProgram
<1>6. /\ cpu' \in Contexts /\ cpu'.id = cpu.id /\ cpu'.cs = cpu.cs /\ cpu'.at = "sleepset"
      /\ cpu'.arg = n /\ cpu'.ret = cpu.at
  BY <1>1, <1>4, <1>5 DEF Contexts, Places
<1>7. debt' = [debt EXCEPT ![vl] = n]
  BY <1>2 DEF Sleep, Sound
<1>8. debt' \in [Pids -> Nat] /\ debt'[vl] = n /\ \A p \in Pids \ {vl} : debt'[p] = debt[p]
  BY <1>1, <1>4, <1>7
<1>9. Sound(vl, cpu)'
  BY <1>2, <1>3, <1>4, <1>5, <1>6, <1>8 DEF Sound, Sleeping
<1>10. BootSleeps'
  BY <1>3, <1>5 DEF Inv, BootSleeps, Sleeping
<1>11. Local
  BY <1>3, <1>6 DEF Local
<1>. QED BY <1>1, <1>3, <1>8, <1>9, <1>10, <1>11, LocalInv

LEMMA SleepSetInv ==
  ASSUME Inv, SleepSet
  PROVE  Inv'
<1>1. cpu \in Contexts /\ debt \in [Pids -> Nat] /\ flag \in [Pids -> {0, 1}] /\ exited \subseteq Pids
  BY DEF Inv, TypeOK
<1>2. Sound(vl, cpu)
  BY Running
<1>3. UNCHANGED <<vl, cmt, saved, flag, exited, debt, since>> /\ counter' = 0
  BY DEF SleepSet
<1>4. /\ cpu' \in Contexts /\ cpu'.id = cpu.id /\ cpu'.cs = cpu.cs /\ cpu'.at = "sleepspin"
      /\ cpu'.arg = cpu.arg /\ cpu'.ret = cpu.ret /\ cpu.at = "sleepset"
  BY <1>1 DEF SleepSet, Contexts, Places
<1>5. Sound(vl, cpu)'
  BY <1>2, <1>3, <1>4 DEF Sound, Sleeping
<1>6. BootSleeps'
  BY <1>3, <1>4 DEF Inv, BootSleeps, Sleeping
<1>7. Local
  BY <1>3, <1>4 DEF Local
<1>. QED BY <1>1, <1>3, <1>5, <1>6, <1>7, LocalInv

LEMMA SleepSpinInv ==
  ASSUME Inv, SleepSpin
  PROVE  Inv'
<1>1. cpu \in Contexts /\ debt \in [Pids -> Nat] /\ flag \in [Pids -> {0, 1}] /\ exited \subseteq Pids
      /\ vl \in Pids
  BY DEF Inv, TypeOK
<1>2. Sound(vl, cpu)
  BY Running
<1>3. UNCHANGED <<vl, cmt, saved, flag, counter, exited, debt, since>>
      /\ counter # 0 /\ cpu.at = "sleepspin"
  BY DEF SleepSpin
<1>4. cpu.arg \in Nat /\ cpu.arg > 0 /\ debt[vl] \in Nat /\ debt[vl] < cpu.arg
      /\ cpu.ret \in {"prompt", "program", "inline"}
  BY <1>1, <1>2, <1>3 DEF Sound, Sleeping, Contexts
<1>5. cpu' \in Contexts /\ Sound(vl, cpu)'
  <2>1. CASE cpu.arg = 1
    <3>1. cpu' = [cpu EXCEPT !.at = cpu.ret, !.arg = 0, !.ret = "zero"]
      BY <2>1 DEF SleepSpin
    <3>2. cpu' \in Contexts /\ cpu'.id = cpu.id /\ cpu'.cs = cpu.cs /\ cpu'.at = cpu.ret
      BY <1>1, <1>4, <3>1 DEF Contexts, Places
    <3>3. debt[vl] = 0
      BY <1>4, <2>1
    <3>. QED BY <1>2, <1>3, <1>4, <3>2, <3>3 DEF Sound, Sleeping
  <2>2. CASE cpu.arg # 1
    <3>1. cpu' = [cpu EXCEPT !.at = "sleepset", !.arg = @ - 1]
      BY <2>2 DEF SleepSpin
    <3>2. cpu.arg - 1 \in Nat /\ cpu.arg - 1 > 0 /\ debt[vl] <= cpu.arg - 1
      BY <1>4, <2>2
    <3>3. cpu' \in Contexts /\ cpu'.id = cpu.id /\ cpu'.cs = cpu.cs /\ cpu'.at = "sleepset"
          /\ cpu'.arg = cpu.arg - 1 /\ cpu'.ret = cpu.ret
      BY <1>1, <3>1, <3>2 DEF Contexts, Places
    <3>. QED BY <1>2, <1>3, <1>4, <3>2, <3>3 DEF Sound, Sleeping
  <2>. QED BY <2>1, <2>2
<1>6. BootSleeps'
  BY <1>3 DEF Inv, BootSleeps, TypeOK
<1>7. Local
  BY <1>3, <1>5 DEF Local
<1>. QED BY <1>1, <1>3, <1>5, <1>6, <1>7, LocalInv

-----------------------------------------------------------------------------
LEMMA StepInv == Inv /\ [Next]_vars => Inv'
<1>. SUFFICES ASSUME Inv, [Next]_vars PROVE Inv'
  OBVIOUS
<1>1. CASE UNCHANGED vars
  BY <1>1 DEF vars, Inv, TypeOK, Tasks, Ctx, Sound, BootSleeps, Rounds
<1>2. CASE \E n \in 1 .. MaxSleep : Sleep(n)
  BY <1>2, SleepInv
<1>. QED BY <1>1, <1>2, TickInv, AddTaskInv, SimpleStepsInv, SleepSetInv, SleepSpinInv DEF Next

LEMMA Invariance == Spec => []Inv
<1>. QED BY InitInv, StepInv, PTL DEF Spec

(* The scheduler's state is well typed. *)
THEOREM TypeCorrect == Spec => []TypeOK
<1>1. Inv => TypeOK
  BY DEF Inv
<1>. QED BY <1>1, Invariance, PTL

(* However ticks and task creations interleave, every task's registers stay its *)
(* own, and vl names the task whose registers are in the processor.             *)
THEOREM ContextsStay == Spec => []ContextsKeepTheirTask
<1>1. Inv => ContextsKeepTheirTask
  BY DEF Inv, ContextsKeepTheirTask, Sound
<1>. QED BY <1>1, Invariance, PTL

(* Every task is born with the segments of a running one. *)
THEOREM SegmentsCopied == Spec => []TasksHaveSegments
<1>1. Inv => TasksHaveSegments
  BY DEF Inv, TasksHaveSegments, Sound
<1>. QED BY <1>1, Invariance, PTL

(* Every task has the processor again within one round, for any number of tasks. *)
THEOREM RoundsAreFair == Spec => []RoundRobin
<1>1. Inv => RoundRobin
  <2>. SUFFICES ASSUME Inv, NEW p \in Tasks PROVE since[p] < cmt
    BY DEF RoundRobin
  <2>1. p \in Pids /\ p \in Nat /\ p < cmt /\ cmt \in Nat /\ vl \in Nat /\ vl < cmt /\ since[p] \in Nat
    BY DEF Inv, TypeOK, Tasks, Pids
  <2>2. (p <= vl => since[p] = vl - p) /\ (p > vl => since[p] <= vl + cmt - p)
    BY <2>1 DEF Inv, Rounds
  <2>. QED BY <2>1, <2>2
<1>. QED BY <1>1, Invariance, PTL

(* sleep never returns early, however many tasks share its counter. *)
THEOREM SleepIsLongEnough == Spec => []SleepsLongEnough
<1>1. Inv => SleepsLongEnough
  BY DEF Inv, SleepsLongEnough, Sound, Sleeping
<1>. QED BY <1>1, Invariance, PTL

-----------------------------------------------------------------------------
(* Only a tick and addTask write the table. *)
LEMMA OnlyCpuChanges ==
  ASSUME Next, ~Tick, ~AddTask
  PROVE  UNCHANGED <<vl, cmt, saved>>
<1>1. CASE \E n \in 1 .. MaxSleep : Sleep(n)
  BY <1>1 DEF Sleep
<1>. QED BY <1>1 DEF Next, AddTaskReturns, ExecInline, InlineReturns, WaitForPid, WaitEnds,
                     Exit60, Exit80, SleepSet, SleepSpin

LEMMA OthersStay ==
  ASSUME Inv, Next, NEW p \in Tasks, p # vl \/ Tick
  PROVE  Ctx(p)' = Ctx(p)
<1>1. CASE Tick
  BY <1>1, TickKeepsContexts
<1>2. CASE AddTask
  <2>1. vl' = vl /\ saved' = [saved EXCEPT ![cmt] =
          [id |-> cmt, at |-> "program", arg |-> 0, ret |-> "zero", cs |-> saved[0].cs]]
    BY <1>2 DEF AddTask
  <2>2. p # cmt /\ p \in Pids /\ saved \in [Pids -> Contexts]
    BY DEF Inv, TypeOK, Tasks, Pids
  <2>3. p # vl
    BY <1>2, <2>1 DEF Tick, AddTask, Inv, TypeOK, Tasks
  <2>. QED BY <2>1, <2>2, <2>3 DEF Ctx
<1>3. CASE ~Tick /\ ~AddTask
  BY <1>3, OnlyCpuChanges DEF Ctx
<1>. QED BY <1>1, <1>2, <1>3

(* No step changes the registers of a task that does not have the processor, and *)
(* a tick changes nobody's.                                                      *)
THEOREM RegistersArePrivate == Spec => OnlyTheRunningTaskMoves
<1>1. Inv /\ [Next]_vars => [\A p \in Tasks : Ctx(p)' # Ctx(p) => p = vl /\ vl' = vl]_vars
  <2>. SUFFICES ASSUME Inv, Next, NEW p \in Tasks, Ctx(p)' # Ctx(p)
                PROVE  p = vl /\ vl' = vl
    OBVIOUS
  <2>1. p = vl /\ ~Tick
    BY OthersStay
  <2>2. CASE AddTask
    BY <2>1, <2>2 DEF AddTask
  <2>3. CASE ~AddTask
    BY <2>1, <2>3, OnlyCpuChanges
  <2>. QED BY <2>1, <2>2, <2>3
<1>. QED BY <1>1, Invariance, PTL DEF Spec, OnlyTheRunningTaskMoves

(* A shell leaves the loop of waitForPid only when the pid it polls has made call *)
(* 60: the uninitialised word of a pid that was never used does not let it go.    *)
THEOREM WaitIsForAnExit == Spec => WaitReturnsAfterExit
<1>1. Inv /\ [Next]_vars =>
        [\A p \in Tasks :
           Ctx(p).at = "waiting" /\ Ctx(p)'.at # "waiting" => Ctx(p).arg \in exited]_vars
  <2>. SUFFICES ASSUME Inv, Next, NEW p \in Tasks, Ctx(p).at = "waiting", Ctx(p)'.at # "waiting"
                PROVE  Ctx(p).arg \in exited
    OBVIOUS
  <2>1. p = vl /\ ~Tick
    BY OthersStay
  <2>2. cpu.at = "waiting" /\ Ctx(p) = cpu
    BY <2>1 DEF Ctx
  <2>3. WaitEnds
    <3>1. ~ \E n \in 1 .. MaxSleep : Sleep(n)
      BY <2>2 DEF Sleep, InProgram
    <3>. QED BY <2>1, <2>2, <3>1 DEF Next, AddTask, AddTaskReturns, ExecInline, InlineReturns,
                WaitForPid, Exit60, Exit80, SleepSet, SleepSpin, InProgram
  <2>4. flag[cpu.arg] = 0 /\ Sound(vl, cpu)
    BY <2>3, Running DEF WaitEnds
  <2>. QED BY <2>2, <2>4 DEF Sound
<1>. QED BY <1>1, Invariance, PTL DEF Spec, WaitReturnsAfterExit
=============================================================================
