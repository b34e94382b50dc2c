------------------------------- MODULE Console -------------------------------
(***************************************************************************)
(* Reading the keyboard: the interrupt handler and get2ch (ps2.c), scanLine *)
(* (device.c) with the malloc and free of its buffer (memory.c), the shell  *)
(* loop that calls it (tty.c) and the system calls 403 and 404 of programs, *)
(* which read one key.                                                      *)
(*                                                                          *)
(* One byte, last_pressed_key, holds the last key that was released, or 0.  *)
(* get2ch polls it, copies it and clears it in three steps; the keyboard's  *)
(* interrupt and the timer, which hands the processor to another reader,    *)
(* may come between any two of them.  Keys are numbered in the order they   *)
(* are released; which character a number stands for (and so the shift      *)
(* keys, which only select the table) is left out, except that it may be 0, *)
(* as for the function keys, or the end of a line.                          *)
(***************************************************************************)
EXTENDS Naturals, Sequences

CONSTANTS
  Readers,   \* tasks that read the keyboard
  NBuffers,  \* slots of emptymap
  MaxLine,   \* the argument of scanLine (50)
  MaxKeys    \* bound: so many keys are released

ASSUME ConsoleAssumption ==
  /\ NBuffers \in Nat
  /\ MaxLine \in Nat \ {0}
  /\ MaxKeys \in Nat

Buffers == 0 .. NBuffers - 1
NoBuffer == NBuffers   \* malloc's 0: no slot was free
Keys == 1 .. MaxKeys

(* Where a reader is: outside, in malloc before it marks its slot, in the loop of *)
(* get2ch, after it, before the byte is cleared, and carrying out the command.    *)
Places == {"idle", "malloc", "poll", "copy", "clear", "command"}

VARIABLES
  last_pressed_key,
  released,    \* how many keys have been released
  newline,     \* the keys that end a line
  emptymap,
  pc,
  wait,        \* per reader: scanLine, a call that waits for a key, or one that does not
  tmp,         \* per reader: the copy get2ch took
  buffer,      \* per reader: the slot its line is in
  line,        \* per reader: the bytes it was given since its call began
  calm,        \* ghost: readers nobody has interfered with since they saw a key
  shared       \* ghost: slots marked by a reader that found them free and was too late

keyboard == <<last_pressed_key, released, newline>>
call == <<wait, tmp, buffer, line>>
vars == <<keyboard, emptymap, pc, call, calm, shared>>

-----------------------------------------------------------------------------
Init ==
  /\ last_pressed_key = 0
  /\ released = 0
  /\ newline = {}
  /\ emptymap = [b \in Buffers |-> 0]
  /\ pc = [t \in Readers |-> "idle"]
  /\ wait = [t \in Readers |-> "line"]
  /\ tmp = [t \in Readers |-> 0]
  /\ buffer = [t \in Readers |-> NoBuffer]
  /\ line = [t \in Readers |-> <<>>]
  /\ calm = {}
  /\ shared = {}

(* irq_keyboard: the release of a key replaces what has not been read yet; that of *)
(* a key without a character replaces it by 0.                                     *)
Release ==
  /\ released < MaxKeys
  /\ released' = released + 1
  /\ last_pressed_key' \in {0, released + 1}
  /\ newline' \in {newline, newline \cup {released + 1}}
  /\ calm' = {}
  /\ UNCHANGED <<emptymap, pc, call, shared>>

-----------------------------------------------------------------------------
(* scanLine: malloc looks for a slot; one that is full returns 0, and the line is *)
(* written at address 0.                                                          *)
ScanLine(t) ==
  /\ pc[t] = "idle"
  /\ \/ \E b \in Buffers :
          /\ emptymap[b] = 0
          /\ \A c \in Buffers : c < b => emptymap[c] = 1
          /\ buffer' = [buffer EXCEPT ![t] = b]
          /\ pc' = [pc EXCEPT ![t] = "malloc"]
     \/ /\ \A b \in Buffers : emptymap[b] = 1
        /\ pc' = [pc EXCEPT ![t] = "poll"]
        /\ UNCHANGED buffer
  /\ wait' = [wait EXCEPT ![t] = "line"]
  /\ UNCHANGED <<keyboard, emptymap, tmp, line, calm, shared>>

MallocUnmarked(t) ==   \* faulty variant of MallocMarks: the slot is not marked
  /\ pc[t] = "malloc"
  /\ pc' = [pc EXCEPT ![t] = "poll"]
  /\ UNCHANGED <<keyboard, emptymap, call, calm, shared>>

(* The slot is marked, whatever it has become, and the buffer cleared. *)
MallocMarks(t) ==
  /\ pc[t] = "malloc"
  /\ emptymap' = [emptymap EXCEPT ![buffer[t]] = 1]
  /\ shared' = IF emptymap[buffer[t]] = 1 THEN shared \cup {buffer[t]} ELSE shared
  /\ pc' = [pc EXCEPT ![t] = "poll"]
  /\ UNCHANGED <<keyboard, call, calm>>

(* System call 404 waits for a key, 403 takes what there is. *)
ReadOne(t, w) ==
  /\ pc[t] = "idle"
  /\ wait' = [wait EXCEPT ![t] = w]
  /\ pc' = [pc EXCEPT ![t] = IF w = "key" THEN "poll" ELSE "copy"]
  /\ UNCHANGED <<keyboard, emptymap, tmp, buffer, line, calm, shared>>

-----------------------------------------------------------------------------
(* get2ch *)

Poll(t) ==
  /\ pc[t] = "poll"
  /\ last_pressed_key # 0
  /\ pc' = [pc EXCEPT ![t] = "copy"]
  /\ calm' = IF \E u \in Readers \ {t} : pc[u] \in {"copy", "clear"} THEN {} ELSE {t}
  /\ UNCHANGED <<keyboard, emptymap, call, shared>>

Copy(t) ==
  /\ pc[t] = "copy"
  /\ tmp' = [tmp EXCEPT ![t] = last_pressed_key]
  /\ pc' = [pc EXCEPT ![t] = "clear"]
  /\ calm' = calm \cap {t}
  /\ UNCHANGED <<keyboard, emptymap, wait, buffer, line, shared>>

(* What the caller does with the byte: a line goes on until a newline, which is not *)
(* stored, or until it is full; a read of one key is over.                          *)
Given(t, b) ==
  /\ line' = [line EXCEPT ![t] = IF wait[t] = "line" /\ b \in newline THEN @ ELSE Append(@, b)]
  /\ pc' = [pc EXCEPT ![t] = IF wait[t] = "line" /\ b \notin newline /\ Len(line[t]) + 1 < MaxLine
                             THEN "poll" ELSE "command"]

ClearNothing(t) ==     \* faulty variant of Clear: the byte is left as it is
  /\ pc[t] = "clear"
  /\ Given(t, tmp[t])
  /\ tmp' = [tmp EXCEPT ![t] = 0]
  /\ calm' = calm \ {t}
  /\ UNCHANGED <<keyboard, emptymap, wait, buffer, shared>>

(* The byte is cleared, and tmp returned. *)
Clear(t) ==
  /\ pc[t] = "clear"
  /\ last_pressed_key' = 0
  /\ Given(t, tmp[t])
  /\ tmp' = [tmp EXCEPT ![t] = 0]
  /\ calm' = calm \ {t}
  /\ UNCHANGED <<released, newline, emptymap, wait, buffer, shared>>

(* The command has been carried out and the shell frees the line; a program goes on. *)
Done(t) ==
  /\ pc[t] = "command"
  /\ emptymap' = [b \in Buffers |-> IF b = buffer[t] THEN 0 ELSE emptymap[b]]
  /\ shared' = IF \E u \in Readers \ {t} : buffer[u] = buffer[t] THEN shared
               ELSE shared \ {buffer[t]}
  /\ buffer' = [buffer EXCEPT ![t] = NoBuffer]
  /\ line' = [line EXCEPT ![t] = <<>>]
  /\ wait' = [wait EXCEPT ![t] = "line"]
  /\ pc' = [pc EXCEPT ![t] = "idle"]
  /\ UNCHANGED <<keyboard, tmp, calm>>

Reads(t) == MallocMarks(t) \/ Poll(t) \/ Copy(t) \/ Clear(t)

Next ==
  \/ Release
  \/ \E t \in Readers :
       \/ ScanLine(t)
       \/ \E w \in {"key", "none"} : ReadOne(t, w)
       \/ Reads(t)
       \/ Done(t)

(* Every reader gets the processor again and again (see Multitasking), and its   *)
(* loop turns many times while it has it.                                        *)
Fairness == \A t \in Readers : WF_vars(Reads(t))

Spec == Init /\ [][Next]_vars /\ Fairness

-----------------------------------------------------------------------------
(* The keys of a line are in the order they were released, each at most once,   *)
(* whatever other readers and the keyboard do between the steps of get2ch; only *)
(* zeros may come between them.                                                 *)
LinesInOrder ==
  \A t \in Readers : \A i, j \in 1 .. Len(line[t]) :
    i < j /\ line[t][i] # 0 /\ line[t][j] # 0 => line[t][i] < line[t][j]

(* A reader that nobody interferes with between the poll and the clearing of the *)
(* byte gets a key, not the 0 it waited to go away, and gets it alone: no other  *)
(* reader has it or will get it.                                                 *)
CalmReadsAreExact ==
  \A t \in calm :
    pc[t] = "clear" =>
      /\ tmp[t] # 0
      /\ \A u \in Readers \ {t} :
           tmp[u] # tmp[t] /\ \A i \in 1 .. Len(line[u]) : line[u][i] # tmp[t]

(* Two lines are written to the same buffer only when one reader was overtaken   *)
(* between the test of the slot in malloc and its mark, or when the map is full. *)
BuffersArePrivate ==
  \A t, u \in Readers :
    t # u /\ buffer[t] = buffer[u] /\ buffer[t] # NoBuffer
      /\ pc[t] # "malloc" /\ pc[u] # "malloc" => buffer[t] \in shared

(* A key does not stay in the byte while somebody waits for one. *)
KeyIsRead ==
  last_pressed_key # 0 /\ (\E t \in Readers : pc[t] = "poll") ~> last_pressed_key = 0
=============================================================================
