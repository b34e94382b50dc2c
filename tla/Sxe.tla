--------------------------------- MODULE Sxe ---------------------------------
(***************************************************************************)
(* The interpreter of SXE programs (kernel/drivers/exec/sxe.c), which runs *)
(* in the task of the shell that starts it; several may run.               *)
(*                                                                         *)
(* An instruction is a step, and a task may be left between two of them.   *)
(* (A switch inside an instruction adds mixtures of two interpreters that  *)
(* share a processor page already.)  The state of the processor is a page, *)
(* kept as bytes: its arrays are indexed without a look at their size, so  *)
(* what lies behind them is part of the behaviour.  What a program prints  *)
(* is left out, and a wait for a key is a step like any other.             *)
(***************************************************************************)
EXTENDS Naturals, Sequences

CONSTANTS
  Shells,               \* the tasks that may run a program
  Images,               \* the programs: the words at the addresses 0 .. SXE_MEMORY_SIZE
  SXE_MEMORY_SIZE,
  SXE_CALL_STACK_SIZE,
  MaxRuns,              \* bound: how many programs are started
  MaxCalls              \* bound: how many calls are open

Words == 0 .. 65535

(* What is assumed of the constants.  An argument may name the word after the last of *)
(* buffer, which belongs to whatever follows the file; it is part of the image.       *)
ConstantsAssumption ==
  /\ SXE_MEMORY_SIZE \in 1 .. 4095
  /\ Images \subseteq [0 .. SXE_MEMORY_SIZE -> Words]
  /\ SXE_CALL_STACK_SIZE \in 1 .. 10

VARIABLES
  processors,  \* the pages requested for processors, which nobody frees: their bytes
  current,     \* cpu: the number of the one that all interpreters use
  header,      \* per shell: the program in its memory
  running,     \* the shells that interpret
  halted,      \* the general fault handler has stopped the machine
  open,        \* ghost: per shell, where its open calls have to return to
  disturbed    \* ghost: shells whose run met another one, or had too many calls open

sxeVars == <<processors, current, header, running, halted, open, disturbed>>

-----------------------------------------------------------------------------
(* SXE_CPU: where its fields are.  Bytes that were never written are 0, as in memory *)
(* that nobody has used.                                                             *)
MemoryPointer == 0
CallStackAt(i) == 2 + 2 * i
CallStackPointer == CallStackAt(SXE_CALL_STACK_SIZE)
StackAt(i) == CallStackPointer + 1 + 2 * i
StackPointer == StackAt(SXE_CALL_STACK_SIZE)
RegA == StackPointer + 1
RegB == RegA + 2

Byte(c, at) == IF at \in DOMAIN c THEN c[at] ELSE 0
Word(c, at) == Byte(c, at) + 256 * Byte(c, at + 1)
PutByte(c, at, b) == [x \in {at} \cup DOMAIN c |-> IF x = at THEN b % 256 ELSE c[x]]
PutWord(c, at, w) == PutByte(PutByte(c, at, w), at + 1, (w % 65536) \div 256)

(* The processor that the instructions of all interpreters use. *)
Cpu == processors[current]
Here == Word(Cpu, MemoryPointer)
A == Word(Cpu, RegA)
B == Word(Cpu, RegB)

Becomes(c) == processors' = [processors EXCEPT ![current] = c]
GoTo(c, where) == PutWord(c, MemoryPointer, where)
Advance(c) == GoTo(c, Here + 1)

(* What the shell s executes: an instruction of its own program, at the place that the *)
(* common processor says.                                                              *)
Executes(s, opcode) ==
  /\ ~halted
  /\ s \in running
  /\ Here < SXE_MEMORY_SIZE
  /\ header[s][Here] \div 4096 = opcode
Argument(s) == header[s][Here] % 4096

(* Arguments past the file are another part of memory, of zeros here. *)
Memory(s, at) == IF at <= SXE_MEMORY_SIZE THEN header[s][at] ELSE 0

-----------------------------------------------------------------------------
(* sxe_run, up to its loop, for a file whose header is accepted. *)
Run(s, image) ==
  /\ ~halted
  /\ s \notin running
  /\ Len(processors) < MaxRuns
  /\ processors' = Append(processors, <<>>)
  /\ current' = Len(processors')
  /\ header' = [header EXCEPT ![s] = image]
  /\ running' = running \cup {s}
  /\ open' = [open EXCEPT ![s] = <<>>]
  /\ disturbed' = IF running = {} THEN disturbed \ {s} ELSE disturbed \cup running'
  /\ UNCHANGED halted

(* A file with a version or a system that is not its own: the common processor is *)
(* replaced all the same.                                                         *)
Reject(s) ==
  /\ ~halted
  /\ s \notin running
  /\ Len(processors) < MaxRuns
  /\ processors' = Append(processors, <<>>)
  /\ current' = Len(processors')
  /\ disturbed' = disturbed \cup running
  /\ UNCHANGED <<header, running, halted, open>>

Leaves(s) ==
  /\ running' = running \ {s}
  /\ UNCHANGED <<processors, current, header, halted, open, disturbed>>

(* EXIT, an opcode that has no meaning (there is none left), or the end of the memory. *)
Exit(s) ==
  /\ ~halted
  /\ s \in running
  /\ Here >= SXE_MEMORY_SIZE \/ Executes(s, 15)
  /\ Leaves(s)

(* V2RA, A2RA, V2RB, A2RB *)
Load(s) ==
  /\ \/ Executes(s, 12) /\ Becomes(Advance(PutWord(Cpu, RegA, Argument(s))))
     \/ Executes(s, 10) /\ Becomes(Advance(PutWord(Cpu, RegA, Memory(s, Argument(s)))))
     \/ Executes(s, 14) /\ Becomes(Advance(PutWord(Cpu, RegB, Argument(s))))
     \/ Executes(s, 9) /\ Becomes(Advance(PutWord(Cpu, RegB, Memory(s, Argument(s)))))
  /\ UNCHANGED <<current, header, running, halted, open, disturbed>>

(* RA2A, RB2A *)
Store(s) ==
  /\ \E opcode \in {7, 8} :
       /\ Executes(s, opcode)
       /\ header' = IF Argument(s) > SXE_MEMORY_SIZE THEN header
                    ELSE [header EXCEPT ![s][Argument(s)] = IF opcode = 8 THEN A ELSE B]
  /\ Becomes(Advance(Cpu))
  /\ UNCHANGED <<current, running, halted, open, disturbed>>

(* NOP, SYSCALL, and DEBUG of the flags *)
Skip(s) ==
  /\ Executes(s, 0) \/ Executes(s, 13) \/ (Executes(s, 5) /\ Argument(s) = 16)
  /\ Becomes(Advance(Cpu))
  /\ UNCHANGED <<current, header, running, halted, open, disturbed>>

(* JUMP, JE, JM, JL, JNE *)
Jump(s) ==
  /\ \/ Executes(s, 6) /\ Becomes(GoTo(Cpu, Argument(s)))
     \/ \E opcode \in 1 .. 4 :
          /\ Executes(s, opcode)
          /\ LET taken == CASE opcode = 4 -> A = B
                            [] opcode = 3 -> A > B
                            [] opcode = 2 -> A < B
                            [] opcode = 1 -> A # B
             IN Becomes(IF taken THEN GoTo(Cpu, Argument(s)) ELSE Advance(Cpu))
  /\ UNCHANGED <<current, header, running, halted, open, disturbed>>

-----------------------------------------------------------------------------
CallBack(s) ==     \* faulty variant of Call: the address of the call itself is kept
  /\ Executes(s, 11)
  /\ Len(open[s]) < MaxCalls
  /\ LET depth == Byte(Cpu, CallStackPointer)
         kept == PutWord(Cpu, CallStackAt(depth), Here)
     IN Becomes(GoTo(PutByte(kept, CallStackPointer, Byte(kept, CallStackPointer) + 1), Argument(s)))
  /\ open' = [open EXCEPT ![s] = Append(@, Here + 1)]
  /\ disturbed' = IF Len(open'[s]) < SXE_CALL_STACK_SIZE THEN disturbed ELSE disturbed \cup {s}
  /\ UNCHANGED <<current, header, running, halted>>

(* CALL; the pointer is read again for its increment. *)
Call(s) ==
  /\ Executes(s, 11)
  /\ Len(open[s]) < MaxCalls
  /\ LET depth == Byte(Cpu, CallStackPointer)
         kept == PutWord(Cpu, CallStackAt(depth), Here + 1)
     IN Becomes(GoTo(PutByte(kept, CallStackPointer, Byte(kept, CallStackPointer) + 1), Argument(s)))
  /\ open' = [open EXCEPT ![s] = Append(@, Here + 1)]
  /\ disturbed' = IF Len(open'[s]) < SXE_CALL_STACK_SIZE THEN disturbed ELSE disturbed \cup {s}
  /\ UNCHANGED <<current, header, running, halted>>

(* Flag 17: the entry above the pointer is cleared first, and without a call it ends *)
(* the program.                                                                      *)
Return(s) ==
  /\ Executes(s, 5)
  /\ Argument(s) = 17
  /\ IF Byte(Cpu, CallStackPointer) = 0
       THEN Leaves(s)
       ELSE /\ LET above == PutWord(Cpu, CallStackAt(Byte(Cpu, CallStackPointer)), 0)
                   depth == (Byte(above, CallStackPointer) + 255) % 256
                   down == PutByte(above, CallStackPointer, depth)
                   back == GoTo(down, Word(down, CallStackAt(depth)))
               IN Becomes(PutWord(back, CallStackAt(Byte(back, CallStackPointer)), 0))
            /\ open' = [open EXCEPT ![s] = IF @ = <<>> THEN @ ELSE SubSeq(@, 1, Len(@) - 1)]
            /\ UNCHANGED <<current, header, running, halted, disturbed>>

(* Flags 18 to 21: the pushes of A and B, and the pops, which clear the entry at the *)
(* pointer and read it.  None of them moves on: the instruction is executed again.   *)
PushOrPop(s) ==
  /\ Executes(s, 5)
  /\ LET top == Byte(Cpu, StackPointer)
         Up(c) == PutByte(c, StackPointer, Byte(c, StackPointer) + 1)
         Popped(register) == LET cleared == PutWord(Cpu, StackAt(top), 0)
                             IN PutWord(cleared, register,
                                        Word(cleared, StackAt(Byte(cleared, StackPointer))))
     IN \/ Argument(s) = 18 /\ Becomes(Up(PutWord(Cpu, StackAt(top), A)))
        \/ Argument(s) = 19 /\ Becomes(Up(PutWord(Cpu, StackAt(top), B)))
        \/ Argument(s) = 20 /\ Becomes(Up(Popped(RegA)))
        \/ Argument(s) = 21 /\ Becomes(Up(Popped(RegB)))
  /\ UNCHANGED <<current, header, running, halted, open, disturbed>>

(* A shift of an int is by its last five bits. *)
Shift == B % 32

(* The words that have just these bits: one. *)
Bits(w) == {i \in 0 .. 15 : (w \div 2^i) % 2 = 1}
OfBits(bits) == {w \in Words : Bits(w) = bits}

(* Flags 1 to 14: what A becomes.  Those that increment and decrement assign the old *)
(* value afterwards.                                                                 *)
Results(flag) ==
  CASE flag = 1 -> {A + B}
    [] flag = 2 -> {A + 65536 - B}
    [] flag = 3 -> {A \div B}
    [] flag = 4 -> {(A % 256) * B + ((A \div 256) * (B % 256) % 256) * 256}
    [] flag = 5 -> OfBits((Bits(A) \cup Bits(B)) \ (Bits(A) \cap Bits(B)))
    [] flag = 6 -> OfBits(Bits(A) \cup Bits(B))
    [] flag = 7 -> OfBits(Bits(A) \cap Bits(B))
    [] flag = 8 -> {65535 - A}
    [] flag = 9 -> OfBits({i \in 0 .. 15 : i + Shift \in Bits(A)})
    [] flag = 10 -> OfBits({i \in 0 .. 15 : i >= Shift /\ i - Shift \in Bits(A)})
    [] flag = 11 -> {IF A # 0 /\ B # 0 THEN 1 ELSE 0}
    [] flag = 12 -> {IF A # 0 \/ B # 0 THEN 1 ELSE 0}
    [] flag \in {13, 14} -> {A}

Compute(s) ==
  /\ Executes(s, 5)
  /\ \/ /\ Argument(s) \in 1 .. 14
        /\ Argument(s) = 3 => B # 0
        /\ \E w \in Results(Argument(s)) : Becomes(Advance(PutWord(Cpu, RegA, w)))
     \/ /\ Argument(s) = 15
        /\ Becomes(Advance(PutWord(PutWord(Cpu, RegA, B), RegB, A)))
  /\ UNCHANGED <<current, header, running, halted, open, disturbed>>

(* A division by zero: the handler of the exception halts. *)
DivideByZero(s) ==
  /\ Executes(s, 5)
  /\ Argument(s) = 3
  /\ B = 0
  /\ halted' = TRUE
  /\ UNCHANGED <<processors, current, header, running, open, disturbed>>

-----------------------------------------------------------------------------
Init ==
  /\ processors = <<>>
  /\ current = 0
  /\ header = [s \in Shells |-> <<>>]
  /\ running = {}
  /\ halted = FALSE
  /\ open = [s \in Shells |-> <<>>]
  /\ disturbed = {}

(* The other flags do nothing, and are executed again. *)
Next ==
  \E s \in Shells :
    \/ \E image \in Images : Run(s, image)
    \/ Reject(s)
    \/ Exit(s)
    \/ Load(s)
    \/ Store(s)
    \/ Skip(s)
    \/ Jump(s)
    \/ Call(s)
    \/ Return(s)
    \/ PushOrPop(s)
    \/ Compute(s)
    \/ DivideByZero(s)

Spec == Init /\ [][Next]_sxeVars

-----------------------------------------------------------------------------
(* A program returns to where it called from, in order, whatever it pushes: the call   *)
(* stack of its processor is that of its open calls.  It holds of a program that no    *)
(* other meets, and that keeps one entry of the array free: the return with all of     *)
(* them taken clears the entry after the last, which is the pointer, and takes its     *)
(* address from far behind the processor.                                              *)
CallsReturn ==
  \A s \in running \ disturbed :
    /\ Byte(Cpu, CallStackPointer) = Len(open[s])
    /\ \A i \in 1 .. Len(open[s]) : Word(Cpu, CallStackAt(i - 1)) = open[s][i]
=============================================================================
