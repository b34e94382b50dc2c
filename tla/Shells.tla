-------------------------------- MODULE Shells --------------------------------
(***************************************************************************)
(* What shells and their programs do, side by side: the calls on files and *)
(* lines (SystemCalls), the TCP sessions (Tcp), the loading of programs    *)
(* (Programs) and their interpretation (Sxe).  None waits for another.     *)
(***************************************************************************)
EXTENDS SystemCalls

CONSTANTS
  None,
  Sessions, Ports, MaxMessages, MaxPushes, MaxResends,   \* see Tcp
  Binaries, Size, NPages, Gap, NTasks, MaxOthers,        \* see Programs
  Interpreters, Images, SXE_MEMORY_SIZE, SXE_CALL_STACK_SIZE, MaxRuns, MaxCalls   \* see Sxe

VARIABLES
  checksum, peerPort, tcpswitchboard, tcpswitchboardpointer, ethjmplist, seqlist, acklist, tcp_creat_ito,
  doing, from_port, numbers, calls, connection, pending, wire, resent, received, delivered,
  heard, hasty, refused, entangled,
  pd, owner, content, mapped, starts, place, load, pages, name, base, stack, mixed,
  processors, current, header, running, halted, open, disturbed

T == INSTANCE Tcp
P == INSTANCE Programs WITH Names <- Binaries
X == INSTANCE Sxe WITH Shells <- Interpreters

(* Sessions that have nothing in common exchange their own messages (see Tcp). *)
SessionsAreOwn == T!SessionsAreOwn

(* A task that was started alone runs the program that was typed (see Programs). *)
RunsItsProgram == P!RunsItsProgram

(* The calls of a program that nobody disturbs return where they came from (see Sxe). *)
CallsReturn == X!CallsReturn
=============================================================================
