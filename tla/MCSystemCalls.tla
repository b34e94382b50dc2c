---------------------------- MODULE MCSystemCalls ----------------------------
(***************************************************************************)
(* Small instances of what shells and their programs do: a machine whose   *)
(* tasks use files or read lines (SystemCalls), one whose programs use TCP *)
(* (Tcp), one that loads programs (Programs), or one that interprets them  *)
(* (Sxe).  File calls and line calls share no state, so a task makes calls *)
(* of one kind.                                                            *)
(***************************************************************************)
EXTENDS Shells, TLC

CONSTANTS s1, s2, a, b

VARIABLE kind   \* per task: the calls it makes; or another machine

-----------------------------------------------------------------------------
(* Two peers with one port, or with two; the first session is the busy one. *)
MCPorts == {s1 :> 80 @@ s2 :> 80, s1 :> 80 @@ s2 :> 81}
MCMessages == s1 :> 2 @@ s2 :> 0
MCOnce == s1 :> 1 @@ s2 :> 0

(* A program of one page, and one of two. *)
MCSize == a :> 1 @@ b :> 2

(* An SXE program of the words of code. *)
Image(code) ==
  [at \in 0 .. SXE_MEMORY_SIZE |-> IF at < Len(code) THEN code[at + 1] ELSE 0]
I(opcode, argument) == 4096 * opcode + argument

(* A call in a call. *)
Nested == Image(<<I(11, 2), I(15, 0), I(11, 4), I(5, 17), I(12, 3), I(5, 17)>>)

(* It, and one that stores into its own exit, one that has three calls open, one that jumps *)
(* and pushes, and others that push, pop and divide.                                        *)
MCImages ==
  {Nested,
   Image(<<I(11, 2), I(15, 0), I(12, 7), I(11, 5), I(5, 17), I(8, 1), I(5, 17)>>),
   Image(<<I(11, 2), I(0, 0), I(11, 4), I(13, 0), I(11, 6), I(5, 17), I(5, 17)>>),
   Image(<<I(12, 2), I(9, 0), I(1, 4), I(0, 0), I(2, 6), I(15, 0), I(5, 1), I(4, 0), I(3, 9), I(5, 18)>>),
   Image(<<I(11, 2), I(15, 0), I(14, 3), I(5, 15), I(10, 1), I(7, 0), I(5, 19)>>),
   Image(<<I(5, 14), I(5, 16), I(6, 3), I(5, 20)>>),
   Image(<<I(11, 2), I(5, 3), I(11, 4), I(5, 21), I(5, 17)>>),
   Image(<<I(11, 2), I(5, 3), I(5, 17)>>)}

ASSUME TcpConstants == T!ConstantsAssumption
ASSUME LoadConstants == P!ConstantsAssumption
ASSUME ImageConstants == X!ConstantsAssumption

-----------------------------------------------------------------------------
tcpVars ==
  <<checksum, peerPort, tcpswitchboard, tcpswitchboardpointer, ethjmplist, seqlist, acklist, tcp_creat_ito,
    doing, from_port, numbers, calls, connection, pending, wire, resent, received, delivered,
    heard, hasty, refused, entangled>>
loadVars == <<pd, owner, content, mapped, starts, place, load, pages, name, base, stack, mixed>>
sxeVars == <<processors, current, header, running, halted, open, disturbed>>

NoTcp ==
  /\ checksum = 0 /\ peerPort = <<>> /\ tcpswitchboard = <<>> /\ tcpswitchboardpointer = 0 /\ ethjmplist = <<>>
  /\ seqlist = <<>> /\ acklist = <<>> /\ tcp_creat_ito = 0 /\ doing = <<>> /\ from_port = <<>>
  /\ numbers = <<>> /\ calls = <<>> /\ connection = <<>> /\ pending = <<>> /\ wire = <<>>
  /\ resent = <<>> /\ received = [s \in {s1, s2} |-> <<>>] /\ delivered = [s \in {s1, s2} |-> <<>>]
  /\ heard = <<>> /\ hasty = [s \in {s1, s2} |-> {}] /\ refused = [s \in {s1, s2} |-> {}]
  /\ entangled = {}

NoLoads ==
  /\ pd = None /\ owner = <<>> /\ content = <<>> /\ mapped = 0 /\ starts = 0
  /\ place = [t \in P!Pids |-> "none"] /\ load = <<>> /\ pages = <<>> /\ name = <<>> /\ base = <<>>
  /\ stack = <<>> /\ mixed = {}

NoSxe ==
  /\ processors = <<>> /\ current = 0 /\ header = <<>> /\ running = {} /\ halted = FALSE /\ open = <<>>
  /\ disturbed = {}

(* No calls, and an empty disk that stays so. *)
NoCalls == Init /\ disk = [f \in Names |-> <<>>]

Other(machine) == kind = [t \in Tasks |-> machine]
Is(machine) == \A t \in Tasks : kind[t] = machine

MCInit ==
  \/ Init /\ kind \in [Tasks -> {"files", "lines"}] /\ NoTcp /\ NoLoads /\ NoSxe
  \/ Other("tcp") /\ T!Init /\ NoCalls /\ NoLoads /\ NoSxe
  \/ Other("loads") /\ P!Init /\ NoCalls /\ NoTcp /\ NoSxe
  \/ Other("sxe") /\ X!Init /\ NoCalls /\ NoTcp /\ NoLoads

(* The first program is of one page, uses no stack and meets no others: it only makes a *)
(* second shell.  The two are alike, and it is the first that starts the next program.  *)
SecondShell ==
  /\ load'[2] # 3
  /\ starts' <= 2 =>
       /\ name'[2] # b
       /\ \A p \in P!Pages : owner[p] = P!Other <=> owner'[p] = P!Other
       /\ place[2] = "program" => place'[2] # "program"

(* Where there is more than one run, it is of the nested calls. *)
FewRuns == Len(processors') > 1 => \A s \in {s1, s2} : header'[s] \in {Nested, <<>>}

MCNext ==
  \/ /\ \E t \in Tasks :
          \/ kind[t] = "files" /\ FileCall(t)
          \/ kind[t] = "lines" /\ LineCall(t)
     /\ UNCHANGED <<kind, tcpVars, loadVars, sxeVars>>
  \/ Is("tcp") /\ T!Next /\ UNCHANGED <<kind, vars, loadVars, sxeVars>>
  \/ Is("loads") /\ P!Next /\ SecondShell /\ UNCHANGED <<kind, vars, tcpVars, sxeVars>>
  \/ Is("sxe") /\ X!Next /\ FewRuns /\ UNCHANGED <<kind, vars, tcpVars, loadVars>>

MCSpec == MCInit /\ [][MCNext]_<<vars, tcpVars, loadVars, sxeVars, kind>>

Symmetry == Permutations(Tasks)
=============================================================================
