---------------------------------- MODULE Tcp ----------------------------------
(***************************************************************************)
(* The TCP sessions of kernel/drivers/ethernet.c: create_tcp_session and   *)
(* send_tcp_message, which programs call, and the part of                  *)
(* ethernet_handle_package that answers the peers from the interrupt.      *)
(*                                                                         *)
(* A program calls both with the port of its peer.  That port finds the    *)
(* local port of the session and the function that gets what arrives; the  *)
(* local port finds the numbers for the next message, which only what      *)
(* arrives from the peer moves on.  A task may be left between any two     *)
(* steps; the handler runs at once.  Nothing is sent again.                *)
(*                                                                         *)
(* Each session has a peer of its own, external: it sends one segment at a *)
(* time, again until it is acknowledged, and takes a segment only if it    *)
(* has the number that comes next.  A message or a push counts for one     *)
(* number, as SYN and FIN do, and the last push with its FIN: what the     *)
(* driver acknowledges of a segment in part is not acknowledged.  Outside  *)
(* the model: the bytes of a segment, the pages of the messages            *)
(* (PageAllocator), the wait for the hardware address (Network), and ports *)
(* and sessions beyond the arrays.                                         *)
(***************************************************************************)
EXTENDS Integers, Sequences, FiniteSets

CONSTANTS
  Sessions,
  Ports,        \* the ports of the peers that are considered: functions from sessions
  MaxMessages, MaxPushes, MaxResends,   \* bounds: functions from sessions
  None

FirstPort == 100
LocalPorts == {0} \cup FirstPort .. FirstPort + Cardinality(Sessions)

ConstantsAssumption ==
  /\ IsFiniteSet(Sessions) /\ None \notin Sessions
  /\ Ports \subseteq [Sessions -> Nat]
  /\ MaxPushes \in [Sessions -> Nat]

VARIABLES
  checksum,     \* 1 if the card leaves the checksum of a frame in the length that it tells
  peerPort,     \* per session: the port of its peer, which its program passes
  tcpswitchboard, tcpswitchboardpointer,
  ethjmplist,   \* per port of a peer: the session whose function is called
  seqlist, acklist,   \* per local port
  tcp_creat_ito,
  doing,        \* per session: where its program is
  from_port,    \* per session: the local variable of the call
  numbers,      \* per session: the numbers that the call has read
  calls,        \* messages per session
  connection,   \* per peer: the local port, the number it expects, and its own next one
  pending,      \* per peer: the segment that is not acknowledged, or Nothing
  wire,         \* per peer: its segments on their way
  resent,       \* per peer
  received,     \* per peer: the messages it took
  delivered,    \* per session: what its function was called with
  heard,        \* ghost, per session: how many messages its peer had when it sent what was handled last
  hasty,        \* ghost: messages whose numbers were read before all others were heard of
  refused,      \* ghost: messages that reached their peer and were not taken
  entangled       \* ghost: sessions with a port in common, or made at the same time

tables == <<tcpswitchboard, tcpswitchboardpointer, ethjmplist, seqlist, acklist, tcp_creat_ito>>
program == <<doing, from_port, numbers, calls>>
peer == <<connection, pending, wire, resent, received>>
ghosts == <<heard, hasty, refused, entangled>>
tcpVars == <<checksum, peerPort, tables, program, peer, delivered, ghosts>>

Nothing == [kind |-> "none", seq |-> 0]
Closed == [port |-> 0, rcv |-> 0, snd |-> 0]
Creating == {"load", "store", "connect"}

Goto(s, place) == doing' = [doing EXCEPT ![s] = place]

-----------------------------------------------------------------------------
(* What entangles a session with one that is there already.  A local port is given again *)
(* when the making of others overlapped.                                                 *)
LocalPortsOf(s) == {tcpswitchboard[peerPort[s]], from_port[s], connection[s].port}
Meets(s, u) ==
  doing[u] \in Creating \/ peerPort[u] = peerPort[s] \/ tcpswitchboardpointer \in LocalPortsOf(u)

(* create_tcp_session: tcpswitchboardpointer is read twice and then stored. *)
Assign(s) ==
  /\ doing[s] = "start"
  /\ tcpswitchboard' = [tcpswitchboard EXCEPT ![peerPort[s]] = tcpswitchboardpointer]
  /\ Goto(s, "load")
  /\ LET with == {u \in Sessions \ {s} : doing[u] # "start" /\ Meets(s, u)}
     IN entangled' = IF with = {} THEN entangled ELSE entangled \cup with \cup {s}
  /\ UNCHANGED <<checksum, peerPort, tcpswitchboardpointer, ethjmplist, seqlist, acklist, tcp_creat_ito,
                 from_port, numbers, calls, peer, delivered, heard, hasty, refused>>

LoadPort(s) ==
  /\ doing[s] = "load"
  /\ from_port' = [from_port EXCEPT ![s] = tcpswitchboardpointer]
  /\ Goto(s, "store")
  /\ UNCHANGED <<checksum, peerPort, tables, numbers, calls, peer, delivered, ghosts>>

StorePort(s) ==
  /\ doing[s] = "store"
  /\ tcpswitchboardpointer' = from_port[s] + 1
  /\ Goto(s, "connect")
  /\ UNCHANGED <<checksum, peerPort, tcpswitchboard, ethjmplist, seqlist, acklist, tcp_creat_ito, from_port,
                 numbers, calls, peer, delivered, ghosts>>

(* What the peer of s sends now arrives, or it is lost. *)
Offer(s) ==
  \/ wire' = [wire EXCEPT ![s] =
                Append(@, [kind |-> pending'[s].kind, seq |-> pending'[s].seq, port |-> connection'[s].port,
                           ack |-> connection'[s].rcv, has |-> Len(received[s])])]
  \/ UNCHANGED wire

(* The hardware address is there: the numbers are cleared, and a SYN is sent, which its *)
(* peer answers or which is lost.                                                       *)
Connect(s) ==
  /\ doing[s] = "connect"
  /\ seqlist' = [seqlist EXCEPT ![from_port[s]] = 0]
  /\ acklist' = [acklist EXCEPT ![from_port[s]] = 0]
  /\ tcp_creat_ito' = tcp_creat_ito + 10
  /\ ethjmplist' = [ethjmplist EXCEPT ![peerPort[s]] = s]
  /\ Goto(s, "idle")
  /\ \/ /\ connection' = [connection EXCEPT ![s] = [port |-> from_port[s], rcv |-> tcp_creat_ito + 1, snd |-> 1]]
        /\ pending' = [pending EXCEPT ![s] = [kind |-> "synack", seq |-> 0]]
        /\ Offer(s)
     \/ UNCHANGED <<connection, pending, wire>>
  /\ UNCHANGED <<checksum, peerPort, tcpswitchboard, tcpswitchboardpointer, from_port, numbers, calls, resent,
                 received, delivered, ghosts>>

-----------------------------------------------------------------------------
(* send_tcp_message: the local port, the numbers (the arguments of fillTcpHeader) and *)
(* the segment.                                                                       *)
LookUp(s) ==
  /\ doing[s] = "idle"
  /\ calls[s] < MaxMessages[s]
  /\ calls' = [calls EXCEPT ![s] = @ + 1]
  /\ from_port' = [from_port EXCEPT ![s] = tcpswitchboard[peerPort[s]]]
  /\ Goto(s, "number")
  /\ UNCHANGED <<checksum, peerPort, tables, numbers, peer, delivered, ghosts>>

Number(s) ==
  /\ doing[s] = "number"
  /\ numbers' = [numbers EXCEPT ![s] = [seq |-> seqlist[from_port[s]], ack |-> acklist[from_port[s]]]]
  /\ hasty' = IF heard[s] = Len(received[s]) THEN hasty ELSE [hasty EXCEPT ![s] = @ \cup {calls[s]}]
  /\ Goto(s, "transmit")
  /\ UNCHANGED <<checksum, peerPort, tables, from_port, calls, peer, delivered, heard, refused, entangled>>

(* What the peer of s acknowledges of a segment that reaches it. *)
Acknowledged(s, port, ack) ==
  IF connection[s].port = port /\ pending[s] # Nothing /\ ack = pending[s].seq + 1
  THEN [pending EXCEPT ![s] = Nothing] ELSE pending

Transmit(s) ==
  /\ doing[s] = "transmit"
  /\ Goto(s, "idle")
  /\ \/ /\ pending' = Acknowledged(s, from_port[s], numbers[s].ack)
        /\ IF connection[s].port = from_port[s] /\ connection[s].rcv = numbers[s].seq
             THEN /\ received' = [received EXCEPT ![s] = Append(@, calls[s])]
                  /\ connection' = [connection EXCEPT ![s].rcv = @ + 1]
                  /\ UNCHANGED refused
             ELSE /\ refused' = [refused EXCEPT ![s] = @ \cup {calls[s]}]
                  /\ UNCHANGED <<received, connection>>
     \/ UNCHANGED <<pending, received, connection, refused>>
  /\ UNCHANGED <<checksum, peerPort, tables, from_port, numbers, calls, wire, resent, delivered, heard,
                 hasty, entangled>>

-----------------------------------------------------------------------------
(* ethernet_handle_package for a segment p of the peer of s: the numbers are noted, the *)
(* segment is acknowledged, which may be lost, and the function of the peer's port is   *)
(* called, twice for the last push with its FIN.                                        *)
(* The length of a push is computed from that of its frame, less 12 bytes of options and 4 of *)
(* checksum: 4 bytes are missing if the card has taken the checksum off.  Its flag is looked  *)
(* at before those of SYN and FIN, so a FIN that comes with it is not counted.                *)
Counts(p) == CASE p.kind = "push" -> checksum [] p.kind = "last" -> 0 [] OTHER -> 1

NumbersAfterAckOnly(p) ==   \* faulty variant of NumbersAfter: what the peer has is not noted
  acklist' = [acklist EXCEPT ![p.port] = p.seq + Counts(p)] /\ UNCHANGED seqlist

NumbersAfter(p) ==
  /\ seqlist' = [seqlist EXCEPT ![p.port] = p.ack]
  /\ acklist' = [acklist EXCEPT ![p.port] = p.seq + Counts(p)]

Handle(s) ==
  /\ wire[s] # <<>>
  /\ LET p == Head(wire[s])
         called == ethjmplist[peerPort[s]]
     IN /\ NumbersAfter(p)
        /\ pending' \in {pending, Acknowledged(s, p.port, p.seq + Counts(p))}
        /\ delivered' = IF called = None THEN delivered
                        ELSE [delivered EXCEPT ![called] = Append(@, [kind |-> p.kind, by |-> s, seq |-> p.seq])]
        /\ heard' = [heard EXCEPT ![s] = p.has]
  /\ wire' = [wire EXCEPT ![s] = Tail(@)]
  /\ UNCHANGED <<checksum, peerPort, tcpswitchboard, tcpswitchboardpointer, ethjmplist, tcp_creat_ito, program,
                 connection, resent, received, hasty, refused, entangled>>

-----------------------------------------------------------------------------
(* The peer: a push, or the end of the session, or both.  Of the latter it repeats the end *)
(* alone when it has the acknowledgement of the bytes.                                     *)
Push(s, kind) ==
  /\ pending[s] = Nothing
  /\ connection[s].snd \in 1 .. MaxPushes[s]
  /\ connection' = [connection EXCEPT ![s].snd = IF kind = "push" THEN @ + 1 ELSE MaxPushes[s] + 1]
  /\ pending' = [pending EXCEPT ![s] = [kind |-> kind, seq |-> connection[s].snd]]
  /\ Offer(s)
  /\ UNCHANGED <<checksum, peerPort, tables, program, resent, received, delivered, ghosts>>

Resend(s) ==
  /\ pending[s] # Nothing
  /\ resent[s] < MaxResends[s]
  /\ resent' = [resent EXCEPT ![s] = @ + 1]
  /\ \/ UNCHANGED pending
     \/ /\ pending[s].kind = "last" /\ checksum = 1
        /\ pending' = [pending EXCEPT ![s].kind = "fin"]
  /\ UNCHANGED connection
  /\ Offer(s)
  /\ UNCHANGED <<checksum, peerPort, tables, program, received, delivered, ghosts>>

-----------------------------------------------------------------------------
Init ==
  /\ checksum \in {0, 1}
  /\ peerPort \in Ports
  /\ tcpswitchboard = [p \in {peerPort[s] : s \in Sessions} |-> 0]
  /\ tcpswitchboardpointer = FirstPort
  /\ ethjmplist = [p \in {peerPort[s] : s \in Sessions} |-> None]
  /\ seqlist = [p \in LocalPorts |-> 0]
  /\ acklist = [p \in LocalPorts |-> 0]
  /\ tcp_creat_ito = 10
  /\ doing = [s \in Sessions |-> "start"]
  /\ from_port = [s \in Sessions |-> 0]
  /\ numbers = [s \in Sessions |-> [seq |-> 0, ack |-> 0]]
  /\ calls = [s \in Sessions |-> 0]
  /\ connection = [s \in Sessions |-> Closed]
  /\ pending = [s \in Sessions |-> Nothing]
  /\ wire = [s \in Sessions |-> <<>>]
  /\ resent = [s \in Sessions |-> 0]
  /\ received = [s \in Sessions |-> <<>>]
  /\ delivered = [s \in Sessions |-> <<>>]
  /\ heard = [s \in Sessions |-> -1]
  /\ hasty = [s \in Sessions |-> {}]
  /\ refused = [s \in Sessions |-> {}]
  /\ entangled = {}

Next ==
  \E s \in Sessions :
    \/ Assign(s)
    \/ LoadPort(s)
    \/ StorePort(s)
    \/ Connect(s)
    \/ LookUp(s)
    \/ Number(s)
    \/ Transmit(s)
    \/ Handle(s)
    \/ \E kind \in {"push", "fin", "last"} : Push(s, kind)
    \/ Resend(s)

Spec == Init /\ [][Next]_tcpVars

-----------------------------------------------------------------------------
(* A session whose ports nobody else uses, and whose making overlapped no other's, is   *)
(* its own: a message that reaches its peer is taken, unless it was sent before the     *)
(* peer was heard of after the message before (then both have the same number); what    *)
(* the peer takes is in order and nothing twice; and the function is called with all    *)
(* that the peer sends, in order, with nothing of another peer, though at times again.  *)
SessionsAreOwn ==
  \A s \in Sessions \ entangled :
    /\ refused[s] \subseteq hasty[s]
    /\ \A i \in 2 .. Len(received[s]) : received[s][i - 1] < received[s][i]
    /\ \A i \in 1 .. Len(delivered[s]) :
         /\ delivered[s][i].by = s
         /\ IF i = 1 THEN delivered[s][i].seq = 0
            ELSE delivered[s][i].seq - delivered[s][i - 1].seq \in {0, 1}
=============================================================================
