--------------------------------- MODULE Tftp ---------------------------------
(***************************************************************************)
(* The TFTP client (kernel/drivers/fs/tftp.c): tftp_read, which lets       *)
(* tftp_filesize fetch a file to count its bytes and load_tftp_file fetch  *)
(* it again, with an ARP request before each, its one server and the       *)
(* network, which are external.                                            *)
(*                                                                         *)
(* The client sends nothing twice and compares no block numbers; it takes  *)
(* the packets for its port in the order in which they come (the order of  *)
(* the ring is E1000's matter), whatever port they come from.  A process   *)
(* of the server serves each fetch: it sends its last packet again when no *)
(* acknowledgement comes, does not give up, and heeds only the             *)
(* acknowledgement of what it sent last.  A packet is the number of a      *)
(* block; block 0 is the answer to the options, with the file's size,      *)
(* which strlen and memcmp compare to the last digit.                      *)
(*                                                                         *)
(* How much a packet brings is computed from the length of its frame, as   *)
(* the card tells it: the headers and 4 bytes for the frame's checksum are *)
(* taken off.  A card may have left the checksum in that length, or, as    *)
(* e1000_driver_start asks of the card of E1000, have taken it off (SECRC).*)
(*                                                                         *)
(* Outside the model: that the card or a poll fails, files that are larger *)
(* than the page they are copied to, the pages that the client does not    *)
(* return, and that a later packet is stored over the answer to the        *)
(* options while the client still reads the file's size from it.           *)
(***************************************************************************)
EXTENDS Integers, Sequences

CONSTANTS
  Full,         \* bytes in a full block (512)
  Pad,          \* bytes after the headers in the shortest frame, of 60 bytes (14)
  Trailer,      \* bytes of a frame's checksum (4)
  Sizes,        \* the sizes that the file may have
  MaxDoubles    \* bound: how often a packet that was not lost is sent again

(* What is assumed of the constants. *)
ConstantsAssumption ==
  /\ Trailer \in Nat \ {0}
  /\ Pad \in Nat /\ Trailer < Pad
  /\ Full \in Nat /\ Pad <= Full
  /\ Sizes \subseteq Nat
  /\ MaxDoubles \in Nat

Fetches == {"size", "load"}
ArpReply == [fetch |-> "arp", block |-> -1]
Places == {"ask", "arp", "request", "option", "block", "done"}

VARIABLES
  size,        \* of the file
  checksum,    \* the bytes of a checksum in the lengths that the card tells: all or none
  sent,        \* per fetch: the last block its process has sent, -1 before it is asked
  acked,       \* 1: that block has been acknowledged
  missed,      \* 1: the last copy of that block was lost on its way
  network,     \* what is on its way to the client or waits in its ring
  step,
  fetch,       \* the fetch under way
  peer,        \* the process that the acknowledgements go to
  foundsize,
  expected,    \* what tftp_filesize has returned
  loaded,      \* the blocks in createdbuffer
  result,      \* the blocks that the caller of tftp_read is given
  lost,        \* ghost: 1 if a packet of the client's was lost
  doubled      \* ghost: how often a packet that was not lost was sent again

server == <<sent, acked, missed>>
client == <<step, fetch, peer, foundsize, expected, loaded, result>>
file == <<size, checksum>>
vars == <<file, server, network, client, lost, doubled>>

LastBlock == size \div Full + 1
Length(block) == IF block < LastBlock THEN Full ELSE size % Full
File == [b \in 1 .. LastBlock |-> b]
Garbage == <<-1>>      \* what is copied from the address 0

(* The bytes of a block in its frame; the answer to the options is short, too. *)
InFrame(block) == IF block = 0 \/ Length(block) < Pad THEN Pad ELSE Length(block)

CountedWhole(block) ==   \* faulty variant of Counted: nothing is taken off for the checksum
  InFrame(block) + checksum

(* sizecopied. *)
Counted(block) == InFrame(block) + checksum - Trailer

(* No block of the file is padded, or empty. *)
Plain == size % Full >= Pad

(* The padding of the last block is as long as the checksums that its blocks lack: *)
(* files of 10, 518 and 1026 bytes.                                                *)
MadeUp ==
  /\ Length(LastBlock) < Pad
  /\ Pad - Length(LastBlock) = Trailer * LastBlock

-----------------------------------------------------------------------------
Init ==
  /\ size \in Sizes
  /\ checksum \in {0, Trailer}
  /\ sent = [f \in Fetches |-> -1]
  /\ acked = [f \in Fetches |-> 0]
  /\ missed = [f \in Fetches |-> 0]
  /\ network = <<>>
  /\ step = "ask"
  /\ fetch = "size"
  /\ peer = "size"
  /\ foundsize = 0
  /\ expected = 0
  /\ loaded = <<>>
  /\ result = <<>>
  /\ lost = 0
  /\ doubled = 0

-----------------------------------------------------------------------------
(* A packet of the server's reaches the client's ring or is lost. *)
Transmit(f, block) ==
  /\ sent' = [sent EXCEPT ![f] = block]
  /\ acked' = [acked EXCEPT ![f] = 0]
  /\ \/ /\ network' = Append(network, [fetch |-> f, block |-> block])
        /\ missed' = [missed EXCEPT ![f] = 0]
     \/ /\ missed' = [missed EXCEPT ![f] = 1]
        /\ UNCHANGED network

(* An acknowledgement of the client's. *)
Acknowledge(f, block) ==
  \/ /\ acked' = IF sent[f] = block THEN [acked EXCEPT ![f] = 1] ELSE acked
     /\ UNCHANGED lost
  \/ /\ lost' = 1
     /\ UNCHANGED acked

(* A fetch returns n: tftp_read goes on to the second one, or copies as many bytes *)
(* as the first one counted.                                                       *)
Return(n, blocks) ==
  IF fetch = "size"
  THEN /\ expected' = n
       /\ fetch' = "load"
       /\ step' = "ask"
       /\ UNCHANGED result
  ELSE /\ result' = IF expected = 0 THEN <<>> ELSE blocks
       /\ step' = "done"
       /\ UNCHANGED <<expected, fetch>>

-----------------------------------------------------------------------------
(* getMACFromIp: the request and, if it arrives, the answer. *)
AskMac ==
  /\ step = "ask"
  /\ step' = "arp"
  /\ \/ network' = Append(network, ArpReply) /\ UNCHANGED lost
     \/ lost' = 1 /\ UNCHANGED network
  /\ UNCHANGED <<file, server, fetch, peer, foundsize, expected, loaded, result, doubled>>

(* Whatever is polled before the answer is dropped. *)
AwaitMac ==
  /\ step = "arp"
  /\ network # <<>>
  /\ network' = Tail(network)
  /\ step' = IF Head(network) = ArpReply THEN "request" ELSE "arp"
  /\ UNCHANGED <<file, server, fetch, peer, foundsize, expected, loaded, result, lost, doubled>>

Request ==
  /\ step = "request"
  /\ step' = "option"
  /\ foundsize' = 0
  /\ \/ Transmit(fetch, 0) /\ UNCHANGED lost
     \/ lost' = 1 /\ UNCHANGED <<server, network>>
  /\ UNCHANGED <<file, fetch, peer, expected, loaded, result, doubled>>

TakeOption ==
  /\ step = "option"
  /\ network # <<>>
  /\ Head(network).block = 0
  /\ network' = Tail(network)
  /\ peer' = Head(network).fetch
  /\ Acknowledge(Head(network).fetch, 0)
  /\ step' = "block"
  /\ UNCHANGED <<file, sent, missed, fetch, foundsize, expected, loaded, result, doubled>>

(* Any other operation ends the fetch: 0 is returned. *)
Unexpected ==
  /\ step = "option"
  /\ network # <<>>
  /\ Head(network).block > 0
  /\ network' = Tail(network)
  /\ Return(0, Garbage)
  /\ UNCHANGED <<file, server, peer, foundsize, loaded, lost, doubled>>

(* Any packet is taken for the next block and its number is acknowledged; in a    *)
(* second answer to the options that number is text.                              *)
TakeBlock ==
  /\ step = "block"
  /\ network # <<>>
  /\ network' = Tail(network)
  /\ foundsize' = foundsize + Counted(Head(network).block)
  /\ loaded' = IF fetch = "load" THEN Append(loaded, Head(network).block) ELSE loaded
  /\ Acknowledge(peer, IF Head(network).block = 0 THEN -1 ELSE Head(network).block)
  /\ IF foundsize' = size THEN Return(foundsize', loaded') ELSE UNCHANGED <<step, fetch, expected, result>>
  /\ UNCHANGED <<file, sent, missed, peer, doubled>>

Client == AskMac \/ AwaitMac \/ Request \/ TakeOption \/ Unexpected \/ TakeBlock

-----------------------------------------------------------------------------
(* The server. *)
SendNext(f) ==
  /\ acked[f] = 1
  /\ sent[f] < LastBlock
  /\ Transmit(f, sent[f] + 1)
  /\ UNCHANGED <<file, client, lost, doubled>>

(* No acknowledgement comes: the packet was lost, or its acknowledgement was, or *)
(* the client is late.                                                           *)
SendAgain(f) ==
  /\ sent[f] >= 0
  /\ acked[f] = 0
  /\ IF missed[f] = 1 THEN UNCHANGED doubled ELSE doubled < MaxDoubles /\ doubled' = doubled + 1
  /\ Transmit(f, sent[f])
  /\ UNCHANGED <<file, client, lost>>

Next ==
  \/ Client
  \/ \E f \in Fetches : SendNext(f) \/ SendAgain(f)

(* The client polls, and the server sends until a packet gets through. *)
Fairness ==
  /\ WF_vars(Client)
  /\ \A f \in Fetches :
       /\ WF_vars(SendNext(f))
       /\ SF_vars(missed[f] = 1 /\ SendAgain(f) /\ missed'[f] = 0)

Spec == Init /\ [][Next]_vars /\ Fairness

-----------------------------------------------------------------------------
(* tftp_read gives its caller the file, whatever packets of the server were lost, *)
(* over a card that leaves the checksum in the length of a frame, when the file's *)
(* last block is not padded, or empty, and no packet that had arrived was sent    *)
(* again: not after an acknowledgement was lost, and not because the client was   *)
(* slow.                                                                          *)
ReadIsExact ==
  step = "done" /\ checksum = Trailer /\ Plain /\ doubled = 0 => result = File

(* Such a read also returns, unless a packet of the client's is lost: it waits    *)
(* without a time-out and sends nothing again.                                    *)
ReadEnds == checksum = Trailer /\ Plain ~> step = "done" \/ lost = 1 \/ doubled > 0

(* Over a card that takes the checksum off, such as the one of E1000, each block  *)
(* is counted 4 bytes short: unless a packet that had arrived is sent again, the  *)
(* count comes to the size of no file but the three whose padding makes up for    *)
(* it, and tftp_read never returns with any other.                                *)
ShortCountsDoNotEnd == step = "done" /\ checksum = 0 /\ doubled = 0 => MadeUp
=============================================================================
