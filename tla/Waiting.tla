------------------------------- MODULE Waiting -------------------------------
(***************************************************************************)
(* What tasks of the kernel wait for, side by side: the keyboard (Console),*)
(* an answer of the network (Network), and a file of a server (Tftp).      *)
(***************************************************************************)
EXTENDS Console

CONSTANTS
  Jobs, RxSize, MaxStrays, None,           \* see Network
  Full, Pad, Trailer, Sizes, MaxDoubles    \* see Tftp

VARIABLES
  job, slots, number, unread, head, tail, air, arrived, strays, at, pointer, took, dnstid, id,
  leased, answer, late, gone, stolen,
  size, checksum, sent, acked, missed, network, step, fetch, peer, foundsize, expected, loaded, result, lost,
  doubled

N == INSTANCE Network WITH Tasks <- Readers
F == INSTANCE Tftp

networkVars ==
  <<job, slots, number, unread, head, tail, air, arrived, strays, at, pointer, took, dnstid, id,
    leased, answer, late, gone, stolen>>
fetchVars ==
  <<size, checksum, sent, acked, missed, network, step, fetch, peer, foundsize, expected, loaded, result, lost, doubled>>

(* Who asks the network finds what it asked for, while the ring has not come round to the *)
(* packet (see Network).                                                                  *)
AnswersAreOwn == N!AnswersAreOwn

(* A file that is fetched is the server's (see Tftp). *)
ReadIsExact == F!ReadIsExact

(* Over a card that takes the checksum off there is none (see Tftp). *)
ShortCountsDoNotEnd == F!ShortCountsDoNotEnd
=============================================================================
