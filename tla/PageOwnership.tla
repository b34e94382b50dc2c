---------------------------- MODULE PageOwnership ----------------------------
(***************************************************************************)
(* What the page allocator promises its callers (memory.c: requestPage,    *)
(* requestBigPage, freePage), with no map, no loop and no cursor: a page   *)
(* has at most one owner, a call is answered with a page nobody owns that  *)
(* suits the function that was called, and a caller is refused only when   *)
(* no such page is left.                                                   *)
(***************************************************************************)
EXTENDS Naturals

CONSTANTS Callers, Pages, BigPages, Nobody, Nothing

VARIABLES
  owner,   \* who owns each page, or Nobody
  asked,   \* what each caller waits for: "page", "bigpage", or Nothing
  stuck    \* the callers that were refused; they never return

vars == <<owner, asked, stuck>>

Kinds == {"page", "bigpage"}

(* The pages a call may be answered with: any page, or an aligned one. *)
Suitable(kind) == IF kind = "page" THEN Pages ELSE BigPages

Candidates(c) == {p \in Suitable(asked[c]) : owner[p] = Nobody}

Waiting(c) == asked[c] # Nothing /\ c \notin stuck

Init ==
  /\ owner = [p \in Pages |-> Nobody]
  /\ asked = [c \in Callers |-> Nothing]
  /\ stuck = {}

Ask(c, kind) ==
  /\ asked[c] = Nothing
  /\ asked' = [asked EXCEPT ![c] = kind]
  /\ UNCHANGED <<owner, stuck>>

Obtain(c, p) ==
  /\ Waiting(c)
  /\ p \in Candidates(c)
  /\ owner' = [owner EXCEPT ![p] = c]
  /\ asked' = [asked EXCEPT ![c] = Nothing]
  /\ UNCHANGED stuck

GiveUp(c) ==
  /\ Waiting(c)
  /\ Candidates(c) = {}
  /\ stuck' = stuck \cup {c}
  /\ UNCHANGED <<owner, asked>>

Return(c, p) ==
  /\ asked[c] = Nothing
  /\ owner[p] = c
  /\ owner' = [owner EXCEPT ![p] = Nobody]
  /\ UNCHANGED <<asked, stuck>>

Next ==
  \E c \in Callers :
    \/ \E kind \in Kinds : Ask(c, kind)
    \/ \E p \in Pages : Obtain(c, p) \/ Return(c, p)
    \/ GiveUp(c)

Spec == Init /\ [][Next]_vars
=============================================================================
