------------------------------- MODULE MCFatFs -------------------------------
(* Small instances of FatFs: a directory of two entries on a volume of four  *)
(* one-sector clusters, two of which the search for a free one considers.    *)
EXTENDS FatFs, TLC

CONSTANTS f, g

FilesFG == {f, g}
NoAliases == {}
FBeginsG == {<<f, g>>}
MCScanned == {3, 4}

Old(n, c, s) == [name |-> n, attributes |-> 32, cluster |-> c, size |-> s]

(* f in a cluster below those that are scanned, g in one of them or empty. *)
MCEntries == {Old(f, 2, 1), Old(g, 3, 1), Old(g, 0, 0), Old(Deleted, 2, 1)}

NoEntries == {}

Symmetry == Permutations(Tasks)
=============================================================================
