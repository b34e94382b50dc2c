--------------------------- MODULE MCMultitasking ---------------------------
(* A small instance of Multitasking. *)
EXTENDS Multitasking
=============================================================================
