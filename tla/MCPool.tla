------------------------------- MODULE MCPool -------------------------------
(***************************************************************************)
(* Instances of the pool for TLC.                                          *)
(***************************************************************************)
EXTENDS Pool

(* Heap addresses below the data buffer and beyond its end. *)
HeapApart == {-1, -2, 7, 8}
=============================================================================
