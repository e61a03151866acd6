----------------------------- MODULE MCConsumer -----------------------------
(***************************************************************************)
(* Instances of the consumer agent for TLC.                                *)
(***************************************************************************)
EXTENDS ConsumerSystem, TLC

Symmetry == Permutations(Clients)
Fast == {0, 1}
=============================================================================
