----------------------------- MODULE MCProvider -----------------------------
(***************************************************************************)
(* Instances of the provider agent for TLC.                                *)
(***************************************************************************)
EXTENDS ProviderSystem, TLC

Symmetry == Permutations(Clients)
=============================================================================
