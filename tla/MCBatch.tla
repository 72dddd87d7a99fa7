------------------------------ MODULE MCBatch ------------------------------
(***************************************************************************)
(* Instances of a batch for TLC.                                           *)
(***************************************************************************)
EXTENDS BatchProperties, TLC

Symmetric == Permutations(Pages)
=============================================================================
