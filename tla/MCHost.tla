------------------------------- MODULE MCHost -------------------------------
(***************************************************************************)
(* Instances of the authoring host for TLC: two descriptions, each written *)
(* to a document of its own.                                               *)
(***************************************************************************)
EXTENDS HostInvariant, TLC

CONSTANTS a, b, writtenA, writtenB

MCWritten == (a :> {writtenA}) @@ (b :> {writtenB})

Symmetric == Permutations(Objects) \cup Permutations(Requests)
=============================================================================
