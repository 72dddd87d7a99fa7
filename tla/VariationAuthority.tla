------------------------- MODULE VariationAuthority -------------------------
(***************************************************************************)
(* What the authoring protocol promises for one variation, whatever run,   *)
(* host or retry produced the change: the visible DDL changes only         *)
(* together with the authority record, one revision at a time, and the     *)
(* authority only moves forward (docs/architecture/                        *)
(* data-history-lineage.md, "compare-and-set on the expected revision, and *)
(* authority only moves forward").  Pipeline is shown to implement this    *)
(* specification.                                                          *)
(***************************************************************************)
EXTENDS AuthorityState

CONSTANTS Ddl,    \* visible documents
          None    \* no document yet

VARIABLES authority,   \* the variation's authority record
          document     \* its visible DDL, None before the first commit

variation == <<authority, document>>

Init == /\ authority \in {NewDescription, NewDirectDdl}
        /\ document = None

\* An edit of the DDL is saved: the variation belongs to its DDL from now on.
SaveUserDdl == /\ authority' = ProposeUserMutation(authority)
               /\ authority' # NoProposal
               /\ document' \in Ddl

\* A description's DDL is saved: only while the description is authoritative.
SaveDescriptionDdl == /\ authority' = ProposeStage1Result(authority)
                      /\ authority' # NoProposal
                      /\ document' \in Ddl

Next == SaveUserDdl \/ SaveDescriptionDdl

Spec == Init /\ [][Next]_variation
=============================================================================
