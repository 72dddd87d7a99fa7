--------------------------- MODULE AuthorityState ---------------------------
(***************************************************************************)
(* The authority record of one variation (inku-pipeline/src/authority.rs): *)
(* who may replace its visible DDL, and at which revision.  Every host     *)
(* stores the record beside the DDL and changes both by compare-and-set.   *)
(* The functions below only PROPOSE a next record; NoProposal stands for   *)
(* the outcomes that propose nothing (forbidden, compatibility required,   *)
(* revision exhausted), which a caller turns into an error.                *)
(***************************************************************************)
EXTENDS Integers

CONSTANT MaxRevision   \* the largest revision a record can hold (u64::MAX)

ASSUME MaxRevisionAssumption == MaxRevision \in Nat

NoProposal == [proposed |-> "nothing"]

Origins     == {"stage1_generated", "user_authored_ddl"}
Authorities == {"description_authoritative", "ddl_authoritative", "legacy_unknown"}

NewDescription == [revision |-> 0, origin |-> "stage1_generated",
                   authority |-> "description_authoritative"]
NewDirectDdl   == [revision |-> 0, origin |-> "user_authored_ddl",
                   authority |-> "ddl_authoritative"]

\* The only pair a stored record may not hold.
LegalPair(a) == ~ /\ a.origin = "user_authored_ddl"
                  /\ a.authority = "description_authoritative"

VariationAuthority ==
  {a \in [revision: 0..MaxRevision, origin: Origins, authority: Authorities] :
     LegalPair(a)}

\* Mutant of ProposeAdvance: an unchecked addition.
AdvancePastTheLimit(a, authority) ==
  [a EXCEPT !.revision = a.revision + 1, !.authority = authority]

\* checked_add(1) on the revision; the origin never changes.
ProposeAdvance(a, authority) ==
  IF a.revision >= MaxRevision THEN NoProposal
  ELSE [a EXCEPT !.revision = a.revision + 1, !.authority = authority]

\* A saved edit of the DDL takes the variation away from its description.
ProposeUserMutation(a) ==
  IF a.authority = "legacy_unknown" THEN NoProposal
  ELSE ProposeAdvance(a, "ddl_authoritative")

\* A description may write its DDL only while it is still authoritative.
ProposeStage1Result(a) ==
  IF a.authority = "description_authoritative"
  THEN ProposeAdvance(a, "description_authoritative")
  ELSE NoProposal
=============================================================================
