--------------------------- MODULE AuthorityProofs ---------------------------
(***************************************************************************)
(* Lemmas about the authority record, for the machine and for its host: a  *)
(* record that is proposed is a legal record of the same variation.        *)
(***************************************************************************)
EXTENDS AuthorityState, TLAPS

\* An advance that is proposed is the next revision of the same variation.
LEMMA ProposeAdvanceType ==
  ASSUME NEW a \in VariationAuthority, NEW authoring \in Authorities,
         ~(a.origin = "user_authored_ddl" /\ authoring = "description_authoritative"),
         ProposeAdvance(a, authoring) # NoProposal
  PROVE  /\ ProposeAdvance(a, authoring) \in VariationAuthority
         /\ ProposeAdvance(a, authoring).authority = authoring
         /\ ProposeAdvance(a, authoring).revision = a.revision + 1
<1>1. /\ a \in [revision: 0..MaxRevision, origin: Origins, authority: Authorities]
      /\ a.revision < MaxRevision
      /\ ProposeAdvance(a, authoring)
           = [a EXCEPT !.revision = a.revision + 1, !.authority = authoring]
  BY MaxRevisionAssumption DEF ProposeAdvance, VariationAuthority
<1>2. a.revision + 1 \in 0..MaxRevision
  BY <1>1, MaxRevisionAssumption
<1> QED BY <1>1, <1>2 DEF VariationAuthority, LegalPair

\* What a record proposes is a record; only a description's own record stays
\* a description's.
LEMMA ProposalType ==
  ASSUME NEW a \in VariationAuthority,
         NEW next \in {ProposeUserMutation(a), ProposeStage1Result(a)},
         next # NoProposal
  PROVE  /\ next \in VariationAuthority
         /\ next.authority = "description_authoritative" =>
              a.authority = "description_authoritative"
<1>1. /\ "ddl_authoritative" \in Authorities /\ "description_authoritative" \in Authorities
      /\ a.authority = "description_authoritative" => a.origin # "user_authored_ddl"
  BY DEF Authorities, VariationAuthority, LegalPair
<1>2. CASE next = ProposeUserMutation(a)
  <2>1. next = ProposeAdvance(a, "ddl_authoritative")
    BY <1>2 DEF ProposeUserMutation
  <2> QED BY <2>1, <1>1, ProposeAdvanceType
<1>3. CASE next = ProposeStage1Result(a)
  <2>1. /\ next = ProposeAdvance(a, "description_authoritative")
        /\ a.authority = "description_authoritative"
    BY <1>3 DEF ProposeStage1Result
  <2> QED BY <2>1, <1>1, ProposeAdvanceType
<1> QED BY <1>2, <1>3

LEMMA NewAuthorityType ==
  /\ NewDescription \in VariationAuthority
  /\ NewDirectDdl \in VariationAuthority
  BY MaxRevisionAssumption
  DEF VariationAuthority, LegalPair, Origins, Authorities, NewDescription, NewDirectDdl

\* What a record proposes keeps its origin, takes it one revision on, and is
\* authoritative as the proposal says; an unknown record proposes nothing.
LEMMA ProposedRecord ==
  ASSUME NEW a \in VariationAuthority
  PROVE  /\ ProposeUserMutation(a) # NoProposal =>
              /\ ProposeUserMutation(a).origin = a.origin
              /\ ProposeUserMutation(a).revision = a.revision + 1
              /\ ProposeUserMutation(a).authority = "ddl_authoritative"
              /\ a.authority # "legacy_unknown"
         /\ ProposeStage1Result(a) # NoProposal =>
              /\ ProposeStage1Result(a).origin = a.origin
              /\ ProposeStage1Result(a).revision = a.revision + 1
              /\ ProposeStage1Result(a).authority = "description_authoritative"
              /\ a.authority = "description_authoritative"
  BY DEF VariationAuthority, ProposeUserMutation, ProposeStage1Result, ProposeAdvance

LEMMA NoProposalIsNoRecord == NoProposal \notin VariationAuthority
  BY DEF NoProposal, VariationAuthority
=============================================================================
