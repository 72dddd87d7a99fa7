---------------------------- MODULE MachineView ----------------------------
(***************************************************************************)
(* The authoring machine as its host sees it: what each input may make of  *)
(* a snapshot, with documents, prompts and stages left out                 *)
(* (PipelineSnapshot and advance in inku-pipeline/src/machine.rs).         *)
(* MachineSteps makes a specification of these steps, and Pipeline is      *)
(* shown to implement it: a host may be modelled over them alone.          *)
(***************************************************************************)
EXTENDS AuthorityState

CONSTANTS
  Descriptions,       \* what an author may describe
  Documents,          \* the visible documents
  Written,            \* Written[d]: the documents a run of description d may write
  DescriptionReasons, \* the reasons under which such a run commits
  None

ASSUME WrittenAssumption == Written \in [Descriptions -> SUBSET Documents]

Unstarted(a) == [phase |-> "unstarted", authority |-> a, document |-> None,
                 proposal |-> None, source |-> None]

\* A provider is asked, for a run of description d or, when None, of a work
\* without one.
Asked(v, d)   == [v EXCEPT !.phase = "asking", !.source = d, !.proposal = None]
Completing(v) == [v EXCEPT !.phase = "completing", !.source = None, !.proposal = None]
Settled(v)    == [v EXCEPT !.phase = "rest", !.source = None, !.proposal = None]

\* One of the documents is proposed to the host under the next record.
Proposed(v, documents, reason, next) ==
  IF next = NoProposal THEN {}
  ELSE {[v EXCEPT !.phase = "committing", !.source = None,
                  !.proposal = [document |-> d, reason |-> reason, next |-> next]] :
          d \in documents}

ProposedByUser(v) == Proposed(v, Documents, "user", ProposeUserMutation(v.authority))

\* A description starts a run of its own; anything else is a DDL, saved laws or
\* an image.
Started(v) ==
  IF v.authority.authority = "description_authoritative"
  THEN {Asked(v, d) : d \in Descriptions}
  ELSE ProposedByUser(v) \cup {Asked(v, None), Settled(v)}

\* A provider's result: asked again, given up, or a document.
Answered(v) ==
  IF v.phase = "completing" THEN {v, Settled(v)}
  ELSE {v, Settled(v)} \cup
       IF v.source = None THEN ProposedByUser(v)
       ELSE UNION {Proposed(v, Written[v.source], reason,
                            ProposeStage1Result(v.authority)) :
                     reason \in DescriptionReasons}

\* The host saved the proposal; the holes of the document may be completed.
Acknowledged(v) ==
  LET s == [v EXCEPT !.authority = v.proposal.next, !.document = v.proposal.document]
  IN  {Settled(s), Completing(s)}

Generated(v) ==
  IF v.phase = "rest" /\ ProposeStage1Result(v.authority) # NoProposal
  THEN {Asked(v, d) : d \in Descriptions} ELSE {}

\* An edit, or the approval of a proposed completion.
Edited(v) == IF v.phase = "rest" THEN ProposedByUser(v) ELSE {}

HolesCompleted(v) ==
  IF v.phase = "rest" /\ v.document # None THEN {Completing(v), Settled(v)} ELSE {}

Cancelled(v) ==
  IF v.phase \in {"unstarted", "cancelled"} THEN {}
  ELSE {[v EXCEPT !.phase = "cancelled", !.source = None, !.proposal = None]}

Busy(v) == v.phase \in {"asking", "completing", "committing"}
=============================================================================
