------------------------- MODULE PipelineProperties -------------------------
(***************************************************************************)
(* What the authoring machine must keep, over every order of answers,      *)
(* failures, acknowledgements and author commands.                         *)
(***************************************************************************)
EXTENDS Pipeline

RunTypes == [sketch: {"none", "pending", "supplied", "answered", "fallback"},
             reading: {"none", "off", "pending", "supplied", "read", "fallback"},
             composition: {"none", "pending", "used", "fallback"},
             image: BOOLEAN, move: BOOLEAN]

KeptTypes == [stage1: Ddl \cup {None}, plan: BOOLEAN,
              composition: Ddl \cup {None}, laws: Ddl \cup {None},
              colors: Ddl \cup {None}, image: Ddl \cup {None}]

DescriptionReasons == {"stage1_generated", "stage1_residual_execution",
                       "description_ddl"}

\* The type of every part of a snapshot (PipelineSnapshot).
TypeOK ==
  /\ config \in Configs
  /\ authority \in VariationAuthority
  /\ document \in Ddl \cup {None}
  /\ phase \in Phases
  /\ stage \in Stages \cup {None}
  /\ elapsed \in Nat
  /\ action \in Actions \cup {None}
  /\ ordinal \in 0..MaxOrdinal
  /\ commit \in Commits \cup {None}
  /\ patch \in Patches \cup {None}
  /\ delivery \in Ddl \cup {None}
  /\ kept \in KeptTypes
  /\ run \in RunTypes
  /\ basis \in Ddl \cup {None, Open}
  /\ ranges \in BOOLEAN
  /\ committed \in Reasons \cup {None}
  /\ commands \in Nat
-----------------------------------------------------------------------------
\* Parts of PipelineSnapshot::validate, which every later step and every
\* reading of the snapshot goes through first.

\* A kept document belongs to the request it was kept for.
KeptMatchesPhase ==
  /\ kept.plan => kept.stage1 # None
  /\ kept.stage1 # None => stage = "GenerateNormalizedDdl"
  /\ kept.composition # None => stage = "ReadComposition"
  /\ kept.laws # None => stage = "ChooseLaws"
  /\ kept.colors # None => stage = "ChooseColors" /\ (OfDescription => Composed)
  /\ kept.image # None => \/ stage \in WriteStages \cup ReviewStages
                          \/ phase = "AwaitingImageReviewDrawing"

\* A stage reads the record of the route that asked it.
StageMatchesRun ==
  /\ ~(run.image /\ OfDescription)
  /\ stage \in ImageStages => run.image
  /\ stage \in DescriptionStages => OfDescription
  /\ stage = "ComposeDescription" => run.composition = "pending"
  /\ phase = "AwaitingImageReviewDrawing" => run.image \/ OfDescription

\* The delivery is that of the acknowledged document, and only a phase that
\* may draw it keeps it; a finished run has a Score.
DeliveryMatchesDocument ==
  /\ delivery # None =>
       /\ delivery = document
       /\ \/ phase \in Resting \cup {"AwaitingVisibleDdlCommit", "AwaitingPatchApproval"}
          \/ stage = "CompleteVisibleDdlHoles"
  /\ phase \in {"ScoreReady", "Completed"} => delivery \in Drawable

\* An effect is outstanding exactly in the phases that wait for one, and it is
\* the effect that phase waits for, within the attempts of its policy.
ActionMatchesPhase ==
  /\ phase = "AwaitingLlm" =>
       /\ stage # None /\ action # None /\ action.tag = stage
       /\ action.attempt \in 1..RetryPolicy(stage).max_attempts
  /\ phase = "AwaitingVisibleDdlCommit" =>
       /\ action # None /\ action.tag = "commit_visible_normalized_ddl"
       /\ action.attempt = 1 /\ commit.expected = authority.revision
  /\ phase = "AwaitingImageReviewDrawing" =>
       action # None /\ action.tag = "draw_image_review" /\ action.attempt = 1
  /\ action # None => phase \in {"AwaitingLlm", "AwaitingVisibleDdlCommit",
                                 "AwaitingImageReviewDrawing"}

SnapshotValid == /\ KeptMatchesPhase /\ StageMatchesRun
                 /\ DeliveryMatchesDocument /\ ActionMatchesPhase

\* Every snapshot of a run that was not cancelled passes validate, so the next
\* input is judged and not refused as an invalid state (machine.rs validate).
LiveSnapshotValid == phase # "Cancelled" => SnapshotValid

\* "Read progress only from this validated, sealed snapshot"
\* (machine.rs run_progress): every snapshot can be read, a cancelled one too.
ProgressReadable == SnapshotValid
-----------------------------------------------------------------------------
\* No attempt is given less than a tick, and no stage runs past its budget
\* (next_budgeted_attempt and remaining_attempt_timeout).
AttemptHasTime ==
  stage # None =>
    /\ RemainingAttemptTimeout(RetryPolicy(stage), elapsed) > 0
    /\ elapsed < RetryPolicy(stage).total_timeout

\* An identity is never used twice: a step that changes the outstanding effect
\* issues a new ordinal, or the next attempt of the same request.  A late
\* answer to an earlier request therefore cannot be taken for the current one.
FreshIdentity ==
  [][action' # action /\ action' # None =>
       \/ action'.ordinal > ordinal
       \/ /\ action # None /\ action'.ordinal = action.ordinal
          /\ action'.attempt > action.attempt /\ action'.tag = action.tag]_vars

\* No stage starts over on a fresh budget of its own: within a stage every new
\* request is the next attempt (reissue and the retry in failure_with_detail).
\* Only the choice of a catalog is a second request with a budget of its own.
NeverStartsOver ==
  [][stage # None /\ stage' = stage /\ action' # action =>
       \/ action'.attempt = action.attempt + 1
       \/ stage = "SelectDescriptionCatalog" /\ action.request = "first"
            /\ action'.request = "choice"]_vars

\* A stage that hands an answer back with what was wrong with it does so once
\* (asked_again in written_ddl_response and description_composition_response,
\* previous in hole_response): its next answer is settled, whatever it is.
AsksAgainOnce ==
  [][/\ stage \in WriteStages \cup ReviewStages \cup
                  {"ComposeDescription", "CompleteVisibleDdlHoles"}
     /\ stage' = stage /\ action.request = "feedback"
     => action'.ordinal = action.ordinal]_vars

\* A document kept while a later request is out is never lost to that
\* request's failure: the run goes on with it.  Only a run of the laws from a
\* saved work stops rather than commit its base (fail_laws_move).
KeptIsNeverLost ==
  [][(\E k \in {"stage1", "composition", "colors", "image"} : kept[k] # None)
        \/ (kept.laws # None /\ ~run.move)
     => phase' # "Failed"]_vars

\* A run from a saved work commits only a document its laws printed, never its
\* base unchanged: when it commits, its basis names what it commits.
LawsCommitIsPrinted ==
  commit # None /\ commit.reason = "saved_laws" => basis = commit.document

\* "A run keeps no record of the run before it in the same execution"
\* (machine.rs description): when a description's DDL is acknowledged, the
\* work's laws basis is absent or was made for that DDL.
BasisNamesItsDdl ==
  phase = "ScoreReady" /\ committed \in DescriptionReasons =>
    basis \in {None, document}

\* A description run is only under way while its description may still write,
\* so that the commit it ends with can be proposed.
DescriptionMayWrite ==
  /\ stage \in Stages \ (ImageStages \cup {"ChooseLaws", "ChooseColors",
                                           "CompleteVisibleDdlHoles"})
       => ProposeStage1Result(authority) # NoProposal
  /\ stage \in {"ChooseLaws", "ChooseColors"} /\ ~run.move
       => ProposeStage1Result(authority) # NoProposal

\* No completion starts by itself from what was committed as it stands: an
\* adopted residual, a DDL from an image or a read-and-draw DDL, or an approved
\* patch (completing in accept_result).  Without the author's command a
\* completion therefore never feeds the next one.
StandsAsCommitted ==
  stage = "CompleteVisibleDdlHoles" \/ phase = "AwaitingPatchApproval" =>
    committed \notin {"stage1_residual_execution", "image_ddl",
                      "description_ddl", "user_approved_patch"}

\* Saving and approving never go backwards: the execution is a history of the
\* variation it authors.
Variation == INSTANCE VariationAuthority
ImplementsVariation == Variation!Spec

\* The description of an execution is told from no description.
ASSUME SourceAssumption == None # "description"

\* What a host sees of the snapshot (MachineSteps).
HostView ==
  [phase |-> CASE phase = "AuthoringStarted" -> "unstarted"
               [] phase = "Cancelled" -> "cancelled"
               [] phase = "AwaitingVisibleDdlCommit" -> "committing"
               [] phase = "AwaitingImageReviewDrawing" -> "asking"
               [] phase = "AwaitingLlm" -> IF stage = "CompleteVisibleDdlHoles"
                                           THEN "completing" ELSE "asking"
               [] OTHER -> "rest",
   authority |-> authority, document |-> document,
   proposal |-> IF commit = None THEN None
                ELSE [document |-> commit.document, next |-> commit.next,
                      reason |-> IF commit.reason \in DescriptionReasons
                                 THEN commit.reason ELSE "user"],
   source |-> IF (stage \in Stages \ {"CompleteVisibleDdlHoles"}
                  \/ phase = "AwaitingImageReviewDrawing") /\ ~run.image /\ ~run.move
              THEN "description" ELSE None]

\* The machine never does to its host what the host does not expect of it: a
\* document comes only from an answer, a record only with its acknowledgement,
\* and only the author's commands start work from rest.
Seen == INSTANCE MachineSteps WITH
          view <- HostView, Descriptions <- {"description"}, Documents <- Ddl,
          Written <- [d \in {"description"} |-> Ddl]
ImplementsHostView == Seen!Spec

\* Every outstanding effect leads, through its retries and fallbacks, to a
\* snapshot with no effect outstanding.
ComesToRest == (action # None) ~> (action = None)
=============================================================================
