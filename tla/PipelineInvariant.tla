------------------------- MODULE PipelineInvariant -------------------------
(***************************************************************************)
(* The inductive invariant of the authoring machine: what is true of every *)
(* snapshot, and is enough to show that the next one is valid again.       *)
(* PipelineSnapshot::validate says what a kept document, a delivery or an  *)
(* effect may NOT stand beside; a step needs the converse too, that the    *)
(* document a stage falls back to is there.                                *)
(***************************************************************************)
EXTENDS PipelineProperties

\* Each waiting phase has its payload, and no other phase has one.
PhasePayload ==
  /\ phase = "AwaitingLlm" <=> stage # None
  /\ phase = "AwaitingVisibleDdlCommit" <=> commit # None
  /\ phase = "AwaitingPatchApproval" <=> patch # None

\* The document a stage was given is kept for it.
KeptIsThere ==
  /\ stage = "ReadComposition" => kept.composition # None
  /\ stage = "ChooseLaws" => kept.laws # None
  /\ stage = "ChooseColors" => kept.colors # None
  /\ stage \in ReviewStages => kept.image # None
  /\ phase = "AwaitingImageReviewDrawing" => kept.image # None

\* Before its start the execution has nothing.
NothingBeforeStart ==
  phase = "AuthoringStarted" =>
    /\ document = None /\ delivery = None
    /\ kept = Nothing /\ run = NoRun

\* What a run needs of its request and of the authority to be asked a stage:
\* the records of the route (StageMatchesRun), and that neither a run from an
\* image nor one from a saved work has a description that may write.
RouteFor(r, st) ==
  /\ ~(r.image /\ r.reading # "none")
  /\ st \in ImageStages => r.image
  /\ st \in DescriptionStages => r.reading # "none"
  /\ st = "ComposeDescription" => r.composition = "pending"
  /\ st \in {"SelectDescriptionCatalog", "GenerateSketch",
             "GenerateNormalizedDdl", "ReadComposition", "ChooseLaws"}
       => ~r.image
  /\ st \in {"GenerateSketch", "GenerateNormalizedDdl", "ReadComposition",
             "ChooseLaws"} => r.reading = "none"
  /\ r.image \/ r.move => authority.authority # "description_authoritative"
  /\ st \in Stages \ (ImageStages \cup {"ChooseLaws", "ChooseColors",
                                       "CompleteVisibleDdlHoles"})
       => ProposeStage1Result(authority) # NoProposal
  /\ st \in {"ChooseLaws", "ChooseColors"} /\ ~r.move
       => ProposeStage1Result(authority) # NoProposal

RouteOfRun ==
  /\ RouteFor(run, stage)
  /\ phase = "AwaitingImageReviewDrawing" /\ OfDescription =>
       ProposeStage1Result(authority) # NoProposal

\* The commit a host is asked for is a proposal of the authority as it stands.
CommitIsProposed ==
  commit # None =>
    /\ commit.expected = authority.revision
    /\ commit.next \in {ProposeUserMutation(authority),
                        ProposeStage1Result(authority)}

\* The stage still has time for its attempt.
StageHasTime == stage # None => elapsed < RetryPolicy(stage).total_timeout

Inductive == /\ TypeOK /\ LiveSnapshotValid
             /\ PhasePayload /\ KeptIsThere /\ NothingBeforeStart
             /\ RouteOfRun /\ CommitIsProposed /\ StageHasTime

-----------------------------------------------------------------------------
(***************************************************************************)
(* What is true beside Inductive of a run's laws basis and of completions. *)
(* The last two parts are true under conditions on the author's commands   *)
(* (see the theorems).                                                     *)
(***************************************************************************)

\* From its laws on, a run from a saved work has a basis that its proposal fills.
LawsNameTheirCommit ==
  /\ LawsCommitIsPrinted
  /\ stage = "ChooseColors" /\ run.move => basis = Open

\* In its first generation an execution has a basis only from the laws it laid
\* until their document is proposed, and then only that document's.
BasisOfGeneration ==
  /\ phase = "AuthoringStarted" => basis = None /\ committed = None
  /\ stage \in Stages \ {"CompleteVisibleDdlHoles"}
       \/ phase = "AwaitingImageReviewDrawing" =>
       /\ committed = None
       /\ \/ basis = None
          \/ basis = Open /\ stage = "ChooseColors" /\ run.reading = "none"
  /\ commit # None /\ commit.reason \in DescriptionReasons
       => basis \in {None, commit.document}
  /\ committed \in DescriptionReasons => basis \in {None, document}
=============================================================================
