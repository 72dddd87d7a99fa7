----------------------- MODULE PipelineHistoryProofs -----------------------
(***************************************************************************)
(* What the authoring machine keeps from one snapshot to the next.  Every  *)
(* result of a provider has one of a few outcomes (Outcome): the request   *)
(* again, another stage of the same route, a drawing for the review, a     *)
(* proposal, or the end of the run.  The lemmas show that each tail of the *)
(* machine has such an outcome; the theorems follow from the outcomes.     *)
(***************************************************************************)
EXTENDS PipelineProofs

\* A stage of S is asked for the run r, with the laws basis b.
Asks(S, r, b) == /\ phase' = "AwaitingLlm" /\ stage' \in S /\ commit' = None
                 /\ run' = r /\ basis' = b

\* A document is proposed, and the proposal is one the authority allows.
Proposes(reason, next) ==
  /\ phase' = "AwaitingVisibleDdlCommit" /\ stage' = None /\ next # NoProposal
  /\ commit'.document \in Ddl /\ commit'.reason = reason /\ commit'.next = next
  /\ run' = run

\* Where the stages of a description lead that settle a document: to one of S,
\* or to the proposal, whose document an open basis then names.
StagesGo(S, b) ==
  \/ Asks(S, run, b)
  \/ /\ Proposes(RunReason, RunProposal)
     /\ basis' = IF b = Open THEN commit'.document ELSE b

\* Where a written document leads.
DrawsReview == /\ phase' = "AwaitingImageReviewDrawing" /\ stage' = None
               /\ commit' = None /\ run' = run /\ basis' = basis
WrittenGoes ==
  \/ Asks({"ChooseColors"}, run, basis) /\ Composed
  \/ DrawsReview
  \/ Proposes(WrittenReason, WrittenProposal) /\ basis' = basis
-----------------------------------------------------------------------------
\* The tails.

LEMMA BeginAsks ==
  ASSUME NEW r, NEW st, Begin(r, st)
  PROVE  Asks({st}, r, basis)
  BY DEF Begin, BeginLlm, Ask, Asks

LEMMA CommitProposes ==
  ASSUME NEW d \in Ddl, NEW reason, NEW next, NEW rng,
         CommitDocument(d, reason, next, rng), run' = run
  PROVE  Proposes(reason, next) /\ commit'.document = d
  BY DEF CommitDocument, Proposes

LEMMA CommitStage1Goes ==
  ASSUME NEW d \in Ddl, NEW b, CommitStage1(d, b)
  PROVE  \A S : StagesGo(S, b)
<1>1. Proposes(RunReason, RunProposal) /\ commit'.document = d
  BY CommitProposes DEF CommitStage1
<1> QED BY <1>1 DEF CommitStage1, StagesGo

LEMMA AfterLawsGoes ==
  ASSUME NEW k, NEW d \in Ddl, NEW b, AfterLaws(k, d, b)
  PROVE  StagesGo({"ChooseColors"}, b)
<1>1. CASE CommitStage1(d, b)
  BY <1>1, CommitStage1Goes
<1>2. CASE BeginLlm("ChooseColors") /\ UNCHANGED run /\ basis' = b
  BY <1>2 DEF BeginLlm, Ask, StagesGo, Asks
<1> QED BY <1>1, <1>2 DEF AfterLaws

\* What leads to one of fewer stages leads to one of more.
LEMMA GoesToMore ==
  ASSUME NEW S, NEW T, S \subseteq T, NEW b, StagesGo(S, b)
  PROVE  StagesGo(T, b)
  BY DEF StagesGo, Asks

LEMMA ComposeAndCommitGoes ==
  ASSUME NEW k, NEW d \in Ddl, ComposeAndCommit(k, d)
  PROVE  StagesGo({"ChooseLaws", "ChooseColors"}, basis)
<1>1. CASE CommitStage1(d, basis)
  BY <1>1, CommitStage1Goes
<1>2. CASE \E composed \in Canonical :
             AskLaws(k, composed) \/ AfterLaws(k, composed, basis)
  <2>1. PICK composed \in Canonical : AskLaws(k, composed) \/ AfterLaws(k, composed, basis)
    BY <1>2
  <2>2. composed \in Ddl
    BY DocumentsAssumption
  <2>3. CASE AfterLaws(k, composed, basis)
    BY <2>2, <2>3, AfterLawsGoes, GoesToMore
  <2>4. CASE BeginLlm("ChooseLaws") /\ UNCHANGED <<run, basis>>
    BY <2>4 DEF BeginLlm, Ask, StagesGo, Asks
  <2> QED BY <2>1, <2>3, <2>4 DEF AskLaws
<1> QED BY <1>1, <1>2 DEF ComposeAndCommit

LEMMA SettleStage1Goes ==
  ASSUME NEW d \in Ddl, NEW plan, SettleStage1(d, plan)
  PROVE  StagesGo({"ReadComposition", "ChooseLaws", "ChooseColors"}, basis)
<1>1. CASE CommitStage1(d, basis)
  BY <1>1, CommitStage1Goes
<1>2. CASE BeginLlm("ReadComposition") /\ UNCHANGED <<run, basis>>
  BY <1>2 DEF BeginLlm, Ask, StagesGo, Asks
<1>3. CASE \E k : ComposeAndCommit(k, d)
  BY <1>3, ComposeAndCommitGoes, GoesToMore
<1> QED BY <1>1, <1>2, <1>3 DEF SettleStage1

LEMMA Stage1Asks ==
  ASSUME NEW r, Stage1(r)
  PROVE  Asks({IF r.sketch = "pending" THEN "GenerateSketch"
               ELSE "GenerateNormalizedDdl"}, r, basis)
  BY BeginAsks DEF Stage1

LEMMA WriteDescriptionAsks ==
  ASSUME NEW r, WriteDescriptionDdl(r)
  PROVE  Asks({IF r.composition = "pending" THEN "ComposeDescription"
               ELSE "WriteDescriptionDdl"}, r, basis)
  BY BeginAsks DEF WriteDescriptionDdl

LEMMA AfterCatalogAsks ==
  ASSUME NEW r, AfterDescriptionCatalog(r)
  PROVE  Asks({"ReadDescription", "ComposeDescription", "WriteDescriptionDdl",
               "GenerateSketch", "GenerateNormalizedDdl"}, r, basis)
<1>1. CASE Stage1(r)
  BY <1>1, Stage1Asks DEF Asks
<1>2. CASE WriteDescriptionDdl(r)
  BY <1>2, WriteDescriptionAsks DEF Asks
<1>3. CASE Begin(r, "ReadDescription")
  BY <1>3, BeginAsks DEF Asks
<1> QED BY <1>1, <1>2, <1>3 DEF AfterDescriptionCatalog, ReadOrWriteDescription

LEMMA CommitWrittenGoes ==
  ASSUME NEW d \in Ddl, CommitWritten(d)
  PROVE  WrittenGoes
<1>1. CASE CommitWrittenDocument(d)
  BY <1>1, CommitProposes DEF CommitWrittenDocument, WrittenGoes
<1>2. CASE ColorsBeforeCommit /\ BeginLlm("ChooseColors") /\ UNCHANGED <<run, basis>>
  BY <1>2 DEF ColorsBeforeCommit, BeginLlm, Ask, WrittenGoes, Asks
<1> QED BY <1>1, <1>2 DEF CommitWritten

LEMMA AfterWrittenGoes ==
  ASSUME NEW d \in Ddl, AfterWritten(d)
  PROVE  WrittenGoes
<1>1. PICK fitted \in Fitted(d) : DrawReview(fitted) \/ CommitWritten(fitted)
  BY DEF AfterWritten
<1>2. fitted \in Ddl
  BY DocumentsAssumption DEF Fitted
<1>3. CASE DrawReview(fitted)
  BY <1>3 DEF DrawReview, WrittenGoes, DrawsReview
<1> QED BY <1>1, <1>2, <1>3, CommitWrittenGoes
-----------------------------------------------------------------------------
\* The outcomes of a result.

\* The same request, or the request with what was wrong, on the budget of the
\* stage; only the stages that may give an answer back do so again.
Again ==
  /\ UNCHANGED <<phase, stage, commit, patch, run, basis>> /\ stage # None
  /\ action'.attempt = action.attempt + 1
  /\ \/ action'.ordinal = action.ordinal
     \/ stage \in {"GenerateNormalizedDdl", "ChooseLaws", "ChooseColors"}
     \/ action.request # "feedback"

\* The second request of the catalog.
Chooses ==
  /\ stage = "SelectDescriptionCatalog" /\ UNCHANGED <<phase, stage, commit, run, basis>>
  /\ action.request = "first" /\ action'.request = "choice"

\* Another stage of the route is asked; laws that were laid leave the basis open.
GoesOn ==
  /\ phase' = "AwaitingLlm" /\ commit' = None
  /\ stage' \in Stages \ {stage, "CompleteVisibleDdlHoles"} /\ stage # "ChooseColors"
  /\ run'.image = run.image /\ run'.move = run.move
  /\ run'.reading = "none" <=> run.reading = "none"
  /\ \/ basis' = basis
     \/ basis' = Open /\ stage = "ChooseLaws" /\ stage' = "ChooseColors"
  /\ stage' = "ChooseColors" /\ run.move => basis' = Open

ProposesStages ==
  /\ Proposes(RunReason, RunProposal)
  /\ \/ basis # Open /\ basis' = basis
     \/ basis' = commit'.document
  /\ run.move /\ (stage = "ChooseColors" => basis = Open) => basis' = commit'.document

ProposesWritten ==
  /\ Proposes(WrittenReason, WrittenProposal) /\ basis' = basis
  /\ run.image \/ OfDescription

ProposesResidual ==
  /\ stage = "GenerateNormalizedDdl" /\ basis' = basis
  /\ Proposes("stage1_residual_execution", ProposeStage1Result(authority))

\* The run stops; it holds no document it could go on with.
Stops ==
  /\ phase' = "Failed" /\ stage' = None /\ commit' = None /\ run' = run
  /\ basis' \in {basis, None}
  /\ kept.stage1 = None /\ kept.composition = None /\ kept.colors = None
  /\ kept.image = None
  /\ kept.laws = None \/ run.move

HolesEnd ==
  /\ stage = "CompleteVisibleDdlHoles" /\ stage' = None /\ commit' = None
  /\ phase' \in {"ScoreReady", "NeedsUserEdit", "AwaitingPatchApproval"}
  /\ UNCHANGED <<run, basis>>

\* What a stage that is not a completion comes to, and what any result does.
Ends    == \/ GoesOn
           \/ DrawsReview /\ stage # "ChooseColors" /\ (run.image \/ OfDescription)
           \/ ProposesStages \/ ProposesWritten \/ ProposesResidual \/ Stops
Outcome == \/ Again \/ Chooses
           \/ stage # "CompleteVisibleDdlHoles" /\ Ends
           \/ HolesEnd

LEMMA StagesEnd ==
  ASSUME NEW S \in SUBSET {"ReadComposition", "ChooseLaws", "ChooseColors"}, NEW b,
         stage \notin S, StagesGo(S, b),
         \/ b = basis /\ ~run.move /\ stage # "ChooseColors"
         \/ b = basis /\ stage = "ChooseColors" /\ S = {}
         \/ b = Open /\ stage = "ChooseLaws" /\ S = {"ChooseColors"}
  PROVE  Ends
<1>1. CASE Asks(S, run, b)
  <2>1. /\ stage' \in S /\ run' = run /\ basis' = b
        /\ phase' = "AwaitingLlm" /\ commit' = None
    BY <1>1 DEF Asks
  <2>2. stage' \in Stages \ {stage, "CompleteVisibleDdlHoles"}
    BY <2>1 DEF Stages
  <2>3. stage # "ChooseColors"
    BY <2>1
  <2>4. \/ basis' = basis
        \/ basis' = Open /\ stage = "ChooseLaws" /\ stage' = "ChooseColors"
    BY <2>1
  <2>5. stage' = "ChooseColors" /\ run.move => basis' = Open
    BY <2>1
  <2> QED BY <2>1, <2>2, <2>3, <2>4, <2>5 DEF GoesOn, Ends
<1>2. CASE /\ Proposes(RunReason, RunProposal)
           /\ basis' = IF b = Open THEN commit'.document ELSE b
  <2>1. \/ basis # Open /\ basis' = basis
        \/ basis' = commit'.document
    BY <1>2
  <2>2. run.move /\ (stage = "ChooseColors" => basis = Open) => basis' = commit'.document
    BY <1>2
  <2> QED BY <1>2, <2>1, <2>2 DEF ProposesStages, Ends
<1> QED BY <1>1, <1>2 DEF StagesGo

\* Stages of a route with a description that may write are of no saved work.
LEMMA StagedEnd ==
  ASSUME Inductive, NEW S \in SUBSET {"ReadComposition", "ChooseLaws", "ChooseColors"},
         stage \notin S, StagesGo(S, basis),
         \/ stage \in {"GenerateNormalizedDdl", "ReadComposition"}
         \/ stage = "ChooseLaws" /\ ~run.move
  PROVE  Ends
<1>1. ~run.move /\ stage # "ChooseColors"
  BY StagedRun DEF ImageRun, ProposeStage1Result
<1> QED BY <1>1, StagesEnd

LEMMA WrittenEnd ==
  ASSUME Inductive, WrittenGoes,
         \/ stage \in WriteStages \cup ReviewStages
         \/ phase = "AwaitingImageReviewDrawing"
  PROVE  Ends
<1>1. ASSUME phase = "AwaitingImageReviewDrawing"
      PROVE  /\ Writing /\ stage = None
  BY <1>1, ImageRunHolds DEF Writing, Inductive, TypeOK, PhasePayload, LiveSnapshotValid,
     SnapshotValid, StageMatchesRun, RouteOfRun
<1>2. Writing /\ stage \notin {"ChooseColors", "CompleteVisibleDdlHoles"}
  BY <1>1, WritingRun, NoneAssumption DEF WriteStages, ReviewStages, Stages
<1>3. CASE Asks({"ChooseColors"}, run, basis) /\ Composed
  <2>1. ~run.move
    BY <1>2, <1>3 DEF Writing, ImageRun, Composed, ProposeStage1Result
  <2>2. stage' \in Stages \ {stage, "CompleteVisibleDdlHoles"}
    BY <1>2, <1>3 DEF Asks, Stages
  <2> QED BY <1>2, <1>3, <2>1, <2>2 DEF Asks, GoesOn, Ends
<1>4. CASE DrawsReview
  BY <1>2, <1>4 DEF Writing, Ends
<1>5. CASE Proposes(WrittenReason, WrittenProposal) /\ basis' = basis
  BY <1>2, <1>5 DEF Writing, ProposesWritten, Ends
<1> QED BY <1>3, <1>4, <1>5 DEF WrittenGoes

\* A stage asked before anything is settled.
LEMMA EarlyEnd ==
  ASSUME NEW S \in SUBSET (Stages \ {"ChooseColors", "CompleteVisibleDdlHoles"}), NEW r,
         Asks(S, r, basis), stage \notin S, stage # "ChooseColors",
         r.image = run.image, r.move = run.move,
         r.reading = "none" <=> run.reading = "none"
  PROVE  Ends
<1>1. /\ stage' \in Stages \ {stage, "CompleteVisibleDdlHoles"}
      /\ stage' # "ChooseColors" /\ run' = r /\ basis' = basis
      /\ phase' = "AwaitingLlm" /\ commit' = None
  BY DEF Asks
<1> QED BY <1>1 DEF GoesOn, Ends
-----------------------------------------------------------------------------
\* The answers and the ends of the stages.

LEMMA AskAgainIsAgain ==
  ASSUME Inductive, stage # None, NEW spent \in Nat, AskAgain(spent),
         \/ stage \in {"GenerateNormalizedDdl", "ChooseLaws", "ChooseColors"}
         \/ action.request # "feedback"
  PROVE  Again
<1> DEFINE next == NextBudgetedAttempt(RetryPolicy(stage), action.attempt, elapsed + spent)
<1>1. next # None /\ Reissue(next, elapsed + spent)
  BY DEF AskAgain
<1>2. next = action.attempt + 1
  BY <1>1, Asking, NextBudgetedAttemptInBudget
<1> HIDE DEF next
<1>3. action'.attempt = action.attempt + 1
  BY <1>1, <1>2 DEF Reissue, Issue
<1> QED BY <1>1, <1>3 DEF Reissue, Again

LEMMA FinishSketchEnds ==
  ASSUME Inductive, stage = "GenerateSketch",
         NEW state \in {"answered", "fallback"}, FinishSketch(state)
  PROVE  Ends
<1> DEFINE r == [run EXCEPT !.sketch = state]
<1>1. run \in RunTypes
  BY DEF Inductive, TypeOK
<1>2. /\ r.sketch # "pending" /\ r.image = run.image /\ r.move = run.move
      /\ r.reading = run.reading
  BY <1>1 DEF RunTypes
<1>3. Stage1(r)
  BY DEF FinishSketch
<1> HIDE DEF r
<1>4. Asks({"GenerateNormalizedDdl"}, r, basis)
  BY <1>2, <1>3, Stage1Asks
<1>5. {"GenerateNormalizedDdl"} \in SUBSET (Stages \ {"ChooseColors", "CompleteVisibleDdlHoles"})
  BY DEF Stages
<1> QED BY <1>2, <1>4, <1>5, EarlyEnd

LEMMA Stage1FallbackEnds ==
  ASSUME Inductive, stage = "GenerateNormalizedDdl", kept.stage1 # None,
         CommitStage1Fallback
  PROVE  Ends
<1>1. kept.stage1 \in Ddl
  BY Stage1Kept DEF KeptTypes
<1>2. StagesGo({"ReadComposition", "ChooseLaws", "ChooseColors"}, basis)
  BY <1>1, SettleStage1Goes DEF CommitStage1Fallback
<1> QED BY <1>2, StagedEnd

LEMMA CompositionEnds ==
  ASSUME Inductive, stage = "ReadComposition",
         ComposeAndCommit([kept EXCEPT !.composition = None], kept.composition)
  PROVE  Ends
<1>1. StagesGo({"ChooseLaws", "ChooseColors"}, basis)
  BY CompositionKept, ComposeAndCommitGoes
<1> QED BY <1>1, StagedEnd

LEMMA LawsFallbackEnds ==
  ASSUME Inductive, stage = "ChooseLaws", LawsFallback
  PROVE  Ends
<1>1. CASE run.move
  <2>1. Settle("Failed") /\ basis' = None /\ run' = run
    BY <1>1 DEF LawsFallback, FailLawsMove
  <2>2. kept \in KeptTypes /\ [kept EXCEPT !.laws = None] = Nothing
    BY LawsKept DEF Inductive, TypeOK
  <2>3. /\ kept.stage1 = None /\ kept.composition = None /\ kept.colors = None
        /\ kept.image = None
    BY <2>2 DEF KeptTypes, Nothing
  <2> QED BY <1>1, <2>1, <2>3 DEF Settle, Stops, Ends
<1>2. CASE ~run.move
  <2>1. StagesGo({"ChooseColors"}, basis)
    BY <1>2, LawsKept, AfterLawsGoes DEF LawsFallback
  <2> QED BY <1>2, <2>1, StagedEnd
<1> QED BY <1>1, <1>2

LEMMA ColorsFallbackEnds ==
  ASSUME Inductive, stage = "ChooseColors",
         \E d \in Ddl : \/ OfDescription /\ CommitWrittenDocument(d)
                        \/ CommitStage1(d, basis)
  PROVE  Ends
<1>1. PICK d \in Ddl : \/ OfDescription /\ CommitWrittenDocument(d)
                       \/ CommitStage1(d, basis)
  OBVIOUS
<1>2. CASE OfDescription /\ CommitWrittenDocument(d)
  BY <1>2, CommitProposes DEF CommitWrittenDocument, ProposesWritten, Ends
<1>3. CASE CommitStage1(d, basis)
  <2>1. StagesGo({}, basis)
    BY <1>3, CommitStage1Goes
  <2> QED BY <2>1, StagesEnd
<1> QED BY <1>1, <1>2, <1>3

LEMMA KeptWrittenEnds ==
  ASSUME Inductive, stage \in WriteStages \cup ReviewStages, KeptWritten
  PROVE  Ends
<1>1. kept.image # None => kept.image \in Ddl
  BY WritingRun DEF KeptTypes
<1>2. CASE WrittenGoes
  BY <1>2, WrittenEnd
<1>3. CASE kept.image = None /\ NothingWritten
  <2>1. kept.stage1 = None /\ kept.composition = None /\ kept.colors = None
        /\ kept.laws = None
    BY WritingRun
  <2> QED BY <1>3, <2>1 DEF NothingWritten, Settle, Stops, Ends
<1>4. CASE stage \in ReviewStages /\ CommitWritten(kept.image)
  BY <1>2, <1>4, WritingRun, CommitWrittenGoes
<1>5. CASE kept.image # None /\ AfterWritten(kept.image)
  BY <1>1, <1>2, <1>5, AfterWrittenGoes
<1> QED BY <1>3, <1>4, <1>5 DEF KeptWritten

LEMMA DescriptionReadEnds ==
  ASSUME Inductive, stage = "ReadDescription", NEW reading \in {"read", "fallback"},
         WriteDescriptionDdl([run EXCEPT !.reading = reading])
  PROVE  Ends
<1> DEFINE r == [run EXCEPT !.reading = reading]
           S == {"ComposeDescription", "WriteDescriptionDdl"}
<1>1. run \in RunTypes /\ run.reading # "none"
  BY EarlyStage
<1>2. /\ r.image = run.image /\ r.move = run.move
      /\ r.reading = "none" <=> run.reading = "none"
  BY <1>1 DEF RunTypes
<1>3. WriteDescriptionDdl(r)
  OBVIOUS
<1> HIDE DEF r
<1>4. Asks(S, r, basis)
  BY <1>3, WriteDescriptionAsks DEF Asks
<1>5. S \in SUBSET (Stages \ {"ChooseColors", "CompleteVisibleDdlHoles"})
  BY DEF Stages, DescriptionStages
<1> QED BY <1>2, <1>4, <1>5, EarlyEnd

LEMMA DescriptionComposedEnds ==
  ASSUME Inductive, stage = "ComposeDescription", NEW composition \in {"used", "fallback"},
         WriteDescriptionDdl([run EXCEPT !.composition = composition])
  PROVE  Ends
<1> DEFINE r == [run EXCEPT !.composition = composition]
<1>1. run \in RunTypes
  BY EarlyStage
<1>2. /\ r.image = run.image /\ r.move = run.move /\ r.composition # "pending"
      /\ r.reading = run.reading
  BY <1>1 DEF RunTypes
<1>3. WriteDescriptionDdl(r)
  OBVIOUS
<1> HIDE DEF r
<1>4. Asks({"WriteDescriptionDdl"}, r, basis)
  BY <1>2, <1>3, WriteDescriptionAsks
<1>5. {"WriteDescriptionDdl"} \in SUBSET (Stages \ {"ChooseColors", "CompleteVisibleDdlHoles"})
  BY DEF Stages, DescriptionStages
<1> QED BY <1>2, <1>4, <1>5, EarlyEnd

LEMMA CatalogEnds ==
  ASSUME Inductive, stage = "SelectDescriptionCatalog", AfterDescriptionCatalog(run)
  PROVE  Ends
<1> DEFINE S == {"ReadDescription", "ComposeDescription", "WriteDescriptionDdl",
                 "GenerateSketch", "GenerateNormalizedDdl"}
<1>1. Asks(S, run, basis)
  BY AfterCatalogAsks
<1>2. S \in SUBSET (Stages \ {"ChooseColors", "CompleteVisibleDdlHoles"})
  BY DEF Stages, DescriptionStages
<1> QED BY <1>1, <1>2, EarlyEnd

LEMMA ImageCatalogEnds ==
  ASSUME Inductive, stage = "SelectImageCatalog", Begin(run, "WriteImageDdl")
  PROVE  Ends
<1>1. Asks({"WriteImageDdl"}, run, basis)
  BY BeginAsks
<1>2. {"WriteImageDdl"} \in SUBSET (Stages \ {"ChooseColors", "CompleteVisibleDdlHoles"})
  BY DEF Stages, ImageStages
<1> QED BY <1>1, <1>2, EarlyEnd

\* A stage whose budget is spent comes to one of its ends, unless it holds a
\* document of Stage 1, which settles before its budget is looked at.
LEMMA ExhaustedEnds ==
  ASSUME Inductive, StagesExhausted \/ WrittenExhausted,
         stage = "GenerateNormalizedDdl" => kept.stage1 = None
  PROVE  Ends
<1>1. CASE StagesExhausted
  <2>1. CASE stage = "GenerateSketch" /\ FinishSketch("fallback")
    BY <2>1, FinishSketchEnds
  <2>2. CASE /\ stage = "GenerateNormalizedDdl" /\ Settle("Failed")
             /\ UNCHANGED <<run, basis>>
    <3>1. kept.stage1 = None /\ kept.composition = None /\ kept.colors = None
          /\ kept.image = None /\ kept.laws = None
      BY <2>2, Stage1Kept
    <3> QED BY <2>2, <3>1 DEF Settle, Stops, Ends
  <2>3. CASE /\ stage = "ReadComposition"
             /\ ComposeAndCommit([kept EXCEPT !.composition = None], kept.composition)
    BY <2>3, CompositionEnds
  <2>4. CASE stage = "ChooseLaws" /\ LawsFallback
    BY <2>4, LawsFallbackEnds
  <2> QED BY <1>1, <2>1, <2>2, <2>3, <2>4 DEF StagesExhausted
<1>2. CASE WrittenExhausted
  <2>1. CASE stage = "SelectDescriptionCatalog" /\ AfterDescriptionCatalog(run)
    BY <2>1, CatalogEnds
  <2>2. CASE stage = "SelectImageCatalog" /\ Begin(run, "WriteImageDdl")
    BY <2>2, ImageCatalogEnds
  <2>3. CASE /\ stage = "ReadDescription"
             /\ WriteDescriptionDdl([run EXCEPT !.reading = "fallback"])
    BY <2>3, DescriptionReadEnds
  <2>4. CASE /\ stage = "ComposeDescription"
             /\ WriteDescriptionDdl([run EXCEPT !.composition = "fallback"])
    BY <2>4, DescriptionComposedEnds
  <2>5. CASE stage \in WriteStages \cup ReviewStages /\ KeptWritten
    BY <2>5, KeptWrittenEnds
  <2>6. CASE stage = "ChooseColors" /\ ColorsFallback
    BY <2>6, ColorsKept, ColorsFallbackEnds DEF ColorsFallback
  <2> QED BY <1>2, <2>1, <2>2, <2>3, <2>4, <2>5, <2>6 DEF WrittenExhausted
<1> QED BY <1>1, <1>2

\* A failure asks again, ends the stage, or ends a completion where it was.
LEMMA FailComesOut ==
  ASSUME Inductive, stage # None, NEW spent \in Nat, NEW failure, Fail(failure, spent)
  PROVE  Outcome
<1> DEFINE total == elapsed + spent
           next  == NextAttempt(RetryPolicy(stage), action.attempt, total, failure)
<1>1. CASE stage = "GenerateNormalizedDdl" /\ kept.stage1 # None /\ CommitStage1Fallback
  BY <1>1, Stage1FallbackEnds DEF Outcome
<1>2. CASE next # None /\ Retry(next, total)
  <2>1. next = action.attempt + 1 /\ action \in Actions
    BY <1>2, Asking, NextAttemptInBudget, NextBudgetedAttemptInBudget
  <2>2. action' = [action EXCEPT !.attempt = action.attempt + 1]
    BY <1>2, <2>1 DEF Retry
  <2>3. action'.attempt = action.attempt + 1 /\ action'.ordinal = action.ordinal
    BY <2>1, <2>2 DEF Actions
  <2> QED BY <1>2, <2>3 DEF Retry, Again, Outcome
<1>3. CASE stage = "CompleteVisibleDdlHoles" /\ Settle("NeedsUserEdit") /\ UNCHANGED <<run, basis>>
  BY <1>3 DEF Settle, HolesEnd, Outcome
<1>4. CASE /\ ~(stage = "GenerateNormalizedDdl" /\ kept.stage1 # None)
           /\ StagesExhausted \/ WrittenExhausted
  <2>1. stage # "CompleteVisibleDdlHoles"
    BY <1>4 DEF StagesExhausted, WrittenExhausted, WriteStages, ReviewStages
  <2> QED BY <1>4, <2>1, ExhaustedEnds DEF Outcome
<1> QED BY <1>1, <1>2, <1>3, <1>4 DEF Fail

LEMMA CanonicalComesOut ==
  ASSUME Inductive, NEW spent \in Nat, CanonicalAnswered(spent) \/ NonCanonicalAnswered(spent)
  PROVE  Outcome
<1>1. stage = "GenerateNormalizedDdl"
  BY DEF CanonicalAnswered, NonCanonicalAnswered
<1>2. stage # None
  BY <1>1, StagedRun
<1>3. CASE AskAgain(spent)
  BY <1>1, <1>2, <1>3, AskAgainIsAgain DEF Outcome
<1>4. CASE \E d \in Ddl, plan \in BOOLEAN : SettleStage1(d, plan)
  <2>1. StagesGo({"ReadComposition", "ChooseLaws", "ChooseColors"}, basis)
    BY <1>4, SettleStage1Goes
  <2> QED BY <1>1, <2>1, StagedEnd DEF Outcome
<1>5. CASE kept.stage1 # None /\ CommitStage1Fallback
  BY <1>1, <1>5, Stage1FallbackEnds DEF Outcome
<1>6. CASE \E d \in Ddl :
             /\ CommitDocument(d, "stage1_residual_execution",
                               ProposeStage1Result(authority), FALSE)
             /\ UNCHANGED <<run, basis>>
  BY <1>1, <1>6, CommitProposes DEF ProposesResidual, Ends, Outcome
<1>7. CASE CanonicalAnswered(spent)
  <2>1. PICK d \in Canonical, plan \in BOOLEAN : AskAgain(spent) \/ SettleStage1(d, plan)
    BY <1>7 DEF CanonicalAnswered
  <2>2. d \in Ddl
    BY DocumentsAssumption
  <2> QED BY <1>3, <1>4, <2>1, <2>2
<1>8. CASE NonCanonicalAnswered(spent)
  BY <1>3, <1>5, <1>6, <1>8 DEF NonCanonicalAnswered
<1> QED BY <1>7, <1>8

LEMMA LawsComeOut ==
  ASSUME Inductive, NEW spent \in Nat, LawsAnswered(spent)
  PROVE  Outcome
<1>1. stage = "ChooseLaws"
  BY DEF LawsAnswered
<1>2. stage # None
  BY <1>1, StagedRun
<1>3. CASE \E printed \in Canonical \cap Drawable :
             AfterLaws([kept EXCEPT !.laws = None], printed, Open)
  <2>1. StagesGo({"ChooseColors"}, Open)
    BY <1>3, AfterLawsGoes, DocumentsAssumption
  <2> QED BY <1>1, <2>1, StagesEnd DEF Outcome
<1>4. CASE AskAgain(spent)
  BY <1>1, <1>2, <1>4, AskAgainIsAgain DEF Outcome
<1>5. CASE LawsFallback
  BY <1>1, <1>5, LawsFallbackEnds DEF Outcome
<1> QED BY <1>3, <1>4, <1>5 DEF LawsAnswered

LEMMA ColorsComeOut ==
  ASSUME Inductive, NEW spent \in Nat, ColorsAnswered(spent)
  PROVE  Outcome
<1>1. stage = "ChooseColors"
  BY DEF ColorsAnswered
<1>2. CASE \E d \in Canonical \cap Drawable :
             IF OfDescription THEN CommitWrittenDocument(d) ELSE CommitStage1(d, basis)
  BY <1>1, <1>2, DocumentsAssumption, ColorsFallbackEnds DEF Outcome
<1>3. CASE AskAgain(spent)
  BY <1>1, <1>3, ColorsKept, AskAgainIsAgain DEF Outcome
<1>4. CASE ColorsFallback
  BY <1>1, <1>4, ColorsKept, ColorsFallbackEnds DEF ColorsFallback, Outcome
<1> QED BY <1>2, <1>3, <1>4 DEF ColorsAnswered

LEMMA WrittenComesOut ==
  ASSUME Inductive, stage # None, NEW spent \in Nat, WrittenAnswered(spent)
  PROVE  Outcome
<1>1. CASE CatalogAnswered
  <2>1. CASE /\ action.request = "first" /\ Ask("SelectDescriptionCatalog", "choice")
             /\ UNCHANGED <<run, basis>>
    <3>1. stage = "SelectDescriptionCatalog"
      BY <1>1 DEF CatalogAnswered
    <3> QED BY <2>1, <3>1, Asking DEF Ask, Issue, Chooses, Outcome
  <2>2. CASE AfterDescriptionCatalog(run)
    BY <1>1, <2>2, CatalogEnds DEF CatalogAnswered, Outcome
  <2> QED BY <1>1, <2>1, <2>2 DEF CatalogAnswered
<1>2. CASE ImageCatalogAnswered
  BY <1>2, ImageCatalogEnds DEF ImageCatalogAnswered, Outcome
<1>3. CASE DescriptionRead
  BY <1>3, DescriptionReadEnds DEF DescriptionRead, Outcome
<1>4. CASE DescriptionComposed(spent)
  <2>1. CASE action.request # "feedback" /\ AskAgain(spent)
    BY <2>1, AskAgainIsAgain DEF Outcome
  <2> QED BY <1>4, <2>1, DescriptionComposedEnds DEF DescriptionComposed, Outcome
<1>5. CASE WrittenGivenBack(spent)
  BY <1>5, AskAgainIsAgain DEF WrittenGivenBack, Outcome
<1>6. CASE WrittenUsable
  <2>1. stage \in WriteStages \cup ReviewStages
    BY <1>6 DEF WrittenUsable
  <2>2. PICK d \in Drawable : \/ AfterWritten(d)
                              \/ \E fitted \in Fitted(d) : CommitWritten(fitted)
    BY <1>6 DEF WrittenUsable
  <2>3. d \in Ddl /\ Fitted(d) \subseteq Ddl
    BY DocumentsAssumption DEF Fitted
  <2>4. WrittenGoes
    BY <2>2, <2>3, AfterWrittenGoes, CommitWrittenGoes
  <2> QED BY <2>1, <2>4, WrittenEnd DEF Outcome, WriteStages, ReviewStages
<1>7. CASE WrittenUndrawable
  BY <1>7, KeptWrittenEnds DEF WrittenUndrawable, Outcome, WriteStages, ReviewStages
<1> QED BY <1>1, <1>2, <1>3, <1>4, <1>5, <1>6, <1>7 DEF WrittenAnswered

LEMMA HolesComeOut ==
  ASSUME Inductive, stage # None, NEW spent \in Nat, HolesAnswered(spent)
  PROVE  Outcome
<1>1. stage = "CompleteVisibleDdlHoles"
  BY DEF HolesAnswered
<1>2. CASE action.request # "feedback" /\ AskAgain(spent)
  BY <1>2, AskAgainIsAgain DEF Outcome
<1>3. CASE /\ \E to \in {"ScoreReady", "NeedsUserEdit"} : Settle(to)
           /\ UNCHANGED <<run, basis>>
  BY <1>1, <1>3 DEF Settle, HolesEnd, Outcome
<1>4. CASE /\ phase' = "AwaitingPatchApproval" /\ stage' = None /\ commit' = None
           /\ UNCHANGED <<run, basis>>
  BY <1>1, <1>4 DEF HolesEnd, Outcome
<1> QED BY <1>2, <1>3, <1>4 DEF HolesAnswered

\* Every result of a provider, and of the drawing for a review.
LEMMA ResultComesOut ==
  ASSUME Inductive, \/ \E spent \in Spent : ProviderAnswered(spent)
                    \/ ReviewDrawn \/ ReviewUndrawn
  PROVE  Outcome
<1>1. CASE \E spent \in Spent : ProviderAnswered(spent)
  <2>1. PICK spent \in Spent : ProviderAnswered(spent)
    BY <1>1
  <2>2. spent \in Nat
    BY ConfigAssumption
  <2>3. Reply
    BY <2>1 DEF ProviderAnswered, ProviderFailed, LateAnswer, UnreadableAnswer,
       RefusedAnswer, StageAnswered, WrittenAnswered, HolesAnswered
  <2>4. stage # None
    BY <2>3, ReplyOutside
  <2>5. CASE \E failure : Fail(failure, spent)
    BY <2>2, <2>4, <2>5, FailComesOut
  <2>6. CASE StageAnswered(spent)
    <3>1. CASE SketchAnswered
      BY <3>1, FinishSketchEnds DEF SketchAnswered, Outcome
    <3>2. CASE CompositionAnswered
      BY <3>2, CompositionEnds DEF CompositionAnswered, Outcome
    <3> QED BY <2>2, <2>6, <3>1, <3>2, CanonicalComesOut, LawsComeOut, ColorsComeOut
            DEF StageAnswered
  <2>7. Outcome
    BY <2>1, <2>2, <2>4, <2>5, <2>6, WrittenComesOut, HolesComeOut
    DEF ProviderAnswered, ProviderFailed, LateAnswer, UnreadableAnswer, RefusedAnswer
  <2> QED BY <2>7
<1>2. CASE ReviewDrawn \/ ReviewUndrawn
  <2>1. /\ phase = "AwaitingImageReviewDrawing" /\ stage = None
        /\ stage # "CompleteVisibleDdlHoles"
    BY <1>2, NoneAssumption DEF ReviewDrawn, ReviewUndrawn, Inductive, PhasePayload, Stages
  <2>2. kept.image \in Ddl
    BY <2>1 DEF Inductive, TypeOK, KeptTypes, KeptIsThere
  <2>3. CASE CommitWritten(kept.image)
    BY <2>1, <2>2, <2>3, CommitWrittenGoes, WrittenEnd DEF Outcome
  <2>4. CASE \E st \in ReviewStages : Begin(run, st)
    <3>1. Asks(ReviewStages, run, basis)
      BY <2>4, BeginAsks DEF Asks
    <3>2. ReviewStages \in SUBSET (Stages \ {"ChooseColors", "CompleteVisibleDdlHoles"})
      BY DEF Stages, ReviewStages, ImageStages, DescriptionStages
    <3>3. stage \notin ReviewStages /\ stage # "ChooseColors"
      BY <2>1, NoneAssumption, <3>2 DEF Stages
    <3> QED BY <2>1, <3>1, <3>2, <3>3, EarlyEnd DEF Outcome
  <2> QED BY <1>2, <2>1, <2>3, <2>4 DEF ReviewDrawn, ReviewUndrawn, ReviewStages
<1> QED BY <1>1, <1>2

\* Results leave what is saved alone, and come only while they are awaited.
LEMMA ResultOutside ==
  ASSUME \/ \E spent \in Spent : ProviderAnswered(spent)
         \/ ReviewDrawn \/ ReviewUndrawn
  PROVE  /\ UNCHANGED <<config, authority, document, committed>>
         /\ phase \in {"AwaitingLlm", "AwaitingImageReviewDrawing"}
  BY DEF ProviderAnswered, ProviderFailed, LateAnswer, UnreadableAnswer, RefusedAnswer,
     StageAnswered, WrittenAnswered, HolesAnswered, Reply, ReviewDrawn, ReviewUndrawn, saved
-----------------------------------------------------------------------------
\* Budgets and feedback.

\* While a stage waits, only results and the author's cancelling move.
LEMMA WaitingStep ==
  ASSUME Inductive, Next, stage # None
  PROVE  Outcome \/ (phase' = "Cancelled" /\ stage' = None)
<1>1. phase = "AwaitingLlm"
  BY DEF Inductive, PhasePayload
<1>2. CASE \/ \E spent \in Spent : ProviderAnswered(spent)
           \/ ReviewDrawn \/ ReviewUndrawn
  BY <1>2, ResultComesOut
<1>3. CASE Cancel
  BY <1>3 DEF Cancel, Settle
<1> QED BY <1>1, <1>2, <1>3
        DEF Next, Start, StartDescription, StartDirectDdl, StartSavedLaws, StartImage,
            EffectResult, VisibleDdlCommitted, HostCommitFailed, AuthorCommand,
            CommitUserDdl, GenerateFromDescription, CompleteHolesCommand, TakeCommand,
            Editable, Resting, ApprovePatch, DeclinePatch, Render

\* An outcome that stays in its stage is a request again.
LEMMA StayingIsAgain ==
  ASSUME stage # None, stage' = stage, Outcome
  PROVE  Again \/ Chooses
  BY DEF Outcome, Ends, GoesOn, DrawsReview, ProposesStages, ProposesWritten,
     ProposesResidual, Proposes, Stops, HolesEnd

\* Whatever a request meets, its stage goes on counting attempts where it was: a
\* request given back with what was wrong with it, a retry after a failure, or the
\* second chance of Stage 1 has no budget of its own (reissue, failure_with_detail).
THEOREM BudgetsAreKept == Spec => NeverStartsOver
<1>1. Inductive /\ [Next]_vars =>
        [stage # None /\ stage' = stage /\ action' # action =>
           \/ action'.attempt = action.attempt + 1
           \/ stage = "SelectDescriptionCatalog" /\ action.request = "first"
                /\ action'.request = "choice"]_vars
  <2> SUFFICES ASSUME Inductive, Next, stage # None, stage' = stage
               PROVE  \/ action'.attempt = action.attempt + 1
                      \/ stage = "SelectDescriptionCatalog" /\ action.request = "first"
                           /\ action'.request = "choice"
    OBVIOUS
  <2>1. Again \/ Chooses
    BY WaitingStep, StayingIsAgain
  <2> QED BY <2>1 DEF Again, Chooses
<1> QED BY <1>1, InductiveInvariant, PTL DEF Spec, NeverStartsOver

\* A stage that gives an answer back does so once: its next answer is settled
\* (written_ddl_response, description_composition_response, hole_response).
THEOREM FeedbackIsGivenOnce == Spec => AsksAgainOnce
<1>1. Inductive /\ [Next]_vars =>
        [/\ stage \in WriteStages \cup ReviewStages \cup
                      {"ComposeDescription", "CompleteVisibleDdlHoles"}
         /\ stage' = stage /\ action.request = "feedback"
         => action'.ordinal = action.ordinal]_vars
  <2> SUFFICES ASSUME Inductive, Next, stage' = stage, action.request = "feedback",
                      stage \in WriteStages \cup ReviewStages \cup
                                {"ComposeDescription", "CompleteVisibleDdlHoles"}
               PROVE  action'.ordinal = action.ordinal
    OBVIOUS
  <2>1. /\ stage # None
        /\ stage \notin {"GenerateNormalizedDdl", "ChooseLaws", "ChooseColors",
                         "SelectDescriptionCatalog"}
    BY NoneAssumption DEF WriteStages, ReviewStages, Stages, ImageStages, DescriptionStages
  <2>2. Again \/ Chooses
    BY <2>1, WaitingStep, StayingIsAgain
  <2> QED BY <2>1, <2>2 DEF Again, Chooses
<1> QED BY <1>1, InductiveInvariant, PTL DEF Spec, AsksAgainOnce

-----------------------------------------------------------------------------
\* What is kept.

\* What the runs call kept for a later request: any document but the base of the
\* laws of a saved work.
HoldsDocument ==
  \/ \E k \in {"stage1", "composition", "colors", "image"} : kept[k] # None
  \/ kept.laws # None /\ ~run.move

LEMMA NothingHeld ==
  ASSUME kept = Nothing
  PROVE  ~HoldsDocument
  BY DEF Nothing, HoldsDocument

LEMMA OutcomeKeeps ==
  ASSUME Outcome, phase \in {"AwaitingLlm", "AwaitingImageReviewDrawing"}, HoldsDocument
  PROVE  phase' # "Failed"
<1>1. ~Stops
  BY DEF Stops, HoldsDocument
<1> QED BY <1>1 DEF Outcome, Again, Chooses, Ends, GoesOn, DrawsReview, ProposesStages,
     ProposesWritten, ProposesResidual, Proposes, HolesEnd

\* A run that holds a drawing document for a later request never fails with that
\* request: it goes on with what it holds (the fallbacks of machine.rs). A run of
\* the laws from a saved work may, rather than save its base (fail_laws_move).
THEOREM KeptDocumentsAreUsed == Spec => KeptIsNeverLost
<1>1. ASSUME Inductive, Next, HoldsDocument
      PROVE  phase' # "Failed"
  <2>1. CASE \/ \E spent \in Spent : ProviderAnswered(spent)
             \/ ReviewDrawn \/ ReviewUndrawn
    BY <1>1, <2>1, ResultComesOut, ResultOutside, OutcomeKeeps
  <2>2. CASE phase = "AuthoringStarted"
    BY <1>1, <2>2, NothingHeld DEF Inductive, NothingBeforeStart
  <2>3. CASE phase = "AwaitingVisibleDdlCommit"
    <3>1. stage = None
      BY <1>1, <2>3 DEF Inductive, PhasePayload
    <3>2. kept = Nothing
      BY <1>1, <2>3, <3>1, NothingKept, NoneAssumption
      DEF WriteStages, ReviewStages, Stages, ImageStages, DescriptionStages
    <3> QED BY <1>1, <3>2, NothingHeld
  <2>4. CASE phase \in Resting \cup {"AwaitingPatchApproval"}
    BY <1>1, <2>4, AtRest, NothingHeld
  <2>5. CASE Cancel
    BY <2>5 DEF Cancel, Settle
  <2> QED BY <1>1, <2>1, <2>2, <2>3, <2>4, <2>5
          DEF Next, Start, StartDescription, StartDirectDdl, StartSavedLaws, StartImage,
              EffectResult, VisibleDdlCommitted, HostCommitFailed, AuthorCommand,
              CommitUserDdl, GenerateFromDescription, CompleteHolesCommand, TakeCommand,
              Editable, ApprovePatch, DeclinePatch, Render, Resting
<1>2. Inductive /\ [Next]_vars =>
        [(\E k \in {"stage1", "composition", "colors", "image"} : kept[k] # None)
           \/ (kept.laws # None /\ ~run.move)
         => phase' # "Failed"]_vars
  BY <1>1 DEF HoldsDocument
<1> QED BY <1>2, InductiveInvariant, PTL DEF Spec, KeptIsNeverLost
-----------------------------------------------------------------------------
\* Starts, acknowledgements and commands.

LEMMA DescriptionAsks ==
  ASSUME NEW r, NEW auto_catalog, Description(r, auto_catalog)
  PROVE  /\ ProposeStage1Result(authority) # NoProposal
         /\ Asks(Stages \ {"ChooseColors", "CompleteVisibleDdlHoles"}, r, basis)
<1>1. {"SelectDescriptionCatalog", "ReadDescription", "ComposeDescription",
       "WriteDescriptionDdl", "GenerateSketch", "GenerateNormalizedDdl"}
        \subseteq Stages \ {"ChooseColors", "CompleteVisibleDdlHoles"}
  BY DEF Stages, DescriptionStages
<1>2. CASE Begin(r, "SelectDescriptionCatalog")
  BY <1>1, <1>2, BeginAsks DEF Asks, Description
<1>3. CASE AfterDescriptionCatalog(r)
  BY <1>1, <1>3, AfterCatalogAsks DEF Asks, Description
<1> QED BY <1>2, <1>3 DEF Description

\* What the other steps make of the phase, the proposal and the basis.
StartsDescription ==
  /\ phase = "AuthoringStarted" /\ authority = NewDescription
  /\ \E r \in DescriptionRuns :
       Asks(Stages \ {"ChooseColors", "CompleteVisibleDdlHoles"}, r, basis)

StartsOther ==
  /\ phase = "AuthoringStarted" /\ authority = NewDirectDdl
  /\ \/ Proposes("direct_ddl", ProposeUserMutation(authority))
     \/ /\ stage' = "ChooseLaws" /\ phase' = "AwaitingLlm" /\ commit' = None
        /\ run' = [run EXCEPT !.move = TRUE] /\ basis' = basis
     \/ /\ stage' = None /\ phase' = "Failed" /\ commit' = None
        /\ run' = [run EXCEPT !.move = TRUE] /\ basis' = basis
     \/ Asks({"SelectImageCatalog", "WriteImageDdl"}, [run EXCEPT !.image = TRUE], basis)

LEMMA StartComesOut ==
  ASSUME Start
  PROVE  /\ StartsDescription \/ StartsOther
         /\ UNCHANGED <<authority, document, committed>>
<1>1. CASE StartDescription
  BY <1>1, DescriptionAsks DEF StartDescription, StartsDescription, saved
<1>2. CASE StartDirectDdl
  BY <1>2, CommitProposes DEF StartDirectDdl, StartsOther, saved
<1>3. CASE StartSavedLaws
  BY <1>3 DEF StartSavedLaws, BeginLlm, Ask, Settle, StartsOther, saved
<1>4. CASE StartImage
  BY <1>4, BeginAsks DEF StartImage, StartsOther, Asks, saved
<1> QED BY <1>1, <1>2, <1>3, <1>4 DEF Start

\* An acknowledgement, and a completion that may follow it.
Completes == \/ phase' = "AwaitingLlm" /\ stage' = "CompleteVisibleDdlHoles"
             \/ phase' \in {"Failed", "ScoreReady", "NeedsUserEdit"} /\ stage' = None

Acknowledges ==
  /\ phase = "AwaitingVisibleDdlCommit" /\ commit' = None /\ UNCHANGED <<run, basis>>
  /\ authority' = commit.next /\ document' = commit.document /\ committed' = commit.reason
  /\ Completes
  /\ stage' = "CompleteVisibleDdlHoles" => Completing(commit.reason)

LEMMA AcknowledgementComesOut ==
  ASSUME VisibleDdlCommitted
  PROVE  Acknowledges
<1>1. /\ phase = "AwaitingVisibleDdlCommit" /\ UNCHANGED <<run, basis>>
      /\ authority' = commit.next /\ document' = commit.document
      /\ committed' = commit.reason
  BY DEF VisibleDdlCommitted, Acknowledged
<1>2. \/ \E to \in {"Failed", "ScoreReady", "NeedsUserEdit"} : Settle(to)
      \/ /\ Completing(commit.reason)
         /\ Ask("CompleteVisibleDdlHoles", "first") \/ Settle("NeedsUserEdit")
  BY DEF VisibleDdlCommitted, Acknowledged, CompleteHoles
<1>3. "CompleteVisibleDdlHoles" # None
  BY NoneAssumption DEF Stages
<1>4. commit' = None
  BY <1>2 DEF Ask, Settle
<1>5. Completes
  BY <1>2 DEF Ask, Settle, Completes
<1>6. stage' = "CompleteVisibleDdlHoles" => Completing(commit.reason)
  BY <1>2, <1>3 DEF Settle
<1> QED BY <1>1, <1>4, <1>5, <1>6 DEF Acknowledges

\* The author's commands.
Commanded ==
  \/ /\ phase \in Resting \cup {"AwaitingPatchApproval"} /\ basis' = basis
     /\ \E reason \in {"user_ddl_mutation", "user_approved_patch"} :
          Proposes(reason, ProposeUserMutation(authority))
  \/ /\ "generate_from_description" \in Commands /\ phase \in Resting
     /\ ProposeStage1Result(authority) # NoProposal
     /\ \E r \in DescriptionRuns :
          Asks(Stages \ {"ChooseColors", "CompleteVisibleDdlHoles"}, r, basis)
  \/ /\ "complete_holes" \in Commands /\ phase \in Resting /\ document # None
     /\ Completes /\ commit' = None /\ UNCHANGED <<run, basis>>
  \/ /\ phase \in Resting \cup {"AwaitingPatchApproval"} /\ stage' = None
     /\ phase' \in {"NeedsUserEdit", "Completed"} /\ commit' = None
     /\ UNCHANGED <<run, basis>>
  \/ /\ phase \notin {"AuthoringStarted", "Cancelled"} /\ phase' = "Cancelled"
     /\ stage' = None /\ commit' = None /\ UNCHANGED <<run, basis>>

LEMMA CommandComesOut ==
  ASSUME Inductive, AuthorCommand
  PROVE  Commanded /\ UNCHANGED <<authority, document, committed>>
<1>1. CASE CommitUserDdl
  <2>1. /\ phase \in Resting /\ UNCHANGED <<authority, document, committed, run, basis>>
        /\ \E d \in Ddl : CommitDocument(d, "user_ddl_mutation",
                                         ProposeUserMutation(authority), FALSE)
    BY <1>1 DEF CommitUserDdl, TakeCommand, Editable, saved
  <2> QED BY <2>1, CommitProposes DEF Commanded
<1>2. CASE GenerateFromDescription
  BY <1>2, DescriptionAsks
  DEF GenerateFromDescription, TakeCommand, Editable, Commanded, saved
<1>3. CASE CompleteHolesCommand
  <2>1. /\ phase \in Resting /\ UNCHANGED <<authority, document, committed, run, basis>>
        /\ "complete_holes" \in Commands /\ document # None /\ CompleteHoles(delivery)
    BY <1>3 DEF CompleteHolesCommand, TakeCommand, Editable, saved
  <2>2. Completes /\ commit' = None
    BY <2>1 DEF CompleteHoles, Ask, Settle, Completes
  <2> QED BY <2>1, <2>2 DEF Commanded
<1>4. CASE ApprovePatch
  <2>1. /\ phase = "AwaitingPatchApproval" /\ patch.candidate \in Ddl
        /\ UNCHANGED <<authority, document, committed, run, basis>>
        /\ \E rng : CommitDocument(patch.candidate, "user_approved_patch",
                                   ProposeUserMutation(authority), rng)
    BY <1>4 DEF ApprovePatch, saved, Inductive, TypeOK, PhasePayload, Patches
  <2> QED BY <2>1, CommitProposes DEF Commanded
<1>5. CASE DeclinePatch
  BY <1>5 DEF DeclinePatch, Settle, Commanded, saved
<1>6. CASE Render
  <2>1. phase \in Resting
    BY <1>6 DEF Render, Resting
  <2>2. stage = None /\ commit = None
    BY <2>1, AtRest DEF Inductive, PhasePayload
  <2> QED BY <1>6, <2>1, <2>2 DEF Render, Commanded, saved
<1>7. CASE Cancel
  BY <1>7 DEF Cancel, Settle, Commanded, saved
<1> QED BY <1>1, <1>2, <1>3, <1>4, <1>5, <1>6, <1>7 DEF AuthorCommand

\* The host could not save.
Refuses ==
  /\ phase = "AwaitingVisibleDdlCommit" /\ phase' = "Failed" /\ stage' = None
  /\ commit' = None /\ UNCHANGED <<run, basis, authority, document, committed>>

\* Every step of the machine.
LEMMA StepComesOut ==
  ASSUME Inductive, Next
  PROVE  \/ /\ Outcome /\ phase \in {"AwaitingLlm", "AwaitingImageReviewDrawing"}
            /\ UNCHANGED <<authority, document, committed>>
         \/ /\ StartsDescription \/ StartsOther \/ Commanded
            /\ UNCHANGED <<authority, document, committed>>
         \/ Acknowledges \/ Refuses
<1>1. CASE \/ \E spent \in Spent : ProviderAnswered(spent)
           \/ ReviewDrawn \/ ReviewUndrawn
  BY <1>1, ResultComesOut, ResultOutside
<1>2. CASE Start
  BY <1>2, StartComesOut
<1>3. CASE AuthorCommand
  BY <1>3, CommandComesOut
<1>4. CASE VisibleDdlCommitted
  BY <1>4, AcknowledgementComesOut
<1>5. CASE HostCommitFailed
  BY <1>5 DEF HostCommitFailed, Settle, Refuses, saved
<1> QED BY <1>1, <1>2, <1>3, <1>4, <1>5 DEF Next, EffectResult

-----------------------------------------------------------------------------
\* The laws basis and the completions.

LEMMA LawsNameTheirCommitKept ==
  ASSUME Inductive, Next, LawsNameTheirCommit
  PROVE  LawsNameTheirCommit'
<1>1. None # "ChooseColors"
  BY NoneAssumption DEF Stages
<1>2. CASE commit' = None /\ (stage' = "ChooseColors" /\ run'.move => basis' = Open)
  BY <1>2 DEF LawsNameTheirCommit, LawsCommitIsPrinted
<1>3. CASE UNCHANGED <<commit, basis, run, stage>>
  BY <1>3 DEF LawsNameTheirCommit, LawsCommitIsPrinted
<1>4. ASSUME NEW reason, NEW next, Proposes(reason, next),
             reason = "saved_laws" => basis' = commit'.document
      PROVE  LawsNameTheirCommit'
  BY <1>1, <1>4 DEF Proposes, LawsNameTheirCommit, LawsCommitIsPrinted
<1>5. CASE Outcome
  <2>1. CASE Again \/ Chooses
    BY <1>3, <2>1 DEF Again, Chooses
  <2>2. CASE GoesOn
    BY <1>2, <2>2 DEF GoesOn
  <2>3. CASE DrawsReview \/ Stops \/ HolesEnd
    BY <1>1, <1>2, <2>3 DEF DrawsReview, Stops, HolesEnd
  <2>4. CASE ProposesStages
    <3>1. RunReason = "saved_laws" => run.move
      BY DEF RunReason
    <3>2. stage = "ChooseColors" /\ run.move => basis = Open
      BY DEF LawsNameTheirCommit
    <3> QED BY <1>4, <2>4, <3>1, <3>2 DEF ProposesStages
  <2>5. CASE ProposesWritten
    BY <1>4, <2>5 DEF ProposesWritten, WrittenReason
  <2>6. CASE ProposesResidual
    BY <1>4, <2>6 DEF ProposesResidual
  <2> QED BY <1>5, <2>1, <2>2, <2>3, <2>4, <2>5, <2>6 DEF Outcome, Ends
<1>6. CASE StartsDescription
  BY <1>2, <1>6 DEF StartsDescription, Asks
<1>7. CASE StartsOther
  BY <1>1, <1>2, <1>4, <1>7 DEF StartsOther, Asks
<1>8. CASE Commanded
  BY <1>1, <1>2, <1>4, <1>8 DEF Commanded, Asks, Completes
<1>9. CASE Acknowledges \/ Refuses
  BY <1>1, <1>2, <1>9 DEF Acknowledges, Completes, Refuses
<1> QED BY <1>5, <1>6, <1>7, <1>8, <1>9, StepComesOut

\* A run of the laws from a saved work commits only what its laws printed: at the
\* commit its basis names the committed document (lay_laws, commit_stage1).
THEOREM LawsCommitsArePrinted == Spec => []LawsCommitIsPrinted
<1>1. Init => LawsNameTheirCommit
  BY NoneAssumption DEF Init, LawsNameTheirCommit, LawsCommitIsPrinted, Stages
<1>2. Inductive /\ LawsNameTheirCommit /\ [Next]_vars => LawsNameTheirCommit'
  <2>1. CASE UNCHANGED vars
    BY <2>1 DEF vars, progress, LawsNameTheirCommit, LawsCommitIsPrinted
  <2> QED BY <2>1, LawsNameTheirCommitKept
<1>3. LawsNameTheirCommit => LawsCommitIsPrinted
  BY DEF LawsNameTheirCommit
<1> QED BY <1>1, <1>2, <1>3, InductiveInvariant, PTL DEF Spec

\* Unless the author asks for it, no completion follows a commit that stands as it
\* was committed: an adopted residual, a DDL from an image or read and drawn, or an
\* approved patch (completing in accept_result). The author's command may (machine.rs
\* complete_holes), so it is taken not to be sent.
THEOREM CompletionsDoNotFeed ==
  ASSUME "complete_holes" \notin Commands
  PROVE  Spec => []StandsAsCommitted
<1>1. Init => StandsAsCommitted
  BY NoneAssumption DEF Init, StandsAsCommitted
<1>2. None # "CompleteVisibleDdlHoles"
  BY NoneAssumption DEF Stages
<1>3. ASSUME Inductive, Next, StandsAsCommitted
      PROVE  StandsAsCommitted'
  <2>1. CASE stage' # "CompleteVisibleDdlHoles" /\ phase' # "AwaitingPatchApproval"
    BY <2>1 DEF StandsAsCommitted
  <2>2. CASE UNCHANGED <<stage, phase, committed>>
    BY <1>3, <2>2 DEF StandsAsCommitted
  <2>3. CASE Outcome /\ UNCHANGED committed
    <3>1. CASE Again \/ Chooses
      BY <2>2, <2>3, <3>1 DEF Again, Chooses
    <3>2. CASE HolesEnd
      BY <1>3, <2>3, <3>2 DEF HolesEnd, StandsAsCommitted
    <3>3. CASE Ends
      BY <1>2, <2>1, <3>3 DEF Ends, GoesOn, DrawsReview, ProposesStages, ProposesWritten,
         ProposesResidual, Proposes, Stops
    <3> QED BY <2>3, <3>1, <3>2, <3>3 DEF Outcome
  <2>4. CASE StartsDescription \/ StartsOther
    BY <1>2, <2>1, <2>4 DEF StartsDescription, StartsOther, Asks, Proposes
  <2>5. CASE Commanded
    BY <1>2, <2>1, <2>5 DEF Commanded, Asks, Proposes
  <2>6. CASE Acknowledges
    BY <1>2, <2>1, <2>6 DEF Acknowledges, Completes, Completing, StandsAsCommitted
  <2>7. CASE Refuses
    BY <1>2, <2>1, <2>7 DEF Refuses
  <2> QED BY <1>3, <2>3, <2>4, <2>5, <2>6, <2>7, StepComesOut
<1>4. StandsAsCommitted /\ UNCHANGED vars => StandsAsCommitted'
  BY DEF vars, saved, progress, StandsAsCommitted
<1>5. Inductive /\ StandsAsCommitted /\ [Next]_vars => StandsAsCommitted'
  BY <1>3, <1>4
<1> QED BY <1>1, <1>5, InductiveInvariant, PTL DEF Spec

\* While the first generation is under way nothing was committed, and the basis is
\* absent or open.
Generating ==
  /\ committed = None
  /\ \/ basis = None
     \/ basis = Open /\ stage = "ChooseColors" /\ run.reading = "none"

LEMMA GeneratingGoesOn ==
  ASSUME Inductive, Outcome, UNCHANGED <<document, committed>>, BasisOfGeneration,
         phase \in {"AwaitingLlm", "AwaitingImageReviewDrawing"},
         stage # "CompleteVisibleDdlHoles"
  PROVE  BasisOfGeneration'
<1>1. None \notin Stages /\ None \notin DescriptionReasons /\ None # Open /\ None # "ChooseColors"
  BY NoneAssumption DEF Stages, DescriptionReasons, Reasons
<1>2. Generating
  <2>1. stage \in Stages \ {"CompleteVisibleDdlHoles"} \/ phase = "AwaitingImageReviewDrawing"
    BY DEF Inductive, TypeOK, PhasePayload
  <2> QED BY <2>1 DEF BasisOfGeneration, Generating
<1>3. ASSUME Generating', phase' # "AuthoringStarted", commit' = None
      PROVE  BasisOfGeneration'
  BY <1>1, <1>3 DEF Generating, BasisOfGeneration
<1>4. ASSUME NEW reason, NEW next, Proposes(reason, next),
             reason \in DescriptionReasons => basis' \in {None, commit'.document}
      PROVE  BasisOfGeneration'
  <2>1. /\ phase' = "AwaitingVisibleDdlCommit" /\ stage' = None
        /\ commit'.reason = reason /\ committed' = None
    BY <1>2, <1>4 DEF Proposes, Generating
  <2> QED BY <1>1, <1>4, <2>1 DEF BasisOfGeneration
<1>5. CASE Again \/ Chooses
  <2>1. UNCHANGED <<phase, stage, commit, run, basis>> /\ stage # None
    BY <1>1, <1>5 DEF Again, Chooses, Stages
  <2>2. commit = None
    BY <2>1, Asking
  <2> QED BY <1>2, <1>3, <2>1, <2>2 DEF Generating
<1>6. CASE GoesOn
  <2>1. basis = None /\ committed' = None
    BY <1>2, <1>6 DEF Generating, GoesOn
  <2>2. stage = "ChooseLaws" => run.reading = "none"
    BY DEF Inductive, RouteOfRun, RouteFor
  <2>3. Generating'
    BY <1>6, <2>1, <2>2 DEF Generating, GoesOn
  <2> QED BY <1>3, <1>6, <2>3 DEF GoesOn
<1>7. CASE DrawsReview /\ stage # "ChooseColors"
  BY <1>2, <1>3, <1>7 DEF DrawsReview, Generating
<1>8. CASE ProposesStages
  <2>1. RunReason \in DescriptionReasons => basis' \in {None, commit'.document}
    BY <1>1, <1>2, <1>8 DEF ProposesStages, Generating
  <2> QED BY <1>4, <1>8, <2>1 DEF ProposesStages
<1>9. CASE ProposesWritten
  <2>1. WrittenReason \in DescriptionReasons => run.reading # "none"
    BY DEF WrittenReason, DescriptionReasons, OfDescription
  <2>2. WrittenReason \in DescriptionReasons => basis' \in {None, commit'.document}
    BY <1>2, <1>9, <2>1 DEF ProposesWritten, Generating
  <2> QED BY <1>4, <1>9, <2>2 DEF ProposesWritten
<1>10. CASE ProposesResidual
  BY <1>2, <1>4, <1>10 DEF ProposesResidual, Generating
<1>11. CASE Stops
  <2>1. phase' = "Failed" /\ stage' = None /\ commit' = None /\ committed' = None
    BY <1>2, <1>11 DEF Stops, Generating
  <2> QED BY <1>1, <2>1 DEF BasisOfGeneration
<1> QED BY <1>5, <1>6, <1>7, <1>8, <1>9, <1>10, <1>11 DEF Outcome, Ends, HolesEnd

LEMMA BasisOfGenerationKept ==
  ASSUME Inductive, Next, BasisOfGeneration, "generate_from_description" \notin Commands
  PROVE  BasisOfGeneration'
<1>1. /\ None \notin Stages /\ None \notin DescriptionReasons /\ None # Open
      /\ None # "CompleteVisibleDdlHoles"
  BY NoneAssumption DEF Stages, DescriptionReasons, Reasons
<1>2. ASSUME phase' \notin {"AuthoringStarted", "AwaitingImageReviewDrawing"},
             stage' \in {None, "CompleteVisibleDdlHoles"}, commit' = None,
             UNCHANGED <<document, committed, basis>>
      PROVE  BasisOfGeneration'
  BY <1>1, <1>2 DEF BasisOfGeneration
<1>3. ASSUME NEW reason, NEW next, Proposes(reason, next),
             reason \notin DescriptionReasons, UNCHANGED <<document, committed>>,
             basis' = basis \/ committed = None
      PROVE  BasisOfGeneration'
  <2>1. /\ phase' = "AwaitingVisibleDdlCommit" /\ stage' = None
        /\ commit'.reason = reason
    BY <1>3 DEF Proposes
  <2> QED BY <1>1, <1>3, <2>1 DEF BasisOfGeneration
<1>4. CASE /\ Outcome /\ phase \in {"AwaitingLlm", "AwaitingImageReviewDrawing"}
           /\ UNCHANGED <<authority, document, committed>>
  <2>1. CASE stage # "CompleteVisibleDdlHoles"
    BY <1>4, <2>1, GeneratingGoesOn
  <2>2. CASE stage = "CompleteVisibleDdlHoles"
    <3>1. Again \/ HolesEnd
      BY <1>4, <2>2 DEF Outcome, Chooses
    <3>2. commit = None /\ phase = "AwaitingLlm"
      BY <1>1, <2>2, Asking
    <3> QED BY <1>2, <1>4, <2>2, <3>1, <3>2 DEF Again, HolesEnd
  <2> QED BY <2>1, <2>2
<1>5. CASE (StartsDescription \/ StartsOther) /\ UNCHANGED <<authority, document, committed>>
  <2>1. phase = "AuthoringStarted" /\ basis = None /\ committed = None
    BY <1>5 DEF StartsDescription, StartsOther, BasisOfGeneration
  <2>2. CASE Proposes("direct_ddl", ProposeUserMutation(authority))
    BY <1>3, <1>5, <2>1, <2>2 DEF DescriptionReasons
  <2>3. CASE /\ phase' \in {"AwaitingLlm", "Failed"} /\ commit' = None /\ basis' = basis
    BY <1>1, <1>5, <2>1, <2>3 DEF BasisOfGeneration
  <2> QED BY <1>5, <2>2, <2>3 DEF StartsDescription, StartsOther, Asks
<1>6. CASE Commanded /\ UNCHANGED <<authority, document, committed>>
  <2>1. CASE /\ basis' = basis
             /\ \E reason \in {"user_ddl_mutation", "user_approved_patch"} :
                  Proposes(reason, ProposeUserMutation(authority))
    BY <1>3, <1>6, <2>1 DEF DescriptionReasons
  <2>2. CASE Completes /\ commit' = None /\ basis' = basis
    BY <1>2, <1>6, <2>2 DEF Completes
  <2>3. CASE /\ phase' \in {"NeedsUserEdit", "Completed", "Cancelled"} /\ stage' = None
             /\ commit' = None /\ basis' = basis
    BY <1>2, <1>6, <2>3
  <2> QED BY <1>6, <2>1, <2>2, <2>3 DEF Commanded
<1>7. CASE Acknowledges
  <2>1. commit # None
    BY <1>7 DEF Acknowledges, Inductive, PhasePayload
  <2>2. /\ commit' = None /\ basis' = basis /\ document' = commit.document
        /\ committed' = commit.reason
    BY <1>7 DEF Acknowledges
  <2>3. /\ phase' \notin {"AuthoringStarted", "AwaitingImageReviewDrawing"}
        /\ stage' \in {None, "CompleteVisibleDdlHoles"}
    BY <1>7 DEF Acknowledges, Completes
  <2>4. committed' \in DescriptionReasons => basis' \in {None, document'}
    BY <2>1, <2>2 DEF BasisOfGeneration
  <2> QED BY <1>1, <2>2, <2>3, <2>4 DEF BasisOfGeneration
<1>8. CASE Refuses
  BY <1>2, <1>8 DEF Refuses
<1> QED BY <1>4, <1>5, <1>6, <1>7, <1>8, StepComesOut

\* In an execution that generates once, the laws basis of an acknowledged description
\* names its DDL or is absent ("A run keeps no record of the run before it in the same
\* execution", machine.rs description).  A second generation may keep the basis of the
\* first, so the author is taken not to ask for one.
THEOREM FirstBasisNamesItsDdl ==
  ASSUME "generate_from_description" \notin Commands
  PROVE  Spec => []BasisNamesItsDdl
<1>1. Init => BasisOfGeneration
  BY NoneAssumption DEF Init, BasisOfGeneration, Stages, DescriptionReasons
<1>2. Inductive /\ BasisOfGeneration /\ [Next]_vars => BasisOfGeneration'
  <2>1. CASE UNCHANGED vars
    BY <2>1 DEF vars, saved, progress, BasisOfGeneration
  <2> QED BY <2>1, BasisOfGenerationKept
<1>3. BasisOfGeneration => BasisNamesItsDdl
  BY DEF BasisOfGeneration, BasisNamesItsDdl
<1> QED BY <1>1, <1>2, <1>3, InductiveInvariant, PTL DEF Spec

-----------------------------------------------------------------------------
\* What a host sees.

\* A view by its parts, and the view of a snapshot by what it is made from.
View(p, a, d, q, s) ==
  [phase |-> p, authority |-> a, document |-> d, proposal |-> q, source |-> s]

SourceOf(r) == IF ~r.image /\ ~r.move THEN "description" ELSE None
ReasonOf(reason) == IF reason \in DescriptionReasons THEN reason ELSE "user"

ViewOf(ph, st, c, a, d, r) ==
  View(CASE ph = "AuthoringStarted" -> "unstarted"
         [] ph = "Cancelled" -> "cancelled"
         [] ph = "AwaitingVisibleDdlCommit" -> "committing"
         [] ph = "AwaitingImageReviewDrawing" -> "asking"
         [] ph = "AwaitingLlm" -> IF st = "CompleteVisibleDdlHoles"
                                  THEN "completing" ELSE "asking"
         [] OTHER -> "rest",
       a, d,
       IF c = None THEN None
       ELSE [document |-> c.document, next |-> c.next,
             reason |-> IF c.reason \in DescriptionReasons THEN c.reason ELSE "user"],
       IF (st \in Stages \ {"CompleteVisibleDdlHoles"}
           \/ ph = "AwaitingImageReviewDrawing") /\ ~r.image /\ ~r.move
       THEN "description" ELSE None)

LEMMA HostViewIs ==
  /\ HostView = ViewOf(phase, stage, commit, authority, document, run)
  /\ HostView' = ViewOf(phase', stage', commit', authority', document', run')
  BY DEF HostView, ViewOf, View

LEMMA ViewAsking ==
  ASSUME NEW ph, NEW st, NEW a, NEW d, NEW r,
         \/ ph = "AwaitingLlm" /\ st \in Stages \ {"CompleteVisibleDdlHoles"}
         \/ ph = "AwaitingImageReviewDrawing"
  PROVE  ViewOf(ph, st, None, a, d, r) = View("asking", a, d, None, SourceOf(r))
  BY DEF ViewOf, SourceOf, View

LEMMA ViewResting ==
  ASSUME NEW ph, NEW a, NEW d, NEW r,
         ph \in Resting \cup {"AwaitingPatchApproval"}
  PROVE  ViewOf(ph, None, None, a, d, r) = View("rest", a, d, None, None)
<1>1. None \notin Stages
  BY NoneAssumption
<1>2. ph \notin {"AuthoringStarted", "Cancelled", "AwaitingVisibleDdlCommit",
                 "AwaitingImageReviewDrawing", "AwaitingLlm"}
  BY DEF Resting
<1> QED BY <1>1, <1>2 DEF ViewOf

LEMMA ViewOthers ==
  ASSUME NEW a, NEW d, NEW r
  PROVE  /\ ViewOf("AuthoringStarted", None, None, a, d, r)
              = View("unstarted", a, d, None, None)
         /\ ViewOf("Cancelled", None, None, a, d, r)
              = View("cancelled", a, d, None, None)
         /\ ViewOf("AwaitingLlm", "CompleteVisibleDdlHoles", None, a, d, r)
              = View("completing", a, d, None, None)
         /\ \A c : c # None =>
              ViewOf("AwaitingVisibleDdlCommit", None, c, a, d, r)
                = View("committing", a, d,
                       [document |-> c.document, reason |-> ReasonOf(c.reason),
                        next |-> c.next], None)
<1>1. None \notin Stages
  BY NoneAssumption
<1> QED BY <1>1 DEF ViewOf, ReasonOf

LEMMA ViewParts ==
  ASSUME NEW p, NEW a, NEW d, NEW q, NEW s
  PROVE  /\ View(p, a, d, q, s).phase = p /\ View(p, a, d, q, s).authority = a
         /\ View(p, a, d, q, s).document = d /\ View(p, a, d, q, s).proposal = q
         /\ View(p, a, d, q, s).source = s
  BY DEF View

\* The steps of MachineView on a view given by its parts.
LEMMA SeenSteps ==
  ASSUME NEW p, NEW a, NEW d, NEW q, NEW s
  PROVE  /\ \A e : Seen!Asked(View(p, a, d, q, s), e) = View("asking", a, d, None, e)
         /\ Seen!Completing(View(p, a, d, q, s)) = View("completing", a, d, None, None)
         /\ Seen!Settled(View(p, a, d, q, s)) = View("rest", a, d, None, None)
         /\ p \notin {"unstarted", "cancelled"} =>
              View("cancelled", a, d, None, None) \in Seen!Cancelled(View(p, a, d, q, s))
<1>1. PICK v : v = View(p, a, d, q, s)
  OBVIOUS
<1>2. v = [phase |-> p, authority |-> a, document |-> d, proposal |-> q, source |-> s]
  BY <1>1 DEF View
<1>3. ASSUME NEW e PROVE Seen!Asked(v, e) = View("asking", a, d, None, e)
  <2>1. PICK w : w = Seen!Asked(v, e)
    OBVIOUS
  <2>2. w = [v EXCEPT !.phase = "asking", !.source = e, !.proposal = None]
    BY <2>1 DEF Seen!Asked
  <2>3. w = [phase |-> "asking", authority |-> a, document |-> d, proposal |-> None,
             source |-> e]
    BY <1>2, <2>2
  <2> QED BY <2>1, <2>3 DEF View
<1>4. Seen!Completing(v) = View("completing", a, d, None, None)
  <2>1. PICK w : w = Seen!Completing(v)
    OBVIOUS
  <2>2. w = [v EXCEPT !.phase = "completing", !.source = None, !.proposal = None]
    BY <2>1 DEF Seen!Completing
  <2>3. w = [phase |-> "completing", authority |-> a, document |-> d, proposal |-> None,
             source |-> None]
    BY <1>2, <2>2
  <2> QED BY <2>1, <2>3 DEF View
<1>5. Seen!Settled(v) = View("rest", a, d, None, None)
  <2>1. PICK w : w = Seen!Settled(v)
    OBVIOUS
  <2>2. w = [v EXCEPT !.phase = "rest", !.source = None, !.proposal = None]
    BY <2>1 DEF Seen!Settled
  <2>3. w = [phase |-> "rest", authority |-> a, document |-> d, proposal |-> None,
             source |-> None]
    BY <1>2, <2>2
  <2> QED BY <2>1, <2>3 DEF View
<1>6. ASSUME p \notin {"unstarted", "cancelled"}
      PROVE  View("cancelled", a, d, None, None) \in Seen!Cancelled(v)
  <2>1. PICK w : w = [v EXCEPT !.phase = "cancelled", !.source = None, !.proposal = None]
    OBVIOUS
  <2>2. w = [phase |-> "cancelled", authority |-> a, document |-> d, proposal |-> None,
             source |-> None]
    BY <1>2, <2>1
  <2>3. w \in Seen!Cancelled(v)
    BY <1>1, <1>6, <2>1, ViewParts DEF Seen!Cancelled
  <2> QED BY <2>2, <2>3 DEF View
<1> QED BY <1>1, <1>3, <1>4, <1>5, <1>6

LEMMA SeenAuthority ==
  /\ Seen!NoProposal = NoProposal
  /\ \A a : Seen!ProposeUserMutation(a) = ProposeUserMutation(a)
  /\ \A a : Seen!ProposeStage1Result(a) = ProposeStage1Result(a)
  /\ Seen!NewDescription = NewDescription /\ Seen!NewDirectDdl = NewDirectDdl
  BY DEF Seen!NoProposal, NoProposal, Seen!ProposeUserMutation, ProposeUserMutation,
     Seen!ProposeStage1Result, ProposeStage1Result, Seen!ProposeAdvance, ProposeAdvance,
     Seen!NewDescription, NewDescription, Seen!NewDirectDdl, NewDirectDdl

LEMMA SeenProposal ==
  ASSUME NEW p, NEW a, NEW d, NEW q, NEW s, NEW D, NEW e \in D, NEW reason, NEW next,
         next # NoProposal
  PROVE  View("committing", a, d, [document |-> e, reason |-> reason, next |-> next], None)
           \in Seen!Proposed(View(p, a, d, q, s), D, reason, next)
<1>1. PICK v : v = View(p, a, d, q, s)
  OBVIOUS
<1>2. PICK r : r = [document |-> e, reason |-> reason, next |-> next]
  OBVIOUS
<1>3. PICK w : w = [v EXCEPT !.phase = "committing", !.source = None, !.proposal = r]
  OBVIOUS
<1>4. v = [phase |-> p, authority |-> a, document |-> d, proposal |-> q, source |-> s]
  BY <1>1 DEF View
<1>5. w = [phase |-> "committing", authority |-> a, document |-> d, proposal |-> r,
           source |-> None]
  BY <1>3, <1>4
<1>6. w = [v EXCEPT !.phase = "committing", !.source = None,
                    !.proposal = [document |-> e, reason |-> reason, next |-> next]]
  BY <1>2, <1>3
<1>7. w \in Seen!Proposed(v, D, reason, next)
  BY <1>6, SeenAuthority DEF Seen!Proposed
<1> QED BY <1>1, <1>2, <1>5, <1>7 DEF View

LEMMA SeenAcknowledged ==
  ASSUME NEW p, NEW a, NEW d, NEW q, NEW s
  PROVE  Seen!Acknowledged(View(p, a, d, q, s))
           = {View("rest", q.next, q.document, None, None),
              View("completing", q.next, q.document, None, None)}
<1>1. PICK v : v = View(p, a, d, q, s)
  OBVIOUS
<1>2. PICK w : w = [v EXCEPT !.authority = v.proposal.next, !.document = v.proposal.document]
  OBVIOUS
<1>3. v = [phase |-> p, authority |-> a, document |-> d, proposal |-> q, source |-> s]
  BY <1>1 DEF View
<1>4. w = [v EXCEPT !.authority = q.next, !.document = q.document]
  BY <1>2, <1>3
<1>5. w = [phase |-> p, authority |-> q.next, document |-> q.document, proposal |-> q,
           source |-> s]
  BY <1>3, <1>4
<1>6. w = View(p, q.next, q.document, q, s)
  BY <1>5 DEF View
<1>7. Seen!Acknowledged(v) = {Seen!Settled(w), Seen!Completing(w)}
  BY <1>2 DEF Seen!Acknowledged
<1> QED BY <1>1, <1>6, <1>7, SeenSteps

\* A proposal is the author's or the description's, as the source of the run says.
LEMMA ProposalOfSource ==
  ASSUME Inductive, phase \in {"AwaitingLlm", "AwaitingImageReviewDrawing"},
         ProposesStages \/ ProposesWritten \/ ProposesResidual
  PROVE  \E reason, next :
           /\ Proposes(reason, next)
           /\ SourceOf(run) = None => /\ reason \notin DescriptionReasons
                                      /\ next = ProposeUserMutation(authority)
           /\ SourceOf(run) # None => /\ reason \in DescriptionReasons
                                      /\ next = ProposeStage1Result(authority)
<1>1. ProposeStage1Result(authority) # NoProposal => ~run.image /\ ~run.move
  BY ImageRunHolds DEF ImageRun, ProposeStage1Result
<1>2. SourceOf(run) = None <=> run.image \/ run.move
  BY SourceAssumption DEF SourceOf
<1>3. CASE ProposesStages
  <2>1. Proposes(RunReason, RunProposal) /\ RunProposal # NoProposal
    BY <1>3 DEF ProposesStages, Proposes
  <2>2. CASE run.move
    <3>1. RunReason \notin DescriptionReasons /\ RunProposal = ProposeUserMutation(authority)
      BY <2>2 DEF RunReason, RunProposal, DescriptionReasons
    <3> QED BY <1>2, <2>1, <2>2, <3>1
  <2>3. CASE ~run.move
    <3>1. RunReason \in DescriptionReasons /\ RunProposal = ProposeStage1Result(authority)
      BY <2>3 DEF RunReason, RunProposal, DescriptionReasons
    <3> QED BY <1>1, <1>2, <2>1, <3>1
  <2> QED BY <2>2, <2>3
<1>4. CASE ProposesWritten
  <2>1. /\ Proposes(WrittenReason, WrittenProposal) /\ WrittenProposal # NoProposal
        /\ run.image \/ OfDescription
    BY <1>4 DEF ProposesWritten, Proposes
  <2>2. CASE OfDescription
    <3>1. /\ WrittenReason \in DescriptionReasons
          /\ WrittenProposal = ProposeStage1Result(authority)
      BY <2>2 DEF WrittenReason, WrittenProposal, DescriptionReasons
    <3> QED BY <1>1, <1>2, <2>1, <3>1
  <2>3. CASE ~OfDescription
    <3>1. /\ WrittenReason \notin DescriptionReasons
          /\ WrittenProposal = ProposeUserMutation(authority)
      BY <2>3 DEF WrittenReason, WrittenProposal, DescriptionReasons
    <3> QED BY <1>2, <2>1, <2>3, <3>1
  <2> QED BY <2>2, <2>3
<1>5. CASE ProposesResidual
  <2>1. /\ Proposes("stage1_residual_execution", ProposeStage1Result(authority))
        /\ ProposeStage1Result(authority) # NoProposal
    BY <1>5 DEF ProposesResidual, Proposes
  <2>2. "stage1_residual_execution" \in DescriptionReasons
    BY DEF DescriptionReasons
  <2> QED BY <1>1, <1>2, <2>1, <2>2
<1> QED BY <1>3, <1>4, <1>5

\* What a host sees of a proposal.
LEMMA ViewProposed ==
  ASSUME Inductive', NEW reason, NEW next, Proposes(reason, next),
         UNCHANGED <<authority, document>>
  PROVE  /\ HostView' = View("committing", authority, document,
                             [document |-> commit'.document, reason |-> ReasonOf(reason),
                              next |-> next], None)
         /\ commit'.document \in Ddl /\ next # NoProposal
<1>1. commit' # None
  BY DEF Inductive, PhasePayload, Proposes
<1>2. HostView' = ViewOf("AwaitingVisibleDdlCommit", None, commit', authority, document, run')
  BY HostViewIs DEF Proposes
<1>3. HostView' = View("committing", authority, document,
                       [document |-> commit'.document, reason |-> ReasonOf(commit'.reason),
                        next |-> commit'.next], None)
  BY <1>1, <1>2, ViewOthers
<1> QED BY <1>3 DEF Proposes

LEMMA ProposedByUserSeen ==
  ASSUME NEW p, NEW a, NEW d, NEW q, NEW s, NEW e \in Ddl, NEW reason,
         ReasonOf(reason) = "user", ProposeUserMutation(a) # NoProposal
  PROVE  View("committing", a, d, [document |-> e, reason |-> ReasonOf(reason),
                                   next |-> ProposeUserMutation(a)], None)
           \in Seen!ProposedByUser(View(p, a, d, q, s))
  BY SeenProposal, SeenAuthority, ViewParts DEF Seen!ProposedByUser

LEMMA OutcomeSeen ==
  ASSUME Inductive, Inductive', Outcome, UNCHANGED <<authority, document>>,
         phase \in {"AwaitingLlm", "AwaitingImageReviewDrawing"}
  PROVE  Seen!Answer \/ HostView' = HostView
<1>1. /\ commit = None
      /\ phase = "AwaitingLlm" => stage \in Stages
      /\ phase = "AwaitingImageReviewDrawing" => stage = None
      /\ None # "CompleteVisibleDdlHoles"
  BY NoneAssumption DEF Inductive, TypeOK, PhasePayload, Stages
<1>2. CASE Again \/ Chooses
  <2>1. UNCHANGED <<phase, stage, commit, run>>
    BY <1>2 DEF Again, Chooses
  <2> QED BY <2>1, HostViewIs
<1>3. CASE HolesEnd
  <2>1. HostView = View("completing", authority, document, None, None)
    BY <1>1, <1>3, HostViewIs, ViewOthers DEF HolesEnd
  <2>2. phase' \in Resting \cup {"AwaitingPatchApproval"}
    BY <1>3 DEF HolesEnd, Resting
  <2>3. HostView' = View("rest", authority, document, None, None)
    BY <1>3, <2>2, HostViewIs, ViewResting DEF HolesEnd
  <2> QED BY <2>1, <2>3, SeenSteps, ViewParts DEF Seen!Answer, Seen!Answered
<1>4. CASE stage # "CompleteVisibleDdlHoles" /\ Ends
  <2>1. HostView = View("asking", authority, document, None, SourceOf(run))
    BY <1>1, <1>4, HostViewIs, ViewAsking
  <2>2. ASSUME HostView' \in Seen!Answered(HostView)
        PROVE  Seen!Answer
    BY <2>1, <2>2, ViewParts DEF Seen!Answer
  <2>3. CASE GoesOn \/ DrawsReview
    <3>1. /\ commit' = None /\ run'.image = run.image /\ run'.move = run.move
          /\ \/ phase' = "AwaitingLlm" /\ stage' \in Stages \ {"CompleteVisibleDdlHoles"}
             \/ phase' = "AwaitingImageReviewDrawing"
      BY <2>3 DEF GoesOn, DrawsReview
    <3>2. HostView' = View("asking", authority, document, None, SourceOf(run'))
      BY <3>1, HostViewIs, ViewAsking
    <3> QED BY <2>1, <3>1, <3>2 DEF SourceOf
  <2>4. CASE Stops
    <3>1. HostView' = View("rest", authority, document, None, None)
      BY <2>4, HostViewIs, ViewResting DEF Stops, Resting
    <3> QED BY <2>1, <2>2, <3>1, SeenSteps, ViewParts DEF Seen!Answered
  <2>5. CASE ProposesStages \/ ProposesWritten \/ ProposesResidual
    <3>1. PICK reason, next :
            /\ Proposes(reason, next)
            /\ SourceOf(run) = None => /\ reason \notin DescriptionReasons
                                       /\ next = ProposeUserMutation(authority)
            /\ SourceOf(run) # None => /\ reason \in DescriptionReasons
                                       /\ next = ProposeStage1Result(authority)
      BY <2>5, ProposalOfSource
    <3> DEFINE w == View("committing", authority, document,
                         [document |-> commit'.document, reason |-> ReasonOf(reason),
                          next |-> next], None)
    <3>2. HostView' = w /\ commit'.document \in Ddl /\ next # NoProposal
      BY <3>1, ViewProposed
    <3>3. CASE SourceOf(run) = None
      <4>1. w \in Seen!ProposedByUser(HostView)
        BY <2>1, <3>1, <3>2, <3>3, ProposedByUserSeen DEF ReasonOf
      <4> QED BY <2>1, <2>2, <3>2, <3>3, <4>1, ViewParts DEF Seen!Answered
    <3>4. CASE SourceOf(run) # None
      <4>1. SourceOf(run) = "description"
        BY <3>4 DEF SourceOf
      <4>2. ReasonOf(reason) = reason /\ reason \in DescriptionReasons
        BY <3>1, <3>4 DEF ReasonOf
      <4>3. w \in Seen!Proposed(HostView, Ddl, reason, ProposeStage1Result(authority))
        BY <2>1, <3>1, <3>2, <3>4, <4>2, SeenProposal
      <4>4. w \in UNION {Seen!Proposed(HostView, Ddl, rn, ProposeStage1Result(authority)) :
                           rn \in DescriptionReasons}
        BY <4>2, <4>3
      <4>5. HostView.phase # "completing" /\ HostView.source = "description"
            /\ HostView.authority = authority
        BY <2>1, <4>1, ViewParts
      <4>6. [d \in {"description"} |-> Ddl]["description"] = Ddl
        OBVIOUS
      <4>7. w \in Seen!Answered(HostView)
        BY <4>4, <4>5, <4>6, SeenAuthority, SourceAssumption DEF Seen!Answered
      <4> QED BY <2>2, <3>2, <4>7
    <3> QED BY <3>3, <3>4
  <2> QED BY <1>4, <2>3, <2>4, <2>5 DEF Ends
<1> QED BY <1>2, <1>3, <1>4 DEF Outcome

LEMMA StartSeen ==
  ASSUME Inductive, Inductive', StartsDescription \/ StartsOther,
         UNCHANGED <<authority, document>>
  PROVE  Seen!Start
<1>1. /\ phase = "AuthoringStarted" /\ stage = None /\ commit = None /\ run = NoRun
      /\ run \in RunTypes
  BY DEF StartsDescription, StartsOther, Inductive, TypeOK, PhasePayload, NothingBeforeStart
<1>2. HostView = View("unstarted", authority, document, None, None)
  BY <1>1, HostViewIs, ViewOthers
<1>3. ASSUME HostView' \in Seen!Started(HostView)
      PROVE  Seen!Start
  BY <1>2, <1>3, ViewParts DEF Seen!Start
<1>4. CASE StartsDescription
  <2>1. PICK r \in DescriptionRuns :
          Asks(Stages \ {"ChooseColors", "CompleteVisibleDdlHoles"}, r, basis)
    BY <1>4 DEF StartsDescription
  <2>2. ~r.image /\ ~r.move
    BY <1>1, DescriptionRunsType DEF NoRun
  <2>3. HostView' = View("asking", authority, document, None, SourceOf(r))
    BY <2>1, HostViewIs, ViewAsking DEF Asks
  <2>4. SourceOf(r) = "description"
    BY <2>2 DEF SourceOf
  <2>5. HostView.authority.authority = "description_authoritative"
    BY <1>2, <1>4, ViewParts DEF StartsDescription, NewDescription
  <2>6. HostView' \in {Seen!Asked(HostView, d) : d \in {"description"}}
    BY <1>2, <2>3, <2>4, SeenSteps
  <2> QED BY <1>3, <2>5, <2>6 DEF Seen!Started
<1>5. CASE StartsOther
  <2>1. HostView.authority.authority # "description_authoritative"
    BY <1>2, <1>5, ViewParts DEF StartsOther, NewDirectDdl
  <2>2. CASE Proposes("direct_ddl", ProposeUserMutation(authority))
    <3>1. ReasonOf("direct_ddl") = "user"
      BY DEF ReasonOf, DescriptionReasons
    <3>2. HostView' \in Seen!ProposedByUser(HostView)
      BY <1>2, <2>2, <3>1, ViewProposed, ProposedByUserSeen
    <3> QED BY <1>3, <2>1, <3>2 DEF Seen!Started
  <2>3. CASE stage' = None /\ phase' = "Failed" /\ commit' = None
    <3>1. HostView' = View("rest", authority, document, None, None)
      BY <2>3, HostViewIs, ViewResting DEF Resting
    <3> QED BY <1>2, <1>3, <2>1, <3>1, SeenSteps DEF Seen!Started
  <2>4. ASSUME stage' \in Stages \ {"CompleteVisibleDdlHoles"}, phase' = "AwaitingLlm",
               commit' = None, run'.image \/ run'.move
        PROVE  Seen!Start
    <3>1. HostView' = View("asking", authority, document, None, None)
      BY <2>4, HostViewIs, ViewAsking DEF SourceOf
    <3> QED BY <1>2, <1>3, <2>1, <3>1, SeenSteps DEF Seen!Started
  <2>5. [run EXCEPT !.move = TRUE].move /\ [run EXCEPT !.image = TRUE].image
    BY <1>1 DEF RunTypes
  <2>6. {"ChooseLaws", "SelectImageCatalog", "WriteImageDdl"}
          \subseteq Stages \ {"CompleteVisibleDdlHoles"}
    BY DEF Stages, ImageStages
  <2> QED BY <1>5, <2>2, <2>3, <2>4, <2>5, <2>6 DEF StartsOther, Asks
<1> QED BY <1>4, <1>5

LEMMA CompletesSeen ==
  ASSUME Completes, commit' = None
  PROVE  HostView' \in {View("completing", authority', document', None, None),
                        View("rest", authority', document', None, None)}
<1>1. CASE phase' = "AwaitingLlm" /\ stage' = "CompleteVisibleDdlHoles"
  BY <1>1, HostViewIs, ViewOthers
<1>2. CASE phase' \in {"Failed", "ScoreReady", "NeedsUserEdit"} /\ stage' = None
  BY <1>2, HostViewIs, ViewResting DEF Resting
<1> QED BY <1>1, <1>2 DEF Completes

LEMMA CommitResultSeen ==
  ASSUME Inductive, Acknowledges \/ Refuses
  PROVE  Seen!Acknowledge \/ Seen!Refuse
<1>1. /\ phase = "AwaitingVisibleDdlCommit" /\ stage = None /\ commit # None
      /\ commit' = None
  BY DEF Acknowledges, Refuses, Inductive, PhasePayload
<1> DEFINE q == [document |-> commit.document, reason |-> ReasonOf(commit.reason),
                 next |-> commit.next]
<1>2. HostView = View("committing", authority, document, q, None)
  BY <1>1, HostViewIs, ViewOthers
<1>3. q.next = commit.next /\ q.document = commit.document
  OBVIOUS
<1> HIDE DEF q
<1>4. CASE Acknowledges
  <2>1. HostView' \in {View("completing", q.next, q.document, None, None),
                       View("rest", q.next, q.document, None, None)}
    BY <1>1, <1>3, <1>4, CompletesSeen DEF Acknowledges
  <2> QED BY <1>2, <2>1, SeenAcknowledged, ViewParts DEF Seen!Acknowledge
<1>5. CASE Refuses
  <2>1. HostView' = View("rest", authority, document, None, None)
    BY <1>5, HostViewIs, ViewResting DEF Refuses, Resting
  <2> QED BY <1>2, <2>1, SeenSteps, ViewParts DEF Seen!Refuse
<1> QED BY <1>4, <1>5

LEMMA CommandSeen ==
  ASSUME Inductive, Inductive', Commanded, UNCHANGED <<authority, document>>
  PROVE  Seen!Command \/ HostView' = HostView
<1>1. ASSUME phase \in Resting \cup {"AwaitingPatchApproval"}
      PROVE  HostView = View("rest", authority, document, None, None)
  <2>1. stage = None /\ commit = None
    BY <1>1, AtRest DEF Inductive, PhasePayload
  <2> QED BY <1>1, <2>1, HostViewIs, ViewResting
<1>2. CASE /\ phase \in Resting \cup {"AwaitingPatchApproval"}
           /\ \E reason \in {"user_ddl_mutation", "user_approved_patch"} :
                Proposes(reason, ProposeUserMutation(authority))
  <2>1. PICK reason \in {"user_ddl_mutation", "user_approved_patch"} :
          Proposes(reason, ProposeUserMutation(authority))
    BY <1>2
  <2>2. ReasonOf(reason) = "user"
    BY DEF ReasonOf, DescriptionReasons
  <2>3. HostView' \in Seen!ProposedByUser(HostView)
    <3>1. HostView = View("rest", authority, document, None, None)
      BY <1>1, <1>2
    <3>2. /\ HostView' = View("committing", authority, document,
                              [document |-> commit'.document, reason |-> ReasonOf(reason),
                               next |-> ProposeUserMutation(authority)], None)
          /\ commit'.document \in Ddl /\ ProposeUserMutation(authority) # NoProposal
      BY <2>1, ViewProposed
    <3> QED BY <2>2, <3>1, <3>2, ProposedByUserSeen
  <2> QED BY <1>1, <1>2, <2>3, ViewParts DEF Seen!Command, Seen!Edited
<1>3. CASE /\ phase \in Resting /\ ProposeStage1Result(authority) # NoProposal
           /\ \E r \in DescriptionRuns :
                Asks(Stages \ {"ChooseColors", "CompleteVisibleDdlHoles"}, r, basis)
  <2>1. PICK r \in DescriptionRuns :
          Asks(Stages \ {"ChooseColors", "CompleteVisibleDdlHoles"}, r, basis)
    BY <1>3
  <2>2. ~run.image /\ ~run.move /\ run \in RunTypes
    BY <1>3, AtRest DEF ImageRun, ProposeStage1Result, Inductive, TypeOK
  <2>3. ~r.image /\ ~r.move
    BY <2>2, DescriptionRunsType
  <2>4. HostView' = View("asking", authority, document, None, "description")
    BY <2>1, <2>3, HostViewIs, ViewAsking DEF Asks, SourceOf
  <2>5. HostView = View("rest", authority, document, None, None)
    BY <1>1, <1>3
  <2>6. HostView' \in {Seen!Asked(HostView, d) : d \in {"description"}}
    BY <2>4, <2>5, SeenSteps
  <2> QED BY <1>3, <2>5, <2>6, SeenAuthority, ViewParts DEF Seen!Command, Seen!Generated
<1>4. CASE phase \in Resting /\ document # None /\ Completes /\ commit' = None
  <2>1. HostView = View("rest", authority, document, None, None)
    BY <1>1, <1>4
  <2>2. HostView' \in {View("completing", authority, document, None, None),
                       View("rest", authority, document, None, None)}
    BY <1>4, CompletesSeen
  <2>3. HostView' \in Seen!HolesCompleted(HostView)
    BY <1>4, <2>1, <2>2, SeenSteps, ViewParts DEF Seen!HolesCompleted
  <2> QED BY <2>3 DEF Seen!Command
<1>5. CASE /\ phase \in Resting \cup {"AwaitingPatchApproval"} /\ stage' = None
           /\ phase' \in {"NeedsUserEdit", "Completed"} /\ commit' = None
  BY <1>1, <1>5, HostViewIs, ViewResting DEF Resting
<1>6. CASE /\ phase \notin {"AuthoringStarted", "Cancelled"} /\ phase' = "Cancelled"
           /\ stage' = None /\ commit' = None
  <2>1. \E p, q, s : /\ p \notin {"unstarted", "cancelled"}
                     /\ HostView = View(p, authority, document, q, s)
    BY <1>6, HostViewIs DEF ViewOf
  <2>2. PICK p, q, s : /\ p \notin {"unstarted", "cancelled"}
                       /\ HostView = View(p, authority, document, q, s)
    BY <2>1
  <2>3. HostView' = View("cancelled", authority, document, None, None)
    BY <1>6, HostViewIs, ViewOthers
  <2>4. HostView' \in Seen!Cancelled(HostView)
    BY <2>2, <2>3, SeenSteps
  <2> QED BY <2>4 DEF Seen!Command
<1> QED BY <1>2, <1>3, <1>4, <1>5, <1>6 DEF Commanded

\* The machine takes no step its host does not expect: MachineSteps, over which the
\* server host is modelled and which its saved snapshots implement, is an abstraction
\* of the machine.
THEOREM ImplementsWhatIsSeen == Spec => ImplementsHostView
<1>1. Init => Seen!Init
  <2> SUFFICES ASSUME Init PROVE Seen!Init
    OBVIOUS
  <2>1. /\ HostView = View("unstarted", authority, None, None, None)
        /\ authority \in {NewDescription, NewDirectDdl}
    BY HostViewIs, ViewOthers DEF Init
  <2> QED BY <2>1, SeenAuthority DEF Seen!Init, Seen!Unstarted, View
<1>2. Inductive /\ Inductive' /\ [Next]_vars => [Seen!Next]_HostView
  <2>1. ASSUME Inductive, Inductive', Next
        PROVE  Seen!Next \/ HostView' = HostView
    <3>1. CASE /\ Outcome /\ phase \in {"AwaitingLlm", "AwaitingImageReviewDrawing"}
               /\ UNCHANGED <<authority, document, committed>>
      BY <2>1, <3>1, OutcomeSeen DEF Seen!Next
    <3>2. CASE /\ StartsDescription \/ StartsOther
               /\ UNCHANGED <<authority, document, committed>>
      BY <2>1, <3>2, StartSeen DEF Seen!Next
    <3>3. CASE Commanded /\ UNCHANGED <<authority, document, committed>>
      BY <2>1, <3>3, CommandSeen DEF Seen!Next
    <3>4. CASE Acknowledges \/ Refuses
      BY <2>1, <3>4, CommitResultSeen DEF Seen!Next
    <3> QED BY <2>1, <3>1, <3>2, <3>3, <3>4, StepComesOut
  <2>2. ASSUME UNCHANGED vars
        PROVE  HostView' = HostView
    BY <2>2, HostViewIs DEF vars, saved, progress
  <2> QED BY <2>1, <2>2
<1> QED BY <1>1, <1>2, InductiveInvariant, PTL DEF Spec, ImplementsHostView, Seen!Spec
=============================================================================
