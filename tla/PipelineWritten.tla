-------------------------- MODULE PipelineWritten --------------------------
(***************************************************************************)
(* The routes whose model writes DDL as text: a work from an image         *)
(* (machine/image.rs) and read-and-draw (machine/description.rs), which    *)
(* share the writing, the drawing of what was written and its review       *)
(* (machine/written.rs), and the color stage both description routes end   *)
(* with.  A document that draws is kept while a later request is out.      *)
(***************************************************************************)
EXTENDS PipelineStages

OfDescription == run.reading # "none"
Composed      == OfDescription /\ run.composition = "used"

WrittenReason   == IF OfDescription THEN "description_ddl" ELSE "image_ddl"
WrittenProposal == IF OfDescription THEN ProposeStage1Result(authority)
                   ELSE ProposeUserMutation(authority)

\* Fitting and carding a composed work may print any drawing document.
Fitted(d) == IF Composed THEN Drawable \cup {d} ELSE {d}

WriteDescriptionDdl(r) ==
  Begin(r, IF r.composition = "pending" THEN "ComposeDescription"
           ELSE "WriteDescriptionDdl")

ReadOrWriteDescription(r) ==
  IF r.reading = "pending" THEN Begin(r, "ReadDescription")
  ELSE WriteDescriptionDdl(r)

AfterDescriptionCatalog(r) ==
  IF r.reading # "none" THEN ReadOrWriteDescription(r) ELSE Stage1(r)

ColorsBeforeCommit == Composed /\ config.description_colors /\ config.colors

CommitWrittenDocument(d) ==
  /\ CommitDocument(d, WrittenReason, WrittenProposal, FALSE)
  /\ UNCHANGED <<run, basis>>

CommitWritten(d) ==
  \/ /\ ColorsBeforeCommit
     /\ kept' = [kept EXCEPT !.image = None, !.colors = d]
     /\ BeginLlm("ChooseColors") /\ UNCHANGED <<run, basis>>
  \/ CommitWrittenDocument(d)

\* Have the host draw what was written, for the review.
DrawReview(d) ==
  /\ phase' = "AwaitingImageReviewDrawing" /\ stage' = None /\ elapsed' = 0
  /\ commit' = None /\ patch' = None /\ delivery' = None
  /\ Issue("draw_image_review", 1, "first")
  /\ kept' = [kept EXCEPT !.image = d]
  /\ UNCHANGED <<run, basis>>

AfterWritten(d) ==
  \E fitted \in Fitted(d) :
    IF config.review THEN DrawReview(fitted) ELSE CommitWritten(fitted)

\* Nothing that draws was written: the run stops.
NothingWritten == Settle("Failed") /\ UNCHANGED <<delivery, kept, run, basis>>

\* A writing or review stage goes on with the document kept before it.
KeptWritten ==
  IF stage \in ReviewStages THEN CommitWritten(kept.image)
  ELSE IF kept.image # None THEN AfterWritten(kept.image)
  ELSE NothingWritten

ColorsFallback ==
  IF OfDescription THEN CommitWrittenDocument(kept.colors)
  ELSE CommitStage1(kept.colors, basis)

WrittenExhausted ==
  \/ /\ stage = "SelectDescriptionCatalog" /\ AfterDescriptionCatalog(run)
  \/ /\ stage = "SelectImageCatalog" /\ Begin(run, "WriteImageDdl")
  \/ /\ stage = "ReadDescription"
     /\ WriteDescriptionDdl([run EXCEPT !.reading = "fallback"])
  \/ /\ stage = "ComposeDescription"
     /\ WriteDescriptionDdl([run EXCEPT !.composition = "fallback"])
  \/ /\ stage \in WriteStages \cup ReviewStages /\ KeptWritten
  \/ /\ stage = "ChooseColors" /\ ColorsFallback
-----------------------------------------------------------------------------
\* The answers of these stages.

\* The reading of the description comes first; then the choice, a request
\* with a budget of its own.  An empty reading lets the seed choose, and a
\* choice that cannot be asked takes the default catalog.
CatalogAnswered ==
  /\ stage = "SelectDescriptionCatalog"
  /\ \/ /\ action.request = "first"
        /\ Ask("SelectDescriptionCatalog", "choice") /\ delivery' = None
        /\ UNCHANGED <<kept, run, basis>>
     \/ AfterDescriptionCatalog(run)

ImageCatalogAnswered ==
  /\ stage = "SelectImageCatalog"
  /\ Begin(run, "WriteImageDdl")

DescriptionRead ==
  /\ stage = "ReadDescription"
  /\ WriteDescriptionDdl([run EXCEPT !.reading = "read"])

\* Mutant of DescriptionComposed: asked_again is not looked at.
DescriptionComposedAgain(spent) ==
  /\ stage = "ComposeDescription"
  /\ \/ WriteDescriptionDdl([run EXCEPT !.composition = "used"])
     \/ AskAgain(spent) /\ UNCHANGED kept
     \/ WriteDescriptionDdl([run EXCEPT !.composition = "fallback"])

\* A refused composition is asked for once more, then written without.
DescriptionComposed(spent) ==
  /\ stage = "ComposeDescription"
  /\ \/ WriteDescriptionDdl([run EXCEPT !.composition = "used"])
     \/ action.request # "feedback" /\ AskAgain(spent) /\ UNCHANGED kept
     \/ WriteDescriptionDdl([run EXCEPT !.composition = "fallback"])

\* Lines the compiler did not draw are given back once; a candidate that
\* draws is kept meanwhile.
WrittenGivenBack(spent) ==
  /\ stage \in WriteStages \cup ReviewStages
  /\ action.request # "feedback" /\ AskAgain(spent)
  /\ \E d \in Ddl :
       kept' = IF d \in Drawable THEN [kept EXCEPT !.image = d] ELSE kept

\* The written document, or what is left of it when lines are dropped, draws.
WrittenUsable ==
  /\ stage \in WriteStages \cup ReviewStages
  /\ \E d \in Drawable :
       IF stage \in WriteStages THEN AfterWritten(d)
       ELSE \E fitted \in Fitted(d) : CommitWritten(fitted)

WrittenUndrawable ==
  /\ stage \in WriteStages \cup ReviewStages /\ KeptWritten

ColorsAnswered(spent) ==
  /\ stage = "ChooseColors"
  /\ \/ \E d \in Canonical \cap Drawable :
          IF OfDescription THEN CommitWrittenDocument(d) ELSE CommitStage1(d, basis)
     \/ AskAgain(spent) /\ UNCHANGED kept
     \/ ColorsFallback

\* The host drew the document (the review is asked, or skipped when its
\* request cannot be built), or could not draw it.
ReviewDrawn ==
  /\ phase = "AwaitingImageReviewDrawing"
  /\ UNCHANGED <<config, saved, ranges, commands>>
  /\ \/ Begin(run, IF OfDescription THEN "ReviewDescriptionDdl" ELSE "ReviewImageDdl")
     \/ CommitWritten(kept.image)

ReviewUndrawn ==
  /\ phase = "AwaitingImageReviewDrawing"
  /\ UNCHANGED <<config, saved, ranges, commands>>
  /\ CommitWritten(kept.image)
=============================================================================
