--------------------------- MODULE PipelineStages ---------------------------
(***************************************************************************)
(* The route from a description through the stages of the machine: sketch, *)
(* Stage 1, composition reading, laws and colors, and the run of the laws  *)
(* from a saved work.  A document settled by Stage 1 is handed from tail   *)
(* to tail; each tail either asks the next stage, keeping the document it  *)
(* will fall back to, or commits.                                          *)
(***************************************************************************)
EXTENDS PipelineState

\* A run from a saved work commits as a DDL edit, under its own reason.
RunReason   == IF run.move THEN "saved_laws" ELSE "stage1_generated"
RunProposal == IF run.move THEN ProposeUserMutation(authority)
               ELSE ProposeStage1Result(authority)

\* Commit a settled document; a laws basis made in this run now names it.
CommitStage1(d, b) ==
  /\ basis' = IF b = Open THEN d ELSE b
  /\ CommitDocument(d, RunReason, RunProposal, FALSE)
  /\ UNCHANGED run

\* Ask a stage that keeps nothing of its own.
Begin(r, st) == run' = r /\ BeginLlm(st) /\ UNCHANGED <<kept, basis>>

Stage1(r) ==
  /\ ProposeStage1Result(authority) # NoProposal
  /\ Begin(r, IF r.sketch = "pending" THEN "GenerateSketch"
              ELSE "GenerateNormalizedDdl")

FinishSketch(state) == Stage1([run EXCEPT !.sketch = state])

\* Mutant of AfterLaws: the basis is filled before the colors are chosen.
AfterLawsNamedEarly(k, d, b) ==
  \/ /\ config.colors /\ d \in Drawable
     /\ kept' = [k EXCEPT !.colors = d] /\ basis' = IF b = Open THEN d ELSE b
     /\ BeginLlm("ChooseColors") /\ UNCHANGED run
  \/ CommitStage1(d, b)

\* The colors, when the run has them and their request can be built.
AfterLaws(k, d, b) ==
  \/ /\ config.colors /\ d \in Drawable
     /\ kept' = [k EXCEPT !.colors = d] /\ basis' = b
     /\ BeginLlm("ChooseColors") /\ UNCHANGED run
  \/ CommitStage1(d, b)

\* A laws run that cannot go on stops; it never commits its base.
FailLawsMove ==
  /\ Settle("Failed")
  /\ kept' = [kept EXCEPT !.laws = None] /\ basis' = None
  /\ UNCHANGED <<delivery, run>>

\* The laws, when the document has a Score they can read.  (A run from a saved
\* work, which asks for them at its start, stops instead: StartSavedLaws.)
AskLaws(k, d) ==
  \/ /\ d \in Drawable
     /\ kept' = [k EXCEPT !.laws = d]
     /\ BeginLlm("ChooseLaws") /\ UNCHANGED <<run, basis>>
  \/ AfterLaws(k, d, basis)

\* Place the plan's layers: a canonical document, or the candidate as it is.
ComposeAndCommit(k, d) ==
  \/ \E composed \in Canonical :
       IF config.laws THEN AskLaws(k, composed) ELSE AfterLaws(k, composed, basis)
  \/ CommitStage1(d, basis)

\* Mutant of SettleStage1: the kept plan outlives its candidate.
SettleStage1KeepingPlan(d, plan) ==
  LET k == [kept EXCEPT !.stage1 = None]
  IN  IF config.composition = "none" \/ ~plan THEN CommitStage1(d, basis)
      ELSE \/ /\ config.composition = "read"
              /\ kept' = [k EXCEPT !.composition = d]
              /\ BeginLlm("ReadComposition") /\ UNCHANGED <<run, basis>>
           \/ ComposeAndCommit(k, d)

SettleStage1(d, plan) ==
  LET k == [kept EXCEPT !.stage1 = None, !.plan = FALSE]
  IN  IF config.composition = "none" \/ ~plan THEN CommitStage1(d, basis)
      ELSE \/ /\ config.composition = "read"
              /\ kept' = [k EXCEPT !.composition = d]
              /\ BeginLlm("ReadComposition") /\ UNCHANGED <<run, basis>>
           \/ ComposeAndCommit(k, d)

\* Mutant of CommitStage1Fallback: the second chance fails the run.
CommitStage1FallbackFails ==
  Settle("Failed") /\ UNCHANGED <<delivery, kept, run, basis>>

CommitStage1Fallback == SettleStage1(kept.stage1, kept.plan)

\* Mutant of LawsFallback: a run from a saved work falls back like any other.
LawsFallbackOfAnyRun ==
  AfterLaws([kept EXCEPT !.laws = None], kept.laws, basis)

LawsFallback ==
  IF run.move THEN FailLawsMove
  ELSE AfterLaws([kept EXCEPT !.laws = None], kept.laws, basis)

\* A spent budget is never the end of a run that has something to draw.
StagesExhausted ==
  \/ stage = "GenerateSketch" /\ FinishSketch("fallback")
  \/ /\ stage = "GenerateNormalizedDdl"
     /\ Settle("Failed") /\ UNCHANGED <<delivery, kept, run, basis>>
  \/ /\ stage = "ReadComposition"
     /\ ComposeAndCommit([kept EXCEPT !.composition = None], kept.composition)
  \/ stage = "ChooseLaws" /\ LawsFallback

-----------------------------------------------------------------------------
\* The answers of these stages.

SketchAnswered ==
  /\ stage = "GenerateSketch"
  /\ FinishSketch("answered")

\* A canonical candidate is given back once for its ground-coloured layers,
\* and kept meanwhile.
CanonicalAnswered(spent) ==
  /\ stage = "GenerateNormalizedDdl"
  /\ \E d \in Canonical, plan \in BOOLEAN :
       \/ /\ kept.stage1 = None /\ AskAgain(spent)
          /\ kept' = [kept EXCEPT !.stage1 = d, !.plan = plan]
       \/ SettleStage1(d, plan)

\* A candidate that is not canonical is corrected within the budget; a spent
\* budget adopts its residual when that can be delivered.
NonCanonicalAnswered(spent) ==
  /\ stage = "GenerateNormalizedDdl"
  /\ \E d \in Ddl \ Canonical :
       \/ kept.stage1 # None /\ CommitStage1Fallback
       \/ kept.stage1 = None /\ AskAgain(spent) /\ UNCHANGED kept
       \/ /\ kept.stage1 = None /\ BudgetSpent(spent) /\ d \in Residual
          /\ CommitDocument(d, "stage1_residual_execution",
                            ProposeStage1Result(authority), FALSE)
          /\ UNCHANGED <<run, basis>>

\* ... and otherwise the candidate is a permanent failure of the stage.
NonCanonicalRefused(spent) ==
  /\ stage = "GenerateNormalizedDdl" /\ kept.stage1 = None
  /\ \E d \in Ddl \ Canonical : ~(BudgetSpent(spent) /\ d \in Residual)

CompositionAnswered ==
  /\ stage = "ReadComposition"
  /\ ComposeAndCommit([kept EXCEPT !.composition = None], kept.composition)

\* Laws that can be laid print a document of their own; a refused answer is
\* asked for again until the budget is spent.
LawsAnswered(spent) ==
  /\ stage = "ChooseLaws"
  /\ \/ \E printed \in Canonical \cap Drawable :
          AfterLaws([kept EXCEPT !.laws = None], printed, Open)
     \/ AskAgain(spent) /\ UNCHANGED kept
     \/ LawsFallback
=============================================================================
