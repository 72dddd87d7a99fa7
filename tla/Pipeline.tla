------------------------------ MODULE Pipeline ------------------------------
(***************************************************************************)
(* The authoring state machine of inku-pipeline (machine.rs): one          *)
(* execution from its start, through the provider's answers, the host's    *)
(* commit acknowledgements and the author's commands.  Each action is one  *)
(* call of advance.  A result carries the identity of the effect it        *)
(* answers and is refused unless that effect is outstanding, so an answer  *)
(* is a step only in the phase that waits for it.                          *)
(*                                                                         *)
(* Bounds: MaxCommands author commands that start work again, MaxOrdinal   *)
(* effects and MaxRevision revisions (both u64::MAX in the code).          *)
(***************************************************************************)
EXTENDS PipelineWritten

CONSTANTS
  Routes,       \* the ways of authoring the host offers
  Commands,     \* the author commands the host sends
  MaxCommands

DescriptionRoutes == {"stages", "read_and_draw"}
ASSUME BoundsAssumption ==
  /\ Routes \subseteq DescriptionRoutes \cup {"direct_ddl", "saved_laws", "image"}
  /\ Commands \subseteq {"commit_user_ddl", "generate_from_description",
                         "complete_holes"}
  /\ MaxCommands \in Nat

NoRun == [sketch |-> "none", reading |-> "none", composition |-> "none",
          image |-> FALSE, move |-> FALSE]

Init ==
  /\ config \in Configs
  /\ authority \in {NewDescription, NewDirectDdl}
  /\ document = None /\ committed = None
  /\ phase = "AuthoringStarted" /\ stage = None /\ elapsed = 0
  /\ action = None /\ ordinal = 0 /\ commit = None /\ patch = None
  /\ delivery = None /\ kept = Nothing /\ run = NoRun
  /\ basis = None /\ ranges = FALSE /\ commands = 0

\* What a description run is asked to do; its records replace those of the
\* run before.
DescriptionRuns ==
  (IF "stages" \notin Routes THEN {} ELSE
     {[run EXCEPT !.sketch = s, !.reading = "none", !.composition = "none"] :
        s \in {"none", "pending", "supplied"}})
  \cup
  (IF "read_and_draw" \notin Routes THEN {} ELSE
     {[run EXCEPT !.sketch = "none", !.reading = r, !.composition = c] :
        r \in {"off", "pending", "supplied"}, c \in {"none", "pending"}})

\* Mutant of Description: a reading is asked for without looking at the authority.
DescriptionOfAny(r, auto_catalog) ==
  IF auto_catalog THEN Begin(r, "SelectDescriptionCatalog")
  ELSE AfterDescriptionCatalog(r)

Description(r, auto_catalog) ==
  /\ ProposeStage1Result(authority) # NoProposal
  /\ IF auto_catalog THEN Begin(r, "SelectDescriptionCatalog")
     ELSE AfterDescriptionCatalog(r)

(***************************************************************************)
(* Start.  A host gives the record of a description to a description run   *)
(* and the record of a DDL to every other run.                             *)
(***************************************************************************)
StartDescription ==
  /\ phase = "AuthoringStarted" /\ authority = NewDescription
  /\ \E r \in DescriptionRuns, auto_catalog \in BOOLEAN : Description(r, auto_catalog)
  /\ UNCHANGED <<config, saved, ranges, commands>>

StartDirectDdl ==
  /\ phase = "AuthoringStarted" /\ authority = NewDirectDdl
  /\ "direct_ddl" \in Routes
  /\ \E d \in Ddl :
       CommitDocument(d, "direct_ddl", ProposeUserMutation(authority), FALSE)
  /\ basis' \in Ddl \cup {None}      \* the work's records come back with its DDL
  /\ ranges' \in BOOLEAN
  /\ UNCHANGED <<config, saved, run, commands>>

\* The laws again for a saved work, from the base the work keeps; a work
\* without a description, with a stale basis, or that cannot be read back as
\* it was printed stops at once.
StartSavedLaws ==
  /\ phase = "AuthoringStarted" /\ authority = NewDirectDdl
  /\ "saved_laws" \in Routes
  /\ ranges' \in BOOLEAN
  /\ run' = [run EXCEPT !.move = TRUE]
  /\ \/ \E base \in Drawable :
          /\ kept' = [kept EXCEPT !.laws = base]
          /\ BeginLlm("ChooseLaws") /\ UNCHANGED basis
     \/ Settle("Failed") /\ UNCHANGED <<delivery, kept, basis>>
  /\ UNCHANGED <<config, saved, commands>>

StartImage ==
  /\ phase = "AuthoringStarted" /\ authority = NewDirectDdl
  /\ "image" \in Routes
  /\ \E st \in {"SelectImageCatalog", "WriteImageDdl"} :
       Begin([run EXCEPT !.image = TRUE], st)
  /\ UNCHANGED <<config, saved, ranges, commands>>

(***************************************************************************)
(* Provider results.                                                       *)
(***************************************************************************)
\* failure_with_detail: a returned Stage 1 request is a second chance and
\* settles at once; any other stage tries again while its policy allows, and
\* then does without.
Fail(failure, spent) ==
  LET total == elapsed + spent
      next  == NextAttempt(RetryPolicy(stage), action.attempt, total, failure)
  IN  IF stage = "GenerateNormalizedDdl" /\ kept.stage1 # None
      THEN CommitStage1Fallback
      ELSE IF next # None THEN Retry(next, total)
      ELSE IF stage = "CompleteVisibleDdlHoles"
      THEN Settle("NeedsUserEdit") /\ UNCHANGED <<delivery, kept, run, basis>>
      ELSE StagesExhausted \/ WrittenExhausted

Reply == phase = "AwaitingLlm" /\ UNCHANGED <<config, saved, ranges, commands>>

ProviderFailed(spent) ==
  Reply /\ \E failure \in {"transport_timeout", "provider_rejected"} : Fail(failure, spent)

LateAnswer(spent) ==
  Reply /\ ~InTime(spent) /\ Fail("transport_timeout", spent)

\* These stages answer a reply they cannot read on their own budget.
UnreadableAnswer(spent) ==
  /\ Reply /\ InTime(spent)
  /\ stage \notin {"ComposeDescription", "ChooseLaws", "ChooseColors"}
  /\ Fail("schema_violation", spent)

RefusedAnswer(spent) ==
  /\ Reply /\ InTime(spent)
  /\ \/ NonCanonicalRefused(spent)
     \/ stage \in WriteStages \cup ReviewStages      \* cannot be checked
     \/ stage = "CompleteVisibleDdlHoles"            \* nothing left to propose
  /\ Fail("semantic_violation", spent)

StageAnswered(spent) ==
  /\ Reply /\ InTime(spent)
  /\ \/ SketchAnswered
     \/ CanonicalAnswered(spent) \/ NonCanonicalAnswered(spent)
     \/ CompositionAnswered \/ LawsAnswered(spent) \/ ColorsAnswered(spent)

WrittenAnswered(spent) ==
  /\ Reply /\ InTime(spent)
  /\ \/ CatalogAnswered \/ ImageCatalogAnswered
     \/ DescriptionRead \/ DescriptionComposed(spent)
     \/ WrittenGivenBack(spent) \/ WrittenUsable \/ WrittenUndrawable

\* A completion: asked once more for what the check refused, settled when it
\* only keeps what stands there, or proposed to the author.
HolesAnswered(spent) ==
  /\ Reply /\ InTime(spent)
  /\ stage = "CompleteVisibleDdlHoles"
  /\ \/ action.request # "feedback" /\ AskAgain(spent) /\ UNCHANGED kept
     \/ /\ ranges
        /\ Settle(IF delivery \in Drawable THEN "ScoreReady" ELSE "NeedsUserEdit")
        /\ UNCHANGED <<delivery, kept, run, basis>>
     \/ \E d \in Ddl \ {document} :
          /\ phase' = "AwaitingPatchApproval" /\ stage' = None /\ elapsed' = 0
          /\ patch' = [candidate |-> d, base |-> authority.revision]
          /\ action' = None /\ commit' = None
          /\ UNCHANGED <<ordinal, delivery, kept, run, basis>>

(***************************************************************************)
(* Commit results.                                                         *)
(***************************************************************************)
\* Mutant of Completing: a read-and-draw DDL is completed as well.
CompletingWritten(reason) ==
  reason \notin {"user_approved_patch", "stage1_residual_execution", "image_ddl"}

\* Only these commits are followed by the automatic completion of holes.
Completing(reason) ==
  reason \notin {"user_approved_patch", "stage1_residual_execution",
                 "image_ddl", "description_ddl"}

CompleteHoles(d) ==
  /\ \/ Ask("CompleteVisibleDdlHoles", "first")
     \/ Settle("NeedsUserEdit")            \* the request cannot be built
  /\ delivery' = d

\* The record keeps the ranges the committed document still has; a range whose
\* words alone changed is a hole of it.
Acknowledged ==
  LET d == commit.document
      r == IF commit.reason = "user_approved_patch" THEN commit.ranges ELSE ranges
  IN  /\ authority' = commit.next /\ document' = d /\ committed' = commit.reason
      /\ \/ /\ d \in Refused /\ ranges' = r
            /\ Settle("Failed") /\ delivery' = None
         \/ /\ d \notin Refused /\ ranges' \in {r, FALSE}
            /\ \E words_changed \in {ranges', FALSE} :
                 IF Completing(commit.reason) /\ (d \in Holed \/ words_changed)
                 THEN CompleteHoles(d)
                 ELSE /\ Settle(IF d \in Drawable THEN "ScoreReady" ELSE "NeedsUserEdit")
                      /\ delivery' = d

VisibleDdlCommitted ==
  /\ phase = "AwaitingVisibleDdlCommit"
  /\ authority.revision = commit.expected
  /\ Acknowledged
  /\ UNCHANGED <<config, kept, run, basis, commands>>

\* Mutant of HostCommitFailed: the proposed document is taken as saved.
HostCommitFailedSaved ==
  /\ phase = "AwaitingVisibleDdlCommit"
  /\ Settle("Failed") /\ document' = commit.document
  /\ UNCHANGED <<config, authority, committed, delivery, kept, run, basis, ranges, commands>>

\* The host could not save: what was acknowledged before stands.
HostCommitFailed ==
  /\ phase = "AwaitingVisibleDdlCommit"
  /\ Settle("Failed")
  /\ UNCHANGED <<config, saved, delivery, kept, run, basis, ranges, commands>>

(***************************************************************************)
(* Author commands.                                                        *)
(***************************************************************************)
TakeCommand(name) ==
  /\ name \in Commands /\ Editable
  /\ commands < MaxCommands /\ commands' = commands + 1
  /\ UNCHANGED <<config, saved, ranges>>

CommitUserDdl ==
  /\ TakeCommand("commit_user_ddl")
  /\ \E d \in Ddl \ {document} :
       CommitDocument(d, "user_ddl_mutation", ProposeUserMutation(authority), FALSE)
  /\ UNCHANGED <<run, basis>>

GenerateFromDescription ==
  /\ TakeCommand("generate_from_description")
  /\ \E r \in DescriptionRuns, auto_catalog \in BOOLEAN : Description(r, auto_catalog)

CompleteHolesCommand ==
  /\ TakeCommand("complete_holes")
  /\ document # None /\ (document \in Holed \/ ranges)
  /\ CompleteHoles(delivery)
  /\ UNCHANGED <<kept, run, basis>>

ApprovePatch ==
  /\ phase = "AwaitingPatchApproval" /\ patch.base = authority.revision
  /\ \E rng \in BOOLEAN :
       CommitDocument(patch.candidate, "user_approved_patch",
                      ProposeUserMutation(authority), rng)
  /\ UNCHANGED <<config, saved, run, basis, ranges, commands>>

DeclinePatch ==
  /\ phase = "AwaitingPatchApproval"
  /\ Settle("NeedsUserEdit")
  /\ UNCHANGED <<config, saved, delivery, kept, run, basis, ranges, commands>>

\* The final drawing.  A drawing of the acknowledged document during a
\* completion or after a failure changes nothing.
Render ==
  /\ phase \in {"ScoreReady", "Completed"} /\ delivery # None
  /\ phase' = "Completed"
  /\ UNCHANGED <<config, saved, stage, elapsed, action, ordinal, commit, patch,
                 delivery, kept, run, basis, ranges, commands>>

Cancel ==
  /\ phase \notin {"AuthoringStarted", "Cancelled"}
  /\ Settle("Cancelled")
  /\ delivery' = None
  /\ kept' = [kept EXCEPT !.stage1 = None, !.image = None]
  /\ UNCHANGED <<config, saved, run, basis, ranges, commands>>
-----------------------------------------------------------------------------
ProviderAnswered(spent) ==
  \/ ProviderFailed(spent) \/ LateAnswer(spent)
  \/ UnreadableAnswer(spent) \/ RefusedAnswer(spent)
  \/ StageAnswered(spent) \/ WrittenAnswered(spent) \/ HolesAnswered(spent)

EffectResult ==
  \/ \E spent \in Spent : ProviderAnswered(spent)
  \/ ReviewDrawn \/ ReviewUndrawn
  \/ VisibleDdlCommitted \/ HostCommitFailed

Start == StartDescription \/ StartDirectDdl \/ StartSavedLaws \/ StartImage

AuthorCommand ==
  \/ CommitUserDdl \/ GenerateFromDescription \/ CompleteHolesCommand
  \/ ApprovePatch \/ DeclinePatch \/ Render \/ Cancel

Next == Start \/ EffectResult \/ AuthorCommand

Spec == Init /\ [][Next]_vars

\* A host runs every outstanding effect and returns its result; an author may
\* never send a command.
FairSpec == Spec /\ WF_vars(EffectResult)
=============================================================================
