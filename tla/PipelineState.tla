--------------------------- MODULE PipelineState ---------------------------
(***************************************************************************)
(* The snapshot of one authoring execution and the steps every route of    *)
(* the machine is built from (inku-pipeline/src/machine.rs).               *)
(*                                                                         *)
(* advance(snapshot, input) is a pure function: one input gives one new    *)
(* snapshot or an error that leaves the snapshot as it was.  An error is   *)
(* therefore no step here.  A document is a member of Ddl; what the        *)
(* compiler finds in it is given by the sets Canonical, Holed, Drawable,   *)
(* Residual and Refused.  Where the code has a fallback for a request it   *)
(* cannot build, both outcomes are steps; a request without a fallback is  *)
(* taken to be buildable.                                                  *)
(***************************************************************************)
EXTENDS AuthorityState, RetryBudget

CONSTANTS
  Ddl,          \* visible documents
  Canonical,    \* read whole: the compiler lock is canonical_ready
  Holed,        \* with known holes
  Drawable,     \* compiled to a Score
  Residual,     \* not canonical, with a deliverable residual
  Refused,      \* refused at the compiler boundary after their commit
  Open,         \* a laws basis whose committed digest is still empty
  Configs,      \* the run configurations a host may authorize
  RetryPolicies,\* the retry policy of each kind of stage, None when absent
  Spent,        \* how long a provider may take to answer
  MaxOrdinal    \* the largest action ordinal (u64::MAX)

DescriptionStages == {"ReadDescription", "ComposeDescription",
                      "WriteDescriptionDdl", "ReviewDescriptionDdl"}
ImageStages  == {"SelectImageCatalog", "WriteImageDdl", "ReviewImageDdl"}
WriteStages  == {"WriteImageDdl", "WriteDescriptionDdl"}
ReviewStages == {"ReviewImageDdl", "ReviewDescriptionDdl"}
Stages == DescriptionStages \cup ImageStages \cup
  {"SelectDescriptionCatalog", "GenerateSketch", "GenerateNormalizedDdl",
   "ReadComposition", "ChooseLaws", "ChooseColors", "CompleteVisibleDdlHoles"}

Resting == {"ScoreReady", "Completed", "NeedsUserEdit", "Failed"}
Phases  == Resting \cup
  {"AuthoringStarted", "AwaitingLlm", "AwaitingVisibleDdlCommit",
   "AwaitingPatchApproval", "AwaitingImageReviewDrawing", "Cancelled"}

PolicyKinds == {"catalog", "stage1", "hole", "sketch", "composition", "laws",
                "colors", "image"}

Requests == {"first", "choice", "feedback"}   \* which prompt of the stage is out

Reasons == {"direct_ddl", "user_ddl_mutation", "user_approved_patch",
            "saved_laws", "image_ddl", "stage1_generated",
            "stage1_residual_execution", "description_ddl"}

Tags == Stages \cup {"commit_visible_normalized_ddl", "draw_image_review"}

\* EffectAction, and the payloads of AwaitingVisibleDdlCommit and
\* AwaitingPatchApproval.
Actions == [tag: Tags, ordinal: Nat, attempt: Nat \ {0}, request: Requests]
Commits == [document: Ddl, reason: Reasons, ranges: BOOLEAN,
            expected: 0..MaxRevision, next: VariationAuthority]
Patches == [candidate: Ddl, base: 0..MaxRevision]

ASSUME DocumentsAssumption ==
  /\ Canonical \subseteq Ddl /\ Holed \subseteq Ddl /\ Drawable \subseteq Ddl
  /\ Residual \subseteq Drawable \ Canonical /\ Refused \subseteq Ddl
  /\ Canonical \cap Holed = {}
  /\ Open \notin Ddl

\* None is no value of any optional part of a snapshot.
ASSUME NoneAssumption ==
  /\ None \notin Ddl /\ None \notin Stages /\ None \notin Policies
  /\ None \notin Nat /\ None \notin Actions /\ None \notin Commits
  /\ None \notin Patches /\ None \notin Reasons /\ None # Open

ASSUME ConfigAssumption ==
  /\ Configs \subseteq [composition: {"none", "default", "read"}, laws: BOOLEAN,
                        colors: BOOLEAN, review: BOOLEAN,
                        description_colors: BOOLEAN]
  /\ DOMAIN RetryPolicies = PolicyKinds
  /\ \A kind \in PolicyKinds : \/ RetryPolicies[kind] \in Policies
                               \/ /\ kind \notin {"catalog", "stage1", "hole"}
                                  /\ RetryPolicies[kind] = None
  /\ Spent \subseteq Nat
  /\ MaxOrdinal \in Nat

VARIABLES
  config,     \* the run's configuration, fixed when it starts
  authority,  \* the acknowledged authority record
  document,   \* the acknowledged document, or None
  phase,      \* PipelinePhase, without its payload
  stage,      \* AwaitingLlm.stage, else None
  elapsed,    \* AwaitingLlm.elapsed_ms, else 0
  action,     \* the outstanding effect, or None
  ordinal,    \* how many effects were issued
  commit,     \* payload of AwaitingVisibleDdlCommit, else None
  patch,      \* candidate of AwaitingPatchApproval with its base, else None
  delivery,   \* the document the kept delivery was compiled from, or None
  kept,       \* documents kept while a later request is out
  run,        \* what the run in progress was asked to do
  basis,      \* the document the laws basis names, Open, or None
  ranges,     \* whether the work has a completion record
  committed,  \* history: the reason of the last acknowledged commit
  commands    \* bound: author commands taken so far

progress == <<phase, stage, elapsed, action, ordinal, commit, patch>>
saved    == <<authority, document, committed>>
vars == <<config, saved, progress, delivery, kept, run, basis, ranges, commands>>

Nothing == [stage1 |-> None, plan |-> FALSE, composition |-> None,
            laws |-> None, colors |-> None, image |-> None]

RetryPolicy(st) ==
  LET Or(kind, other) == IF RetryPolicies[kind] = None THEN RetryPolicies[other]
                         ELSE RetryPolicies[kind]
  IN CASE st \in {"GenerateSketch", "ReadDescription"} -> Or("sketch", "catalog")
       [] st \in {"SelectDescriptionCatalog", "SelectImageCatalog"} ->
            RetryPolicies["catalog"]
       [] st = "GenerateNormalizedDdl" -> RetryPolicies["stage1"]
       [] st = "CompleteVisibleDdlHoles" -> RetryPolicies["hole"]
       [] st = "ReadComposition" -> Or("composition", "catalog")
       [] st \in {"ChooseLaws", "ComposeDescription"} -> Or("laws", "catalog")
       [] st = "ChooseColors" -> Or("colors", "catalog")
       [] OTHER -> Or("image", "stage1")

Editable == phase \in Resting

\* Mutant of Issue: the ordinal is not advanced.
IssueAgain(tag, attempt, request) ==
  /\ ordinal < MaxOrdinal /\ UNCHANGED ordinal
  /\ action' = [tag |-> tag, ordinal |-> ordinal, attempt |-> attempt,
                request |-> request]

\* Every request gets the next ordinal; its identity is <<ordinal, attempt>>.
Issue(tag, attempt, request) ==
  /\ ordinal < MaxOrdinal
  /\ ordinal' = ordinal + 1
  /\ action' = [tag |-> tag, ordinal |-> ordinal + 1, attempt |-> attempt,
                request |-> request]

\* Enter AwaitingLlm with a fresh budget.
Ask(st, request) ==
  /\ phase' = "AwaitingLlm" /\ stage' = st /\ elapsed' = 0
  /\ commit' = None /\ patch' = None
  /\ Issue(st, 1, request)

\* Every request but the completion's drops the delivery of the run before.
BeginLlm(st) == Ask(st, "first") /\ delivery' = None

\* Mutant of Settle: the effect stays outstanding.
SettleKeepingAction(to) ==
  /\ phase' = to /\ stage' = None /\ elapsed' = 0
  /\ commit' = None /\ patch' = None
  /\ UNCHANGED <<action, ordinal>>

\* Leave the awaiting phases with no effect outstanding.
Settle(to) ==
  /\ phase' = to /\ stage' = None /\ elapsed' = 0
  /\ action' = None /\ commit' = None /\ patch' = None
  /\ UNCHANGED ordinal

\* Propose a document to the host.  What was kept for a later request ends;
\* the delivery of the acknowledged document stays until the host answers.
CommitDocument(d, reason, next, rng) ==
  /\ next # NoProposal
  /\ phase' = "AwaitingVisibleDdlCommit" /\ stage' = None /\ elapsed' = 0
  /\ commit' = [document |-> d, reason |-> reason, ranges |-> rng,
                expected |-> authority.revision, next |-> next]
  /\ patch' = None
  /\ Issue("commit_visible_normalized_ddl", 1, "first")
  /\ kept' = Nothing
  /\ UNCHANGED delivery

\* The same request again: its identity keeps the ordinal.
Retry(next, total) ==
  /\ action' = [action EXCEPT !.attempt = next]
  /\ elapsed' = total + RetryPolicy(stage).retry_delay
  /\ UNCHANGED <<phase, stage, ordinal, commit, patch, delivery, kept, run, basis>>

\* Mutant of Reissue: the changed request starts the budget over.
ReissueFromStart(next, total) ==
  /\ elapsed' = 0
  /\ Issue(stage, 1, "feedback")
  /\ UNCHANGED <<phase, stage, commit, patch, delivery, run, basis>>

\* A changed request: a new identity on the budget of the stage.
Reissue(next, total) ==
  /\ elapsed' = total + RetryPolicy(stage).retry_delay
  /\ Issue(stage, next, "feedback")
  /\ UNCHANGED <<phase, stage, commit, patch, delivery, run, basis>>

\* Give an answer back with what was wrong with it, while the budget lasts.
AskAgain(spent) ==
  LET next == NextBudgetedAttempt(RetryPolicy(stage), action.attempt, elapsed + spent)
  IN  next # None /\ Reissue(next, elapsed + spent)

BudgetSpent(spent) ==
  NextBudgetedAttempt(RetryPolicy(stage), action.attempt, elapsed + spent) = None

\* An answer counts only within its attempt's and its stage's time.
InTime(spent) ==
  /\ spent <= RemainingAttemptTimeout(RetryPolicy(stage), elapsed)
  /\ elapsed + spent <= RetryPolicy(stage).total_timeout
=============================================================================
