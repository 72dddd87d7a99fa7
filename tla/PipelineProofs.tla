--------------------------- MODULE PipelineProofs ---------------------------
(***************************************************************************)
(* Inductive is an invariant of the authoring machine, for all documents,  *)
(* configurations, policies and bounds.  The lemmas follow the calls: the  *)
(* steps every route ends with first, then the tails built from them, then *)
(* one step of the machine for each action.                                *)
(***************************************************************************)
EXTENDS PipelineInvariant, AuthorityProofs, TLAPS

\* The parts of TypeOK that are not set by entering a phase.
SavedTypeOK == /\ config \in Configs /\ authority \in VariationAuthority
               /\ document \in Ddl \cup {None} /\ committed \in Reasons \cup {None}
               /\ ranges \in BOOLEAN /\ commands \in Nat
WorkTypeOK  == /\ delivery \in Ddl \cup {None} /\ kept \in KeptTypes
               /\ run \in RunTypes /\ basis \in Ddl \cup {None, Open}

\* A run from an image or from a saved work has no description that may write.
ImageRun == /\ ~(run.image /\ OfDescription)
            /\ run.image \/ run.move => authority.authority # "description_authoritative"

\* What every step but an acknowledgement leaves alone.
Outside == UNCHANGED <<config, saved>> /\ SavedTypeOK'

-----------------------------------------------------------------------------
\* Retry budget.

\* Every stage has a policy, its own or the one it falls back to.
LEMMA RetryPolicyType == \A st \in Stages : RetryPolicy(st) \in Policies
<1> SUFFICES ASSUME NEW st \in Stages PROVE RetryPolicy(st) \in Policies
  OBVIOUS
<1>1. \A kind \in PolicyKinds : RetryPolicies[kind] = None \/ RetryPolicies[kind] \in Policies
  BY ConfigAssumption
<1>2. /\ RetryPolicies["catalog"] \in Policies /\ RetryPolicies["stage1"] \in Policies
      /\ RetryPolicies["hole"] \in Policies
  BY ConfigAssumption DEF PolicyKinds
<1> QED BY <1>1, <1>2 DEF RetryPolicy, PolicyKinds

\* A further attempt is the next one, within the attempts and the time.
LEMMA NextBudgetedAttemptInBudget ==
  ASSUME NEW policy \in Policies, NEW attempt \in Nat \ {0}, NEW total \in Nat,
         NextBudgetedAttempt(policy, attempt, total) # None
  PROVE  /\ NextBudgetedAttempt(policy, attempt, total) = attempt + 1
         /\ attempt + 1 \in 1..policy.max_attempts
         /\ total + policy.retry_delay \in Nat
         /\ total + policy.retry_delay < policy.total_timeout
  BY DEF NextBudgetedAttempt, Policies

\* A failure never gets more than the budget gives.
LEMMA NextAttemptInBudget ==
  ASSUME NEW policy, NEW attempt, NEW total, NEW failure,
         NextAttempt(policy, attempt, total, failure) # None
  PROVE  NextAttempt(policy, attempt, total, failure)
           = NextBudgetedAttempt(policy, attempt, total)
  BY DEF NextAttempt

-----------------------------------------------------------------------------
\* What Inductive says of a phase.

\* A stage is asked under a policy of its own, with its action outstanding.
LEMMA Asking ==
  ASSUME Inductive, stage # None
  PROVE  /\ phase = "AwaitingLlm" /\ stage \in Stages
         /\ RetryPolicy(stage) \in Policies
         /\ action \in Actions /\ action.tag = stage
         /\ action.attempt \in Nat \ {0} /\ elapsed \in Nat
         /\ commit = None /\ patch = None /\ SnapshotValid
<1>1. phase = "AwaitingLlm" /\ stage \in Stages /\ commit = None /\ patch = None
  BY DEF Inductive, TypeOK, PhasePayload
<1>2. SnapshotValid
  BY <1>1 DEF Inductive, LiveSnapshotValid
<1>3. action \in Actions /\ action.tag = stage
  BY <1>1, <1>2 DEF Inductive, TypeOK, SnapshotValid, ActionMatchesPhase
<1>4. action.attempt \in Nat \ {0} /\ elapsed \in Nat
  BY <1>3 DEF Actions, Inductive, TypeOK
<1> QED BY <1>1, <1>2, <1>3, <1>4, RetryPolicyType

LEMMA EmptyKept ==
  ASSUME NEW k \in KeptTypes, k.stage1 = None, k.plan = FALSE, k.composition = None,
         k.laws = None, k.colors = None, k.image = None
  PROVE  k = Nothing
  BY DEF KeptTypes, Nothing

\* Outside the stages and the drawing of a review nothing is kept.
LEMMA NothingKept ==
  ASSUME Inductive, phase # "Cancelled", phase # "AwaitingImageReviewDrawing",
         stage \notin {"GenerateNormalizedDdl", "ReadComposition", "ChooseLaws",
                       "ChooseColors"} \cup WriteStages \cup ReviewStages
  PROVE  kept = Nothing
<1>1. kept \in KeptTypes /\ KeptMatchesPhase
  BY DEF Inductive, TypeOK, LiveSnapshotValid, SnapshotValid
<1>2. /\ kept.stage1 = None /\ kept.composition = None /\ kept.laws = None
      /\ kept.colors = None /\ kept.image = None
  BY <1>1 DEF KeptMatchesPhase
<1>3. kept.plan = FALSE
  BY <1>1, <1>2 DEF KeptMatchesPhase, KeptTypes
<1> QED BY <1>1, <1>2, <1>3 DEF KeptTypes, Nothing

LEMMA ImageRunHolds ==
  ASSUME Inductive, phase # "Cancelled"
  PROVE  ImageRun
  BY DEF Inductive, LiveSnapshotValid, SnapshotValid, StageMatchesRun, RouteOfRun,
     RouteFor, ImageRun

\* Where no stage is asked, the run's authority is all that is left to keep.
LEMMA NoStage ==
  ASSUME stage' = None, ImageRun',
         phase' = "AwaitingImageReviewDrawing" /\ OfDescription' =>
           ProposeStage1Result(authority') # NoProposal
  PROVE  /\ RouteOfRun' /\ StageHasTime'
         /\ stage' \notin ReviewStages /\ stage' \notin ImageStages
         /\ stage' \notin DescriptionStages
<1>1. /\ None \notin ReviewStages /\ None \notin ImageStages
      /\ None \notin DescriptionStages /\ None \notin Stages
      /\ None \notin {"SelectDescriptionCatalog", "GenerateSketch",
                     "GenerateNormalizedDdl", "ReadComposition", "ChooseLaws",
                     "ComposeDescription", "ChooseColors"}
  BY NoneAssumption DEF ReviewStages, Stages, ImageStages, DescriptionStages
<1> QED
  BY <1>1 DEF RouteOfRun, RouteFor, ImageRun, OfDescription, StageHasTime

-----------------------------------------------------------------------------
\* The ways a step leaves the machine: asking a stage, having a review drawn,
\* asking for a commit, coming to rest.

LEMMA AskKeeps ==
  ASSUME Inductive, SavedTypeOK', WorkTypeOK',
         NEW st \in Stages, NEW request \in Requests, Ask(st, request),
         delivery' # None => delivery' = document' /\ st = "CompleteVisibleDdlHoles",
         KeptMatchesPhase', KeptIsThere', RouteOfRun'
  PROVE  Inductive'
<1>1. /\ phase' = "AwaitingLlm" /\ stage' = st /\ elapsed' = 0
      /\ commit' = None /\ patch' = None
      /\ ordinal' = ordinal + 1 /\ ordinal' \in 0..MaxOrdinal
      /\ action' = [tag |-> st, ordinal |-> ordinal + 1, attempt |-> 1, request |-> request]
  BY ConfigAssumption DEF Ask, Issue, Inductive, TypeOK
<1>2. action' \in Actions
  BY <1>1, ConfigAssumption DEF Actions, Tags
<1>3. RetryPolicy(st) \in Policies /\ st # None
  BY RetryPolicyType, NoneAssumption
<1>4. TypeOK'
  BY <1>1, <1>2 DEF TypeOK, SavedTypeOK, WorkTypeOK, Phases
<1>5. ActionMatchesPhase'
  <2>1. action' # None /\ action'.tag = st /\ action'.attempt = 1
    BY <1>1, <1>2, NoneAssumption
  <2>2. 1 \in 1..RetryPolicy(st).max_attempts
    BY <1>3 DEF Policies
  <2> QED BY <2>1, <2>2, <1>1, <1>3 DEF ActionMatchesPhase, RetryPolicy
<1>6. DeliveryMatchesDocument'
  BY <1>1 DEF DeliveryMatchesDocument
<1>7. StageHasTime'
  BY <1>1, <1>3 DEF StageHasTime, Policies, RetryPolicy
<1>8. PhasePayload' /\ NothingBeforeStart' /\ CommitIsProposed'
  BY <1>1, <1>3 DEF PhasePayload, NothingBeforeStart, CommitIsProposed
<1>9. StageMatchesRun'
  BY <1>1 DEF StageMatchesRun, RouteOfRun, RouteFor, OfDescription
<1> QED
  BY <1>4, <1>5, <1>6, <1>7, <1>8, <1>9 DEF Inductive, LiveSnapshotValid, SnapshotValid

LEMMA DrawReviewKeeps ==
  ASSUME Inductive, Outside, NEW d \in Ddl, DrawReview(d), ImageRun,
         run.image \/ OfDescription,
         OfDescription => ProposeStage1Result(authority) # NoProposal,
         [kept EXCEPT !.image = None] = Nothing
  PROVE  Inductive'
<1>1. /\ phase' = "AwaitingImageReviewDrawing" /\ stage' = None /\ elapsed' = 0
      /\ commit' = None /\ patch' = None /\ delivery' = None
      /\ run' = run /\ basis' = basis
      /\ ordinal' = ordinal + 1 /\ ordinal' \in 0..MaxOrdinal
      /\ action' = [tag |-> "draw_image_review", ordinal |-> ordinal + 1,
                    attempt |-> 1, request |-> "first"]
      /\ kept' = [kept EXCEPT !.image = d]
  BY ConfigAssumption DEF DrawReview, Issue, Inductive, TypeOK
<1>2. action' \in Actions
  BY <1>1, ConfigAssumption DEF Actions, Tags, Requests
<1>3. /\ kept' \in KeptTypes /\ kept'.image = d /\ d # None
      /\ kept'.stage1 = None /\ kept'.plan = FALSE /\ kept'.composition = None
      /\ kept'.laws = None /\ kept'.colors = None
  BY <1>1, NoneAssumption DEF Nothing, KeptTypes, Inductive, TypeOK
<1>4. TypeOK'
  BY <1>1, <1>2, <1>3 DEF Inductive, TypeOK, SavedTypeOK, Outside, Phases
<1>5. SnapshotValid'
  <2>1. KeptMatchesPhase'
    BY <1>1, <1>3 DEF KeptMatchesPhase
  <2>2. StageMatchesRun'
    BY <1>1, NoneAssumption DEF StageMatchesRun, OfDescription, ImageRun,
       ImageStages, DescriptionStages, Stages
  <2>3. DeliveryMatchesDocument' /\ ActionMatchesPhase'
    BY <1>1, <1>2, NoneAssumption DEF DeliveryMatchesDocument, ActionMatchesPhase
  <2> QED BY <2>1, <2>2, <2>3 DEF SnapshotValid
<1>6. /\ PhasePayload' /\ KeptIsThere' /\ NothingBeforeStart'
      /\ CommitIsProposed' /\ StageHasTime'
  BY <1>1, <1>3, NoneAssumption DEF PhasePayload, KeptIsThere, NothingBeforeStart,
     CommitIsProposed, StageHasTime, ReviewStages, Stages, DescriptionStages, ImageStages
<1>7. ImageRun'
  BY <1>1 DEF ImageRun, OfDescription, Outside, saved
<1>8. RouteOfRun'
  BY <1>1, <1>7, NoStage DEF OfDescription, Outside, saved, ProposeStage1Result,
     ProposeAdvance
<1> QED BY <1>4, <1>5, <1>6, <1>8 DEF Inductive, LiveSnapshotValid

LEMMA SettleKeeps ==
  ASSUME Inductive, SavedTypeOK', WorkTypeOK',
         NEW to \in Resting, Settle(to),
         delivery' # None => delivery' = document',
         to \in {"ScoreReady", "Completed"} => delivery' \in Drawable,
         kept' = Nothing, ImageRun'
  PROVE  Inductive'
<1>1. /\ phase' = to /\ stage' = None /\ elapsed' = 0 /\ action' = None
      /\ commit' = None /\ patch' = None /\ ordinal' = ordinal
  BY DEF Settle
<1>2. TypeOK'
  BY <1>1 DEF Inductive, TypeOK, SavedTypeOK, WorkTypeOK, Phases
<1>3. KeptMatchesPhase'
  BY DEF KeptMatchesPhase, Nothing
<1>4. StageMatchesRun' /\ RouteOfRun'
  BY <1>1, NoStage DEF StageMatchesRun, ImageRun, Resting, DescriptionStages
<1>5. DeliveryMatchesDocument' /\ ActionMatchesPhase'
  BY <1>1 DEF DeliveryMatchesDocument, ActionMatchesPhase, Resting
<1>6. KeptIsThere'
  BY <1>1, NoneAssumption DEF KeptIsThere, ReviewStages, Resting, Stages,
     DescriptionStages, ImageStages
<1>7. PhasePayload' /\ NothingBeforeStart' /\ CommitIsProposed' /\ StageHasTime'
  BY <1>1 DEF PhasePayload, NothingBeforeStart, CommitIsProposed, StageHasTime, Resting
<1> QED
  BY <1>2, <1>3, <1>4, <1>5, <1>6, <1>7 DEF Inductive, LiveSnapshotValid, SnapshotValid

LEMMA CommitKeeps ==
  ASSUME Inductive, phase # "Cancelled", Outside,
         NEW d \in Ddl, NEW reason \in Reasons, NEW rng \in BOOLEAN,
         NEW next \in {ProposeUserMutation(authority), ProposeStage1Result(authority)},
         CommitDocument(d, reason, next, rng),
         run' \in RunTypes, basis' \in Ddl \cup {None, Open}, ImageRun'
  PROVE  Inductive'
<1>1. /\ phase' = "AwaitingVisibleDdlCommit" /\ stage' = None /\ elapsed' = 0
      /\ commit' = [document |-> d, reason |-> reason, ranges |-> rng,
                    expected |-> authority.revision, next |-> next]
      /\ patch' = None
      /\ ordinal' = ordinal + 1 /\ ordinal' \in 0..MaxOrdinal
      /\ action' = [tag |-> "commit_visible_normalized_ddl", ordinal |-> ordinal + 1,
                    attempt |-> 1, request |-> "first"]
      /\ kept' = Nothing /\ delivery' = delivery /\ next # NoProposal
  BY ConfigAssumption DEF CommitDocument, Issue, Inductive, TypeOK
<1>2. action' \in Actions
  BY <1>1, ConfigAssumption DEF Actions, Tags, Requests
<1>3. authority \in VariationAuthority /\ authority' = authority /\ document' = document
  BY DEF Inductive, TypeOK, Outside, saved
<1>4. next \in VariationAuthority /\ authority.revision \in 0..MaxRevision
  BY <1>1, <1>3, ProposalType DEF VariationAuthority
<1>5. commit' \in Commits
  BY <1>1, <1>4 DEF Commits
<1>6. kept' \in KeptTypes
  BY <1>1 DEF Nothing, KeptTypes
<1>7. TypeOK'
  BY <1>1, <1>2, <1>5, <1>6 DEF Inductive, TypeOK, SavedTypeOK, Outside, Phases
<1>8. SnapshotValid'
  <2>1. KeptMatchesPhase'
    BY <1>1 DEF KeptMatchesPhase, Nothing
  <2>2. StageMatchesRun'
    BY <1>1, NoneAssumption DEF StageMatchesRun, ImageRun, ImageStages,
       DescriptionStages, Stages
  <2>3. DeliveryMatchesDocument'
    BY <1>1, <1>3 DEF DeliveryMatchesDocument, Inductive, LiveSnapshotValid, SnapshotValid
  <2>4. ActionMatchesPhase'
    BY <1>1, <1>2, <1>3, NoneAssumption DEF ActionMatchesPhase
  <2> QED BY <2>1, <2>2, <2>3, <2>4 DEF SnapshotValid
<1>9. /\ PhasePayload' /\ KeptIsThere' /\ NothingBeforeStart' /\ StageHasTime'
  BY <1>1, <1>5, NoneAssumption DEF PhasePayload, KeptIsThere, NothingBeforeStart,
     StageHasTime, ReviewStages, Stages, DescriptionStages, ImageStages
<1>10. CommitIsProposed'
  BY <1>1, <1>3 DEF CommitIsProposed, ProposeUserMutation, ProposeStage1Result,
     ProposeAdvance
<1>11. RouteOfRun'
  BY <1>1, NoStage
<1> QED BY <1>7, <1>8, <1>9, <1>10, <1>11 DEF Inductive, LiveSnapshotValid

-----------------------------------------------------------------------------
\* Staying in a stage.

\* The next attempt of the same request.
LEMMA RetryKeeps ==
  ASSUME Inductive, Outside, stage # None,
         NEW total \in Nat,
         NEW next, next # None,
         next = NextBudgetedAttempt(RetryPolicy(stage), action.attempt, total),
         Retry(next, total)
  PROVE  Inductive'
<1>1. /\ phase = "AwaitingLlm" /\ stage \in Stages /\ RetryPolicy(stage) \in Policies
      /\ action \in Actions /\ action.tag = stage /\ action.attempt \in Nat \ {0}
      /\ SnapshotValid
  BY Asking
<1>2. /\ next = action.attempt + 1 /\ next \in 1..RetryPolicy(stage).max_attempts
      /\ total + RetryPolicy(stage).retry_delay \in Nat
      /\ total + RetryPolicy(stage).retry_delay < RetryPolicy(stage).total_timeout
  BY <1>1, NextBudgetedAttemptInBudget
<1>3. /\ action' = [action EXCEPT !.attempt = next]
      /\ elapsed' = total + RetryPolicy(stage).retry_delay
      /\ phase' = phase /\ stage' = stage /\ ordinal' = ordinal /\ commit' = commit
      /\ patch' = patch /\ delivery' = delivery /\ kept' = kept /\ run' = run
      /\ basis' = basis
  BY DEF Retry
<1>4. /\ action' \in Actions /\ action' # None /\ action'.tag = stage
      /\ action'.attempt = next
  BY <1>1, <1>2, <1>3, NoneAssumption DEF Actions
<1>5. TypeOK'
  BY <1>2, <1>3, <1>4 DEF Inductive, TypeOK, SavedTypeOK, Outside
<1>6. SnapshotValid'
  <2>1. KeptMatchesPhase' /\ StageMatchesRun'
    BY <1>1, <1>3 DEF SnapshotValid, KeptMatchesPhase, StageMatchesRun,
       OfDescription, Composed
  <2>2. DeliveryMatchesDocument'
    BY <1>1, <1>3 DEF SnapshotValid, DeliveryMatchesDocument, Outside, saved
  <2>3. ActionMatchesPhase'
    BY <1>1, <1>2, <1>3, <1>4, NoneAssumption DEF ActionMatchesPhase, RetryPolicy
  <2> QED BY <2>1, <2>2, <2>3 DEF SnapshotValid
<1>7. PhasePayload' /\ KeptIsThere' /\ NothingBeforeStart'
  BY <1>1, <1>3 DEF Inductive, PhasePayload, KeptIsThere, NothingBeforeStart
<1>8. StageHasTime'
  BY <1>2, <1>3 DEF StageHasTime, RetryPolicy
<1>9. RouteOfRun' /\ CommitIsProposed'
  BY <1>1, <1>3, Asking DEF Inductive, RouteOfRun, RouteFor, CommitIsProposed, Outside, saved,
     OfDescription
<1> QED BY <1>5, <1>6, <1>7, <1>8, <1>9 DEF Inductive, LiveSnapshotValid

\* An answer given back: a new request on the budget of its stage.
LEMMA AskAgainKeeps ==
  ASSUME Inductive, Outside, stage # None,
         NEW spent \in Nat, AskAgain(spent),
         kept' \in KeptTypes, KeptMatchesPhase', KeptIsThere'
  PROVE  Inductive'
<1> DEFINE total == elapsed + spent
           next  == NextBudgetedAttempt(RetryPolicy(stage), action.attempt, total)
<1>1. /\ phase = "AwaitingLlm" /\ stage \in Stages /\ RetryPolicy(stage) \in Policies
      /\ action \in Actions /\ action.attempt \in Nat \ {0} /\ total \in Nat
      /\ SnapshotValid
  BY Asking
<1>2. next # None /\ Reissue(next, total)
  BY DEF AskAgain
<1>3. /\ next = action.attempt + 1 /\ next \in 1..RetryPolicy(stage).max_attempts
      /\ total + RetryPolicy(stage).retry_delay \in Nat
      /\ total + RetryPolicy(stage).retry_delay < RetryPolicy(stage).total_timeout
  BY <1>1, <1>2, NextBudgetedAttemptInBudget
<1> HIDE DEF next, total
<1>4. /\ action' = [tag |-> stage, ordinal |-> ordinal + 1, attempt |-> next,
                    request |-> "feedback"]
      /\ elapsed' = total + RetryPolicy(stage).retry_delay
      /\ phase' = phase /\ stage' = stage
      /\ ordinal' = ordinal + 1 /\ ordinal' \in 0..MaxOrdinal
      /\ commit' = commit /\ patch' = patch /\ delivery' = delivery
      /\ run' = run /\ basis' = basis
  BY <1>2, ConfigAssumption DEF Reissue, Issue, Inductive, TypeOK
<1>5. next \in Nat \ {0}
  BY <1>1, <1>3
<1>6. action' \in Actions
  BY <1>1, <1>4, <1>5, ConfigAssumption DEF Actions, Tags, Requests
<1>7. action' # None /\ action'.tag = stage /\ action'.attempt = next
  BY <1>4, <1>6, NoneAssumption
<1>8. TypeOK'
  BY <1>3, <1>4, <1>6 DEF Inductive, TypeOK, SavedTypeOK, Outside
<1>9. SnapshotValid'
  <2>1. StageMatchesRun'
    BY <1>1, <1>4 DEF SnapshotValid, StageMatchesRun, OfDescription, Composed
  <2>2. DeliveryMatchesDocument'
    BY <1>1, <1>4 DEF SnapshotValid, DeliveryMatchesDocument, Outside, saved
  <2>3. ActionMatchesPhase'
    BY <1>1, <1>3, <1>4, <1>7, NoneAssumption DEF ActionMatchesPhase, RetryPolicy
  <2> QED BY <2>1, <2>2, <2>3 DEF SnapshotValid
<1>10. PhasePayload' /\ NothingBeforeStart'
  BY <1>1, <1>4 DEF Inductive, PhasePayload, NothingBeforeStart
<1>11. StageHasTime'
  BY <1>3, <1>4 DEF StageHasTime, RetryPolicy
<1>12. RouteOfRun' /\ CommitIsProposed'
  BY <1>1, <1>4, Asking DEF Inductive, RouteOfRun, RouteFor, CommitIsProposed, Outside, saved,
     OfDescription
<1> QED BY <1>8, <1>9, <1>10, <1>11, <1>12 DEF Inductive, LiveSnapshotValid

-----------------------------------------------------------------------------
\* Asking the next stage.

LEMMA BeginLlmKeeps ==
  ASSUME Inductive, Outside, NEW st \in Stages, BeginLlm(st),
         kept' \in KeptTypes, run' \in RunTypes, basis' \in Ddl \cup {None, Open},
         KeptMatchesPhase', KeptIsThere', RouteFor(run', st)
  PROVE  Inductive'
<1>1. /\ Ask(st, "first") /\ delivery' = None /\ authority' = authority
      /\ stage' = st /\ phase' = "AwaitingLlm"
  BY DEF BeginLlm, Ask, Outside, saved
<1>2. "first" \in Requests /\ WorkTypeOK' /\ SavedTypeOK'
  BY <1>1 DEF Requests, WorkTypeOK, Outside
<1>3. RouteOfRun'
  BY <1>1 DEF RouteOfRun, RouteFor, ProposeStage1Result, ProposeAdvance
<1> QED BY <1>1, <1>2, <1>3, AskKeeps

\* The stages that keep a document of their own, and for whom none is.
KeepingStages == {"ReadComposition", "ChooseLaws", "ChooseColors"} \cup ReviewStages

\* A stage that keeps nothing.
LEMMA BeginKeeps ==
  ASSUME Inductive, Outside, kept = Nothing,
         NEW r \in RunTypes, NEW st \in Stages \ KeepingStages,
         Begin(r, st), RouteFor(r, st)
  PROVE  Inductive'
<1>1. /\ run' = r /\ kept' = Nothing /\ basis' = basis
      /\ BeginLlm(st) /\ stage' = st /\ phase' = "AwaitingLlm"
  BY DEF Begin, BeginLlm, Ask
<1>2. kept' \in KeptTypes /\ basis' \in Ddl \cup {None, Open} /\ run' \in RunTypes
  BY <1>1 DEF Inductive, TypeOK
<1>3. KeptMatchesPhase' /\ KeptIsThere'
  BY <1>1 DEF KeptMatchesPhase, KeptIsThere, Nothing, KeepingStages
<1> QED BY <1>1, <1>2, <1>3, BeginLlmKeeps

\* A stage that keeps one document.
LEMMA BeginKeepingKeeps ==
  ASSUME Inductive, Outside, NEW d \in Ddl,
         NEW st \in {"ReadComposition", "ChooseLaws", "ChooseColors"}, BeginLlm(st),
         kept' = CASE st = "ReadComposition" -> [Nothing EXCEPT !.composition = d]
                   [] st = "ChooseLaws"      -> [Nothing EXCEPT !.laws = d]
                   [] st = "ChooseColors"    -> [Nothing EXCEPT !.colors = d],
         run' \in RunTypes, basis' \in Ddl \cup {None, Open},
         RouteFor(run', st), st = "ChooseColors" /\ OfDescription' => Composed'
  PROVE  Inductive'
<1>1. stage' = st /\ phase' = "AwaitingLlm" /\ st \in Stages /\ d # None
  BY NoneAssumption DEF BeginLlm, Ask, Stages
<1>2. CASE st = "ReadComposition"
  <2>1. /\ kept' \in KeptTypes /\ kept'.composition = d /\ kept'.stage1 = None
        /\ kept'.plan = FALSE /\ kept'.laws = None /\ kept'.colors = None
        /\ kept'.image = None
    BY <1>2 DEF Nothing, KeptTypes
  <2>2. KeptMatchesPhase' /\ KeptIsThere'
    BY <1>1, <1>2, <2>1 DEF KeptMatchesPhase, KeptIsThere, ReviewStages
  <2> QED BY <1>1, <2>1, <2>2, BeginLlmKeeps
<1>3. CASE st = "ChooseLaws"
  <2>1. /\ kept' \in KeptTypes /\ kept'.laws = d /\ kept'.stage1 = None
        /\ kept'.plan = FALSE /\ kept'.composition = None /\ kept'.colors = None
        /\ kept'.image = None
    BY <1>3 DEF Nothing, KeptTypes
  <2>2. KeptMatchesPhase' /\ KeptIsThere'
    BY <1>1, <1>3, <2>1 DEF KeptMatchesPhase, KeptIsThere, ReviewStages
  <2> QED BY <1>1, <2>1, <2>2, BeginLlmKeeps
<1>4. CASE st = "ChooseColors"
  <2>1. /\ kept' \in KeptTypes /\ kept'.colors = d /\ kept'.stage1 = None
        /\ kept'.plan = FALSE /\ kept'.composition = None /\ kept'.laws = None
        /\ kept'.image = None
    BY <1>4 DEF Nothing, KeptTypes
  <2>2. KeptMatchesPhase' /\ KeptIsThere'
    BY <1>1, <1>4, <2>1 DEF KeptMatchesPhase, KeptIsThere, ReviewStages
  <2> QED BY <1>1, <2>1, <2>2, BeginLlmKeeps
<1> QED BY <1>2, <1>3, <1>4

-----------------------------------------------------------------------------
\* The tails of the staged route (PipelineStages).

\* A staged run, or one from a saved work, while a stage of it is asked.
Staged == /\ phase = "AwaitingLlm" /\ ~OfDescription /\ ~run.image
          /\ ~run.move => ProposeStage1Result(authority) # NoProposal

LEMMA CommitStage1Keeps ==
  ASSUME Inductive, Outside, phase # "Cancelled",
         NEW d \in Ddl, NEW b \in Ddl \cup {None, Open}, CommitStage1(d, b)
  PROVE  Inductive'
<1>1. /\ run' = run /\ basis' \in Ddl \cup {None, Open}
      /\ CommitDocument(d, RunReason, RunProposal, FALSE)
  BY DEF CommitStage1
<1>2. run' \in RunTypes /\ ImageRun'
  BY <1>1, ImageRunHolds DEF ImageRun, OfDescription, Outside, saved, Inductive, TypeOK
<1>3. /\ RunReason \in Reasons
      /\ RunProposal \in {ProposeUserMutation(authority), ProposeStage1Result(authority)}
  BY DEF RunReason, RunProposal, Reasons
<1> QED BY <1>1, <1>2, <1>3, CommitKeeps

LEMMA AfterLawsKeeps ==
  ASSUME Inductive, Outside, Staged,
         NEW d \in Ddl, NEW b \in Ddl \cup {None, Open}, AfterLaws(Nothing, d, b)
  PROVE  Inductive'
<1>1. CASE CommitStage1(d, b)
  BY <1>1, CommitStage1Keeps DEF Staged
<1>2. CASE /\ kept' = [Nothing EXCEPT !.colors = d] /\ basis' = b
           /\ BeginLlm("ChooseColors") /\ run' = run
  <2>1. RouteFor(run', "ChooseColors")
    BY <1>2, ImageRunHolds DEF RouteFor, Staged, ImageRun, OfDescription,
       ImageStages, DescriptionStages
  <2>2. run' \in RunTypes /\ ~OfDescription'
    BY <1>2 DEF Inductive, TypeOK, Staged, OfDescription
  <2> QED BY <1>2, <2>1, <2>2, BeginKeepingKeeps
<1> QED BY <1>1, <1>2 DEF AfterLaws

LEMMA AskLawsKeeps ==
  ASSUME Inductive, Outside, Staged, NEW d \in Ddl, AskLaws(Nothing, d)
  PROVE  Inductive'
<1>1. basis \in Ddl \cup {None, Open} /\ run \in RunTypes
  BY DEF Inductive, TypeOK
<1>2. CASE AfterLaws(Nothing, d, basis)
  BY <1>1, <1>2, AfterLawsKeeps
<1>3. CASE /\ kept' = [Nothing EXCEPT !.laws = d]
           /\ BeginLlm("ChooseLaws") /\ run' = run /\ basis' = basis
  <2>1. RouteFor(run', "ChooseLaws")
    BY <1>3, ImageRunHolds DEF RouteFor, Staged, ImageRun, OfDescription,
       ImageStages, DescriptionStages
  <2> QED BY <1>1, <1>3, <2>1, BeginKeepingKeeps
<1> QED BY <1>2, <1>3 DEF AskLaws

LEMMA ComposeAndCommitKeeps ==
  ASSUME Inductive, Outside, Staged, NEW d \in Ddl, ComposeAndCommit(Nothing, d)
  PROVE  Inductive'
<1>1. basis \in Ddl \cup {None, Open} /\ Canonical \subseteq Ddl
  BY DocumentsAssumption DEF Inductive, TypeOK
<1>2. CASE CommitStage1(d, basis)
  BY <1>1, <1>2, CommitStage1Keeps DEF Staged
<1>3. ASSUME NEW composed \in Canonical,
             AskLaws(Nothing, composed) \/ AfterLaws(Nothing, composed, basis)
      PROVE  Inductive'
  BY <1>1, <1>3, AskLawsKeeps, AfterLawsKeeps
<1> QED BY <1>2, <1>3 DEF ComposeAndCommit

LEMMA Stage1Keeps ==
  ASSUME Inductive, Outside, kept = Nothing, ImageRun,
         NEW r \in RunTypes, r.reading = "none", r.image = run.image,
         r.move = run.move, Stage1(r)
  PROVE  Inductive'
<1>1. /\ ProposeStage1Result(authority) # NoProposal
      /\ authority.authority = "description_authoritative"
  BY DEF Stage1, ProposeStage1Result
<1>2. PICK st \in {"GenerateSketch", "GenerateNormalizedDdl"} : Begin(r, st)
  BY DEF Stage1
<1>3. st \in Stages \ KeepingStages
  BY DEF Stages, KeepingStages, ReviewStages
<1>4. RouteFor(r, st)
  BY <1>1 DEF RouteFor, ImageRun, ImageStages, DescriptionStages
<1> QED BY <1>2, <1>3, <1>4, BeginKeeps

\* What holds while a staged run waits for an answer.
LEMMA StagedRun ==
  ASSUME Inductive,
         stage \in {"GenerateSketch", "GenerateNormalizedDdl", "ReadComposition",
                    "ChooseLaws"}
  PROVE  /\ Staged /\ stage # None /\ ImageRun
         /\ stage # "ChooseLaws" => ProposeStage1Result(authority) # NoProposal
<1>1. stage # None
  BY NoneAssumption DEF Stages
<1>2. /\ stage # "ChooseLaws" => ProposeStage1Result(authority) # NoProposal
      /\ stage = "ChooseLaws" /\ ~run.move => ProposeStage1Result(authority) # NoProposal
  BY DEF Inductive, RouteOfRun, RouteFor, Stages, ImageStages
<1> QED
  BY <1>1, <1>2, Asking, ImageRunHolds
  DEF Inductive, RouteOfRun, RouteFor, Staged, OfDescription

LEMMA FinishSketchKeeps ==
  ASSUME Inductive, Outside, stage = "GenerateSketch",
         NEW state \in {"answered", "fallback"}, FinishSketch(state)
  PROVE  Inductive'
<1>1. kept = Nothing
  BY NothingKept, Asking, StagedRun DEF WriteStages, ReviewStages
<1> DEFINE r == [run EXCEPT !.sketch = state]
<1>2. /\ r \in RunTypes /\ r.reading = "none" /\ r.image = run.image
      /\ r.move = run.move
  BY StagedRun DEF RunTypes, Inductive, TypeOK, Staged, OfDescription
<1> QED BY <1>1, <1>2, StagedRun, Stage1Keeps DEF FinishSketch

\* Everything but the second chance of Stage 1 has ended when it is asked.
LEMMA Stage1Kept ==
  ASSUME Inductive, stage = "GenerateNormalizedDdl"
  PROVE  /\ kept \in KeptTypes /\ kept.composition = None /\ kept.laws = None
         /\ kept.colors = None /\ kept.image = None
         /\ [kept EXCEPT !.stage1 = None, !.plan = FALSE] = Nothing
         /\ kept.stage1 = None => kept = Nothing
<1>1. kept \in KeptTypes /\ KeptMatchesPhase /\ phase = "AwaitingLlm"
  BY StagedRun, Asking DEF Inductive, TypeOK, SnapshotValid
<1>2. /\ kept.composition = None /\ kept.laws = None /\ kept.colors = None
      /\ kept.image = None
      /\ kept.stage1 = None => kept.plan = FALSE
  BY <1>1 DEF KeptMatchesPhase, WriteStages, ReviewStages, KeptTypes
<1> DEFINE k == [kept EXCEPT !.stage1 = None, !.plan = FALSE]
<1>3. k \in KeptTypes /\ k.stage1 = None /\ k.plan = FALSE /\ k.composition = None
      /\ k.laws = None /\ k.colors = None /\ k.image = None
  BY <1>1, <1>2 DEF KeptTypes
<1>4. kept.stage1 = None => kept = Nothing
  BY <1>1, <1>2, EmptyKept
<1> QED BY <1>1, <1>2, <1>3, <1>4, EmptyKept

LEMMA SettleStage1Keeps ==
  ASSUME Inductive, Outside, stage = "GenerateNormalizedDdl",
         NEW d \in Ddl, NEW plan \in BOOLEAN, SettleStage1(d, plan)
  PROVE  Inductive'
<1>1. Staged /\ ImageRun /\ ProposeStage1Result(authority) # NoProposal
  BY StagedRun
<1>2. basis \in Ddl \cup {None, Open} /\ run \in RunTypes
  BY DEF Inductive, TypeOK
<1>3. CASE CommitStage1(d, basis)
  BY <1>1, <1>2, <1>3, CommitStage1Keeps DEF Staged
<1>4. CASE /\ kept' = [Nothing EXCEPT !.composition = d]
           /\ BeginLlm("ReadComposition") /\ run' = run /\ basis' = basis
  <2>1. RouteFor(run', "ReadComposition")
    BY <1>1, <1>4 DEF RouteFor, Staged, ImageRun, OfDescription, ImageStages,
       DescriptionStages
  <2> QED BY <1>2, <1>4, <2>1, BeginKeepingKeeps
<1>5. CASE ComposeAndCommit(Nothing, d)
  BY <1>1, <1>5, ComposeAndCommitKeeps
<1> QED BY <1>3, <1>4, <1>5, Stage1Kept DEF SettleStage1

LEMMA CommitStage1FallbackKeeps ==
  ASSUME Inductive, Outside, stage = "GenerateNormalizedDdl", kept.stage1 # None,
         CommitStage1Fallback
  PROVE  Inductive'
<1>1. kept.stage1 \in Ddl /\ kept.plan \in BOOLEAN
  BY Stage1Kept DEF KeptTypes
<1> QED BY <1>1, SettleStage1Keeps DEF CommitStage1Fallback

\* The document a stage was given is the only thing kept.
LEMMA LawsKept ==
  ASSUME Inductive, stage = "ChooseLaws"
  PROVE  kept.laws \in Ddl /\ [kept EXCEPT !.laws = None] = Nothing
<1>1. kept \in KeptTypes /\ KeptMatchesPhase /\ phase = "AwaitingLlm" /\ kept.laws # None
  BY StagedRun, Asking DEF Inductive, TypeOK, SnapshotValid, KeptIsThere
<1>2. /\ kept.composition = None /\ kept.stage1 = None /\ kept.colors = None
      /\ kept.image = None /\ kept.plan = FALSE
  BY <1>1 DEF KeptMatchesPhase, WriteStages, ReviewStages, KeptTypes
<1> DEFINE k == [kept EXCEPT !.laws = None]
<1>3. k \in KeptTypes /\ k.stage1 = None /\ k.plan = FALSE /\ k.composition = None
      /\ k.laws = None /\ k.colors = None /\ k.image = None /\ kept.laws \in Ddl
  BY <1>1, <1>2 DEF KeptTypes
<1> QED BY <1>3, EmptyKept

LEMMA CompositionKept ==
  ASSUME Inductive, stage = "ReadComposition"
  PROVE  kept.composition \in Ddl /\ [kept EXCEPT !.composition = None] = Nothing
<1>1. /\ kept \in KeptTypes /\ KeptMatchesPhase /\ phase = "AwaitingLlm"
      /\ kept.composition # None
  BY StagedRun, Asking DEF Inductive, TypeOK, SnapshotValid, KeptIsThere
<1>2. /\ kept.laws = None /\ kept.stage1 = None /\ kept.colors = None
      /\ kept.image = None /\ kept.plan = FALSE
  BY <1>1 DEF KeptMatchesPhase, WriteStages, ReviewStages, KeptTypes
<1> DEFINE k == [kept EXCEPT !.composition = None]
<1>3. k \in KeptTypes /\ k.stage1 = None /\ k.plan = FALSE /\ k.composition = None
      /\ k.laws = None /\ k.colors = None /\ k.image = None /\ kept.composition \in Ddl
  BY <1>1, <1>2 DEF KeptTypes
<1> QED BY <1>3, EmptyKept

LEMMA ReadCompositionKeeps ==
  ASSUME Inductive, Outside, stage = "ReadComposition",
         ComposeAndCommit([kept EXCEPT !.composition = None], kept.composition)
  PROVE  Inductive'
  BY StagedRun, CompositionKept, ComposeAndCommitKeeps

\* Nothing that draws was made: the run stops where it is.
LEMMA StopKeeps ==
  ASSUME Inductive, Outside, phase # "Cancelled",
         NEW to \in {"Failed", "NeedsUserEdit"}, Settle(to),
         UNCHANGED <<delivery, run>>, basis' \in Ddl \cup {None, Open}, kept' = Nothing
  PROVE  Inductive'
<1>1. WorkTypeOK'
  BY DEF WorkTypeOK, Inductive, TypeOK, KeptTypes, Nothing
<1>2. delivery' # None => delivery' = document'
  BY DEF Inductive, LiveSnapshotValid, SnapshotValid, DeliveryMatchesDocument,
     Outside, saved
<1>3. ImageRun'
  BY ImageRunHolds DEF ImageRun, OfDescription, Outside, saved
<1>4. to \in Resting /\ to \notin {"ScoreReady", "Completed"} /\ SavedTypeOK'
  BY DEF Resting, Outside
<1> QED BY <1>1, <1>2, <1>3, <1>4, SettleKeeps

LEMMA LawsFallbackKeeps ==
  ASSUME Inductive, Outside, stage = "ChooseLaws", LawsFallback
  PROVE  Inductive'
<1>1. CASE FailLawsMove
  BY <1>1, LawsKept, StagedRun, StopKeeps DEF FailLawsMove, Staged
<1>2. CASE AfterLaws([kept EXCEPT !.laws = None], kept.laws, basis)
  <2>1. basis \in Ddl \cup {None, Open}
    BY DEF Inductive, TypeOK
  <2> QED BY <1>2, <2>1, LawsKept, StagedRun, AfterLawsKeeps
<1> QED BY <1>1, <1>2 DEF LawsFallback

LEMMA StagesExhaustedKeeps ==
  ASSUME Inductive, Outside, StagesExhausted,
         ~(stage = "GenerateNormalizedDdl" /\ kept.stage1 # None)
  PROVE  Inductive'
<1>1. CASE stage = "GenerateSketch" /\ FinishSketch("fallback")
  BY <1>1, FinishSketchKeeps
<1>2. CASE /\ stage = "GenerateNormalizedDdl" /\ Settle("Failed")
           /\ UNCHANGED <<delivery, kept, run, basis>>
  <2>1. basis' \in Ddl \cup {None, Open}
    BY <1>2 DEF Inductive, TypeOK
  <2>2. kept' = Nothing
    BY <1>2, Stage1Kept
  <2> QED BY <1>2, <2>1, <2>2, StagedRun, StopKeeps DEF Staged
<1>3. CASE /\ stage = "ReadComposition"
           /\ ComposeAndCommit([kept EXCEPT !.composition = None], kept.composition)
  BY <1>3, ReadCompositionKeeps
<1>4. CASE stage = "ChooseLaws" /\ LawsFallback
  BY <1>4, LawsFallbackKeeps
<1> QED BY <1>1, <1>2, <1>3, <1>4 DEF StagesExhausted

-----------------------------------------------------------------------------
\* The answers of the staged route.

LEMMA CanonicalAnsweredKeeps ==
  ASSUME Inductive, Outside, NEW spent \in Nat, CanonicalAnswered(spent)
  PROVE  Inductive'
<1>1. PICK d \in Canonical, plan \in BOOLEAN :
        \/ /\ kept.stage1 = None /\ AskAgain(spent)
           /\ kept' = [kept EXCEPT !.stage1 = d, !.plan = plan]
        \/ SettleStage1(d, plan)
  BY DEF CanonicalAnswered
<1>2. d \in Ddl /\ d # None /\ stage = "GenerateNormalizedDdl" /\ stage # None
  BY DocumentsAssumption, NoneAssumption, StagedRun DEF CanonicalAnswered
<1>3. CASE SettleStage1(d, plan)
  BY <1>2, <1>3, SettleStage1Keeps
<1>4. CASE /\ kept.stage1 = None /\ AskAgain(spent)
           /\ kept' = [kept EXCEPT !.stage1 = d, !.plan = plan]
  <2>1. /\ kept' \in KeptTypes /\ kept'.stage1 = d /\ kept'.composition = None
        /\ kept'.laws = None /\ kept'.colors = None /\ kept'.image = None
    BY <1>2, <1>4, Stage1Kept DEF KeptTypes
  <2>2. stage' = stage /\ phase' = phase /\ phase = "AwaitingLlm"
    BY <1>2, <1>4, Asking DEF AskAgain, Reissue
  <2>3. KeptMatchesPhase' /\ KeptIsThere'
    BY <1>2, <2>1, <2>2 DEF KeptMatchesPhase, KeptIsThere, ReviewStages
  <2> QED BY <1>2, <1>4, <2>1, <2>3, AskAgainKeeps
<1> QED BY <1>1, <1>3, <1>4

\* A stage that asks again with everything kept as it was.
LEMMA AskAgainAsItWasKeeps ==
  ASSUME Inductive, Outside, stage # None, NEW spent \in Nat, AskAgain(spent),
         kept' = kept
  PROVE  Inductive'
<1>1. stage' = stage /\ phase' = phase /\ run' = run
  BY DEF AskAgain, Reissue
<1>2. kept' \in KeptTypes /\ KeptMatchesPhase' /\ KeptIsThere'
  BY <1>1, Asking DEF Inductive, TypeOK, SnapshotValid, KeptMatchesPhase, KeptIsThere,
     OfDescription, Composed
<1> QED BY <1>2, AskAgainKeeps

LEMMA NonCanonicalAnsweredKeeps ==
  ASSUME Inductive, Outside, NEW spent \in Nat, NonCanonicalAnswered(spent)
  PROVE  Inductive'
<1>1. stage = "GenerateNormalizedDdl" /\ stage # None /\ phase = "AwaitingLlm"
  BY StagedRun DEF NonCanonicalAnswered, Staged
<1>2. PICK d \in Ddl \ Canonical :
        \/ kept.stage1 # None /\ CommitStage1Fallback
        \/ kept.stage1 = None /\ AskAgain(spent) /\ kept' = kept
        \/ /\ CommitDocument(d, "stage1_residual_execution",
                             ProposeStage1Result(authority), FALSE)
           /\ run' = run /\ basis' = basis
  BY DEF NonCanonicalAnswered
<1>3. CASE kept.stage1 # None /\ CommitStage1Fallback
  BY <1>1, <1>3, CommitStage1FallbackKeeps
<1>4. CASE AskAgain(spent) /\ kept' = kept
  BY <1>1, <1>4, AskAgainAsItWasKeeps
<1>5. CASE /\ CommitDocument(d, "stage1_residual_execution",
                             ProposeStage1Result(authority), FALSE)
           /\ run' = run /\ basis' = basis
  <2>1. run' \in RunTypes /\ basis' \in Ddl \cup {None, Open} /\ ImageRun'
    BY <1>1, <1>5, ImageRunHolds DEF ImageRun, OfDescription, Outside, saved,
       Inductive, TypeOK
  <2>2. "stage1_residual_execution" \in Reasons
    BY DEF Reasons
  <2> QED BY <1>1, <1>5, <2>1, <2>2, CommitKeeps
<1> QED BY <1>2, <1>3, <1>4, <1>5

LEMMA LawsAnsweredKeeps ==
  ASSUME Inductive, Outside, NEW spent \in Nat, LawsAnswered(spent)
  PROVE  Inductive'
<1>1. stage = "ChooseLaws" /\ stage # None /\ Staged
  BY StagedRun DEF LawsAnswered
<1>2. ASSUME NEW printed \in Canonical \cap Drawable,
             AfterLaws([kept EXCEPT !.laws = None], printed, Open)
      PROVE  Inductive'
  <2>1. printed \in Ddl
    BY DocumentsAssumption
  <2> QED BY <1>1, <1>2, <2>1, LawsKept, AfterLawsKeeps
<1>3. CASE AskAgain(spent) /\ kept' = kept
  BY <1>1, <1>3, AskAgainAsItWasKeeps
<1>4. CASE LawsFallback
  BY <1>1, <1>4, LawsFallbackKeeps
<1> QED BY <1>2, <1>3, <1>4 DEF LawsAnswered

-----------------------------------------------------------------------------
\* The tails of the written routes (PipelineWritten).

LEMMA WriteDescriptionDdlKeeps ==
  ASSUME Inductive, Outside, kept = Nothing, ImageRun,
         ProposeStage1Result(authority) # NoProposal,
         NEW r \in RunTypes, r.reading # "none", r.image = run.image,
         r.move = run.move, WriteDescriptionDdl(r)
  PROVE  Inductive'
<1>1. authority.authority = "description_authoritative"
  BY DEF ProposeStage1Result
<1>2. PICK st \in {"ComposeDescription", "WriteDescriptionDdl"} :
        /\ Begin(r, st)
        /\ st = "ComposeDescription" => r.composition = "pending"
  BY DEF WriteDescriptionDdl
<1>3. st \in Stages \ KeepingStages
  BY DEF Stages, DescriptionStages, KeepingStages, ReviewStages
<1>4. RouteFor(r, st)
  BY <1>1, <1>2 DEF RouteFor, ImageRun, ImageStages, DescriptionStages
<1> QED BY <1>2, <1>3, <1>4, BeginKeeps

LEMMA AfterDescriptionCatalogKeeps ==
  ASSUME Inductive, Outside, kept = Nothing, ImageRun,
         NEW r \in RunTypes, r.image = run.image, r.move = run.move,
         ProposeStage1Result(authority) # NoProposal, AfterDescriptionCatalog(r)
  PROVE  Inductive'
<1>1. authority.authority = "description_authoritative"
  BY DEF ProposeStage1Result
<1>2. CASE r.reading = "none" /\ Stage1(r)
  BY <1>2, Stage1Keeps
<1>3. CASE r.reading # "none" /\ WriteDescriptionDdl(r)
  BY <1>3, WriteDescriptionDdlKeeps
<1>4. CASE r.reading # "none" /\ Begin(r, "ReadDescription")
  <2>1. "ReadDescription" \in Stages \ KeepingStages
    BY DEF Stages, DescriptionStages, KeepingStages, ReviewStages
  <2>2. RouteFor(r, "ReadDescription")
    BY <1>1, <1>4 DEF RouteFor, ImageRun, ImageStages, DescriptionStages
  <2> QED BY <1>4, <2>1, <2>2, BeginKeeps
<1> QED BY <1>2, <1>3, <1>4 DEF AfterDescriptionCatalog, ReadOrWriteDescription

\* A run that writes its DDL as text, in a stage of its own or while the host
\* draws for it.
Writing == /\ phase # "Cancelled" /\ ImageRun
           /\ run.image \/ OfDescription
           /\ OfDescription => ProposeStage1Result(authority) # NoProposal

LEMMA CommitWrittenDocumentKeeps ==
  ASSUME Inductive, Outside, phase # "Cancelled", NEW d \in Ddl, CommitWrittenDocument(d)
  PROVE  Inductive'
<1>1. /\ run' \in RunTypes /\ basis' \in Ddl \cup {None, Open} /\ ImageRun'
      /\ CommitDocument(d, WrittenReason, WrittenProposal, FALSE)
  BY ImageRunHolds DEF CommitWrittenDocument, ImageRun, OfDescription, Outside, saved,
     Inductive, TypeOK
<1>2. /\ WrittenReason \in Reasons
      /\ WrittenProposal \in {ProposeUserMutation(authority), ProposeStage1Result(authority)}
  BY DEF WrittenReason, WrittenProposal, Reasons
<1> QED BY <1>1, <1>2, CommitKeeps

LEMMA CommitWrittenKeeps ==
  ASSUME Inductive, Outside, Writing, [kept EXCEPT !.image = None] = Nothing,
         NEW d \in Ddl, CommitWritten(d)
  PROVE  Inductive'
<1>1. CASE CommitWrittenDocument(d)
  BY <1>1, CommitWrittenDocumentKeeps DEF Writing
<1>2. CASE /\ Composed /\ kept' = [kept EXCEPT !.image = None, !.colors = d]
           /\ BeginLlm("ChooseColors") /\ run' = run /\ basis' = basis
  <2>1. /\ kept' = [Nothing EXCEPT !.colors = d] /\ basis' \in Ddl \cup {None, Open}
        /\ run' \in RunTypes /\ Composed'
    BY <1>2 DEF Inductive, TypeOK, Composed, OfDescription, KeptTypes, Nothing
  <2>2. RouteFor(run', "ChooseColors")
    BY <1>2 DEF RouteFor, Writing, ImageRun, OfDescription, Composed, ImageStages,
       DescriptionStages
  <2> QED BY <1>2, <2>1, <2>2, BeginKeepingKeeps
<1> QED BY <1>1, <1>2 DEF CommitWritten, ColorsBeforeCommit

LEMMA FittedType ==
  ASSUME NEW d \in Ddl, NEW fitted \in Fitted(d)
  PROVE  fitted \in Ddl
  BY DocumentsAssumption DEF Fitted

LEMMA AfterWrittenKeeps ==
  ASSUME Inductive, Outside, Writing, [kept EXCEPT !.image = None] = Nothing,
         NEW d \in Ddl, AfterWritten(d)
  PROVE  Inductive'
<1>1. PICK fitted \in Fitted(d) : DrawReview(fitted) \/ CommitWritten(fitted)
  BY DEF AfterWritten
<1>2. fitted \in Ddl
  BY FittedType
<1> QED BY <1>1, <1>2, DrawReviewKeeps, CommitWrittenKeeps DEF Writing

\* What holds in a writing or review stage: at most a drawing document is kept.
LEMMA WritingRun ==
  ASSUME Inductive, stage \in WriteStages \cup ReviewStages
  PROVE  /\ Writing /\ stage # None /\ phase = "AwaitingLlm" /\ kept \in KeptTypes
         /\ [kept EXCEPT !.image = None] = Nothing
         /\ stage \in ReviewStages => kept.image \in Ddl
         /\ kept.image = None => kept = Nothing
         /\ kept.stage1 = None /\ kept.plan = FALSE /\ kept.composition = None
         /\ kept.laws = None /\ kept.colors = None
<1>1. stage # None
  BY NoneAssumption DEF WriteStages, ReviewStages, Stages, ImageStages, DescriptionStages
<1>2. kept \in KeptTypes /\ KeptMatchesPhase /\ phase = "AwaitingLlm"
  BY <1>1, Asking DEF Inductive, TypeOK, SnapshotValid
<1>3. Writing
  BY <1>1, <1>2, Asking, ImageRunHolds
  DEF Writing, Inductive, RouteOfRun, RouteFor, WriteStages, ReviewStages, Stages,
      ImageStages, DescriptionStages, OfDescription
<1>4. /\ kept.stage1 = None /\ kept.plan = FALSE /\ kept.composition = None
      /\ kept.laws = None /\ kept.colors = None
  BY <1>2 DEF KeptMatchesPhase, WriteStages, ReviewStages, KeptTypes
<1> DEFINE k == [kept EXCEPT !.image = None]
<1>5. /\ k \in KeptTypes /\ k.stage1 = None /\ k.plan = FALSE /\ k.composition = None
      /\ k.laws = None /\ k.colors = None /\ k.image = None
  BY <1>2, <1>4 DEF KeptTypes
<1>6. k = Nothing
  BY <1>5, EmptyKept
<1>7. kept.image = None => kept = Nothing
  BY <1>2, <1>4, EmptyKept
<1>8. stage \in ReviewStages => kept.image \in Ddl
  BY <1>2 DEF KeptTypes, Inductive, KeptIsThere
<1> QED BY <1>1, <1>2, <1>3, <1>4, <1>6, <1>7, <1>8

LEMMA KeptWrittenKeeps ==
  ASSUME Inductive, Outside, stage \in WriteStages \cup ReviewStages, KeptWritten
  PROVE  Inductive'
<1>1. CASE stage \in ReviewStages /\ CommitWritten(kept.image)
  BY <1>1, WritingRun, CommitWrittenKeeps
<1>2. CASE kept.image # None /\ AfterWritten(kept.image)
  <2>1. kept.image \in Ddl
    BY <1>2, WritingRun DEF KeptTypes
  <2> QED BY <1>2, <2>1, WritingRun, AfterWrittenKeeps
<1>3. CASE kept.image = None /\ NothingWritten
  <2>1. /\ kept' = Nothing /\ basis' \in Ddl \cup {None, Open} /\ phase # "Cancelled"
        /\ Settle("Failed") /\ UNCHANGED <<delivery, run>>
    BY <1>3, WritingRun DEF NothingWritten, Inductive, TypeOK
  <2> QED BY <2>1, StopKeeps
<1> QED BY <1>1, <1>2, <1>3 DEF KeptWritten

\* What holds while the colors are asked.
LEMMA ColorsKept ==
  ASSUME Inductive, stage = "ChooseColors"
  PROVE  /\ kept.colors \in Ddl /\ stage # None /\ phase = "AwaitingLlm"
         /\ basis \in Ddl \cup {None, Open}
<1>1. stage # None
  BY NoneAssumption DEF Stages
<1> QED BY <1>1, Asking DEF Inductive, TypeOK, KeptTypes, KeptIsThere

LEMMA ColorsFallbackKeeps ==
  ASSUME Inductive, Outside, stage = "ChooseColors", ColorsFallback
  PROVE  Inductive'
  BY ColorsKept, CommitWrittenDocumentKeeps, CommitStage1Keeps DEF ColorsFallback

\* The stages before anything is written or settled keep nothing.
LEMMA EarlyStage ==
  ASSUME Inductive,
         stage \in {"SelectDescriptionCatalog", "SelectImageCatalog",
                    "ReadDescription", "ComposeDescription"}
  PROVE  /\ stage # None /\ phase = "AwaitingLlm" /\ kept = Nothing /\ ImageRun
         /\ run \in RunTypes
         /\ stage = "SelectImageCatalog" => run.image
         /\ stage # "SelectImageCatalog" => ProposeStage1Result(authority) # NoProposal
         /\ stage \in {"ReadDescription", "ComposeDescription"} => run.reading # "none"
<1>1. stage # None
  BY NoneAssumption DEF Stages, ImageStages, DescriptionStages
<1>2. kept = Nothing
  BY <1>1, Asking, NothingKept DEF WriteStages, ReviewStages
<1>3. stage # "SelectImageCatalog" => ProposeStage1Result(authority) # NoProposal
  BY DEF Inductive, RouteOfRun, RouteFor, Stages, ImageStages, DescriptionStages
<1>4. /\ stage = "SelectImageCatalog" => run.image
      /\ stage \in {"ReadDescription", "ComposeDescription"} => run.reading # "none"
  BY DEF Inductive, RouteOfRun, RouteFor, ImageStages, DescriptionStages
<1> QED BY <1>1, <1>2, <1>3, <1>4, Asking, ImageRunHolds DEF Inductive, TypeOK

LEMMA BeginWriteImageKeeps ==
  ASSUME Inductive, Outside, stage = "SelectImageCatalog", Begin(run, "WriteImageDdl")
  PROVE  Inductive'
<1>1. "WriteImageDdl" \in Stages \ KeepingStages
  BY DEF Stages, ImageStages, KeepingStages, ReviewStages
<1>2. RouteFor(run, "WriteImageDdl")
  BY EarlyStage DEF RouteFor, ImageRun, OfDescription, ImageStages, DescriptionStages
<1> QED BY <1>1, <1>2, EarlyStage, BeginKeeps

\* What the reading or the composition came to is recorded, then it is written.
LEMMA RecordAndWriteKeeps ==
  ASSUME Inductive, Outside, stage \in {"ReadDescription", "ComposeDescription"},
         NEW r \in RunTypes, r.reading # "none", r.image = run.image,
         r.move = run.move, WriteDescriptionDdl(r)
  PROVE  Inductive'
  BY EarlyStage, WriteDescriptionDdlKeeps

LEMMA WrittenExhaustedKeeps ==
  ASSUME Inductive, Outside, WrittenExhausted
  PROVE  Inductive'
<1>1. CASE stage = "SelectDescriptionCatalog" /\ AfterDescriptionCatalog(run)
  BY <1>1, EarlyStage, AfterDescriptionCatalogKeeps
<1>2. CASE stage = "SelectImageCatalog" /\ Begin(run, "WriteImageDdl")
  BY <1>2, BeginWriteImageKeeps
<1>3. CASE /\ stage = "ReadDescription"
           /\ WriteDescriptionDdl([run EXCEPT !.reading = "fallback"])
  <2> DEFINE r == [run EXCEPT !.reading = "fallback"]
  <2>1. r \in RunTypes /\ r.reading # "none" /\ r.image = run.image /\ r.move = run.move
    BY <1>3, EarlyStage DEF RunTypes
  <2> QED BY <1>3, <2>1, RecordAndWriteKeeps
<1>4. CASE /\ stage = "ComposeDescription"
           /\ WriteDescriptionDdl([run EXCEPT !.composition = "fallback"])
  <2> DEFINE r == [run EXCEPT !.composition = "fallback"]
  <2>1. r \in RunTypes /\ r.reading # "none" /\ r.image = run.image /\ r.move = run.move
    BY <1>4, EarlyStage DEF RunTypes
  <2> QED BY <1>4, <2>1, RecordAndWriteKeeps
<1>5. CASE stage \in WriteStages \cup ReviewStages /\ KeptWritten
  BY <1>5, KeptWrittenKeeps
<1>6. CASE stage = "ChooseColors" /\ ColorsFallback
  BY <1>6, ColorsFallbackKeeps
<1> QED BY <1>1, <1>2, <1>3, <1>4, <1>5, <1>6 DEF WrittenExhausted

-----------------------------------------------------------------------------
\* The answers of the written routes.

LEMMA CatalogAnsweredKeeps ==
  ASSUME Inductive, Outside, CatalogAnswered
  PROVE  Inductive'
<1>1. stage = "SelectDescriptionCatalog"
  BY DEF CatalogAnswered
<1>2. CASE AfterDescriptionCatalog(run)
  BY <1>1, <1>2, EarlyStage, AfterDescriptionCatalogKeeps
<1>3. CASE /\ Ask("SelectDescriptionCatalog", "choice") /\ delivery' = None
           /\ kept' = kept /\ run' = run /\ basis' = basis
  <2>1. stage' = stage /\ phase' = phase /\ authority' = authority /\ kept' = Nothing
    BY <1>1, <1>3, EarlyStage DEF Ask, Outside, saved
  <2>2. "SelectDescriptionCatalog" \in Stages /\ "choice" \in Requests
    BY DEF Stages, Requests
  <2>3. WorkTypeOK' /\ SavedTypeOK'
    BY <1>3 DEF WorkTypeOK, Inductive, TypeOK, Outside
  <2>4. KeptMatchesPhase' /\ KeptIsThere'
    BY <1>1, <2>1, EarlyStage DEF KeptMatchesPhase, KeptIsThere, Nothing, ReviewStages
  <2>5. RouteOfRun'
    BY <1>1, <1>3, <2>1, EarlyStage DEF Inductive, RouteOfRun, RouteFor, OfDescription,
       ProposeStage1Result, ProposeAdvance
  <2> QED BY <1>3, <2>2, <2>3, <2>4, <2>5, AskKeeps
<1> QED BY <1>2, <1>3 DEF CatalogAnswered

LEMMA DescriptionReadKeeps ==
  ASSUME Inductive, Outside, DescriptionRead
  PROVE  Inductive'
<1> DEFINE r == [run EXCEPT !.reading = "read"]
<1>1. stage = "ReadDescription" /\ WriteDescriptionDdl(r)
  BY DEF DescriptionRead
<1>2. r \in RunTypes /\ r.reading # "none" /\ r.image = run.image /\ r.move = run.move
  BY <1>1, EarlyStage DEF RunTypes
<1> QED BY <1>1, <1>2, RecordAndWriteKeeps

LEMMA DescriptionComposedKeeps ==
  ASSUME Inductive, Outside, NEW spent \in Nat, DescriptionComposed(spent)
  PROVE  Inductive'
<1>1. stage = "ComposeDescription" /\ stage # None
  BY EarlyStage DEF DescriptionComposed
<1>2. CASE AskAgain(spent) /\ kept' = kept
  BY <1>1, <1>2, AskAgainAsItWasKeeps
<1>3. ASSUME NEW state \in {"used", "fallback"},
             WriteDescriptionDdl([run EXCEPT !.composition = state])
      PROVE  Inductive'
  <2> DEFINE r == [run EXCEPT !.composition = state]
  <2>1. r \in RunTypes /\ r.reading # "none" /\ r.image = run.image /\ r.move = run.move
    BY <1>1, EarlyStage DEF RunTypes
  <2> QED BY <1>1, <1>3, <2>1, RecordAndWriteKeeps
<1> QED BY <1>2, <1>3 DEF DescriptionComposed

LEMMA WrittenGivenBackKeeps ==
  ASSUME Inductive, Outside, NEW spent \in Nat, WrittenGivenBack(spent)
  PROVE  Inductive'
<1>1. stage \in WriteStages \cup ReviewStages /\ AskAgain(spent)
  BY DEF WrittenGivenBack
<1>2. PICK d \in Ddl :
        kept' = IF d \in Drawable THEN [kept EXCEPT !.image = d] ELSE kept
  BY DEF WrittenGivenBack
<1>3. stage' = stage /\ phase' = phase /\ d # None
  BY <1>1, NoneAssumption DEF AskAgain, Reissue
<1>4. CASE kept' = kept
  BY <1>1, <1>4, WritingRun, AskAgainAsItWasKeeps
<1>5. CASE kept' = [kept EXCEPT !.image = d]
  <2>1. /\ kept' \in KeptTypes /\ kept'.image = d /\ kept'.stage1 = None
        /\ kept'.plan = FALSE /\ kept'.composition = None
        /\ kept'.laws = None /\ kept'.colors = None
    BY <1>1, <1>5, WritingRun DEF KeptTypes
  <2>2. KeptMatchesPhase' /\ KeptIsThere'
    BY <1>1, <1>3, <2>1 DEF KeptMatchesPhase, KeptIsThere, ReviewStages, WriteStages
  <2> QED BY <1>1, <2>1, <2>2, WritingRun, AskAgainKeeps
<1> QED BY <1>2, <1>4, <1>5

LEMMA WrittenUsableKeeps ==
  ASSUME Inductive, Outside, WrittenUsable
  PROVE  Inductive'
<1>1. stage \in WriteStages \cup ReviewStages
  BY DEF WrittenUsable
<1>2. PICK d \in Drawable :
        \/ AfterWritten(d)
        \/ \E fitted \in Fitted(d) : CommitWritten(fitted)
  BY DEF WrittenUsable
<1>3. d \in Ddl
  BY <1>2, DocumentsAssumption
<1>4. CASE AfterWritten(d)
  BY <1>1, <1>3, <1>4, WritingRun, AfterWrittenKeeps
<1>5. ASSUME NEW fitted \in Fitted(d), CommitWritten(fitted) PROVE Inductive'
  BY <1>1, <1>3, <1>5, FittedType, WritingRun, CommitWrittenKeeps
<1> QED BY <1>2, <1>4, <1>5

LEMMA ColorsAnsweredKeeps ==
  ASSUME Inductive, Outside, NEW spent \in Nat, ColorsAnswered(spent)
  PROVE  Inductive'
<1>1. stage = "ChooseColors"
  BY DEF ColorsAnswered
<1>2. ASSUME NEW d \in Canonical \cap Drawable,
             CommitWrittenDocument(d) \/ CommitStage1(d, basis)
      PROVE  Inductive'
  <2>1. d \in Ddl
    BY DocumentsAssumption
  <2> QED BY <1>1, <1>2, <2>1, ColorsKept, CommitWrittenDocumentKeeps, CommitStage1Keeps
<1>3. CASE AskAgain(spent) /\ kept' = kept
  BY <1>1, <1>3, ColorsKept, AskAgainAsItWasKeeps
<1>4. CASE ColorsFallback
  BY <1>1, <1>4, ColorsFallbackKeeps
<1> QED BY <1>2, <1>3, <1>4 DEF ColorsAnswered

\* The drawing the host was asked for comes back, or not.
LEMMA ReviewDrawingKeeps ==
  ASSUME Inductive, ReviewDrawn \/ ReviewUndrawn
  PROVE  Inductive'
<1>1. phase = "AwaitingImageReviewDrawing" /\ Outside
  BY DEF ReviewDrawn, ReviewUndrawn, Outside, saved, SavedTypeOK, Inductive, TypeOK
<1>2. /\ KeptMatchesPhase /\ StageMatchesRun /\ stage = None
      /\ kept \in KeptTypes /\ run \in RunTypes /\ kept.image # None
  BY <1>1 DEF Inductive, TypeOK, LiveSnapshotValid, SnapshotValid, PhasePayload,
     KeptIsThere
<1>3. Writing
  BY <1>1, <1>2, ImageRunHolds DEF Writing, Inductive, RouteOfRun, StageMatchesRun
<1>4. /\ kept.stage1 = None /\ kept.plan = FALSE /\ kept.composition = None
      /\ kept.laws = None /\ kept.colors = None /\ kept.image \in Ddl
  BY <1>2, NoneAssumption DEF KeptMatchesPhase, KeptTypes, Stages
<1>5. [kept EXCEPT !.image = None] = Nothing
  <2> DEFINE k == [kept EXCEPT !.image = None]
  <2>1. /\ k \in KeptTypes /\ k.stage1 = None /\ k.plan = FALSE /\ k.composition = None
        /\ k.laws = None /\ k.colors = None /\ k.image = None
    BY <1>2, <1>4 DEF KeptTypes
  <2> QED BY <2>1, EmptyKept
<1>6. CASE CommitWritten(kept.image)
  BY <1>1, <1>3, <1>4, <1>5, <1>6, CommitWrittenKeeps
<1>7. ASSUME NEW st \in ReviewStages, Begin(run, st),
             st = IF OfDescription THEN "ReviewDescriptionDdl" ELSE "ReviewImageDdl"
      PROVE  Inductive'
  <2>1. /\ kept' = kept /\ run' = run /\ basis' = basis /\ BeginLlm(st)
        /\ stage' = st /\ phase' = "AwaitingLlm" /\ st \in Stages
        /\ basis' \in Ddl \cup {None, Open}
    BY <1>7 DEF Begin, BeginLlm, Ask, ReviewStages, Stages, ImageStages,
       DescriptionStages, Inductive, TypeOK
  <2>2. KeptMatchesPhase' /\ KeptIsThere'
    BY <1>2, <1>4, <2>1 DEF KeptMatchesPhase, KeptIsThere, ReviewStages
  <2>3. RouteFor(run', st)
    BY <1>3, <1>7, <2>1 DEF RouteFor, Writing, ImageRun, OfDescription, ImageStages,
       DescriptionStages
  <2> QED BY <1>1, <1>2, <2>1, <2>2, <2>3, BeginLlmKeeps
<1> QED BY <1>6, <1>7 DEF ReviewDrawn, ReviewUndrawn, ReviewStages

-----------------------------------------------------------------------------
\* Starts.

LEMMA InitKeeps == Init => Inductive
<1> SUFFICES ASSUME Init PROVE Inductive
  OBVIOUS
<1>1. TypeOK
  <2>1. Nothing \in KeptTypes /\ NoRun \in RunTypes
    BY DEF KeptTypes, Nothing, RunTypes, NoRun
  <2>2. authority \in VariationAuthority /\ ordinal \in 0..MaxOrdinal
    BY NewAuthorityType, ConfigAssumption DEF Init
  <2> QED BY <2>1, <2>2 DEF Init, TypeOK, Phases
<1>2. LiveSnapshotValid
  BY NoneAssumption
  DEF Init, LiveSnapshotValid, SnapshotValid, KeptMatchesPhase, Nothing,
      StageMatchesRun, NoRun, OfDescription, DeliveryMatchesDocument, Resting,
      ActionMatchesPhase, ImageStages, DescriptionStages, Stages
<1>3. /\ PhasePayload /\ NothingBeforeStart /\ CommitIsProposed /\ StageHasTime
  BY DEF Init, PhasePayload, NothingBeforeStart, CommitIsProposed, StageHasTime
<1>4. KeptIsThere
  BY NoneAssumption
  DEF Init, KeptIsThere, ReviewStages, ImageStages, DescriptionStages, Stages
<1>5. RouteOfRun
  BY NoneAssumption
  DEF Init, RouteOfRun, RouteFor, NoRun, ImageStages, DescriptionStages, Stages
<1> QED BY <1>1, <1>2, <1>3, <1>4, <1>5 DEF Inductive

\* A request for a description run has no image and no saved work.
LEMMA DescriptionRunsType ==
  ASSUME run \in RunTypes, NEW r \in DescriptionRuns
  PROVE  r \in RunTypes /\ r.image = run.image /\ r.move = run.move
<1>1. ASSUME NEW s \in {"none", "pending", "supplied"},
             r = [run EXCEPT !.sketch = s, !.reading = "none", !.composition = "none"]
      PROVE  r \in RunTypes /\ r.image = run.image /\ r.move = run.move
  BY <1>1 DEF RunTypes
<1>2. ASSUME NEW reading \in {"off", "pending", "supplied"},
             NEW c \in {"none", "pending"},
             r = [run EXCEPT !.sketch = "none", !.reading = reading, !.composition = c]
      PROVE  r \in RunTypes /\ r.image = run.image /\ r.move = run.move
  BY <1>2 DEF RunTypes
<1> QED BY <1>1, <1>2 DEF DescriptionRuns

LEMMA DescriptionKeeps ==
  ASSUME Inductive, Outside, kept = Nothing, phase # "Cancelled",
         NEW r \in DescriptionRuns, NEW auto_catalog \in BOOLEAN,
         Description(r, auto_catalog)
  PROVE  Inductive'
<1>1. /\ r \in RunTypes /\ r.image = run.image /\ r.move = run.move /\ ImageRun
      /\ ProposeStage1Result(authority) # NoProposal
      /\ authority.authority = "description_authoritative"
  BY DescriptionRunsType, ImageRunHolds DEF Inductive, TypeOK, Description,
     ProposeStage1Result
<1>2. CASE AfterDescriptionCatalog(r)
  BY <1>1, <1>2, AfterDescriptionCatalogKeeps
<1>3. CASE Begin(r, "SelectDescriptionCatalog")
  <2>1. "SelectDescriptionCatalog" \in Stages \ KeepingStages
    BY DEF Stages, KeepingStages, ReviewStages
  <2>2. RouteFor(r, "SelectDescriptionCatalog")
    BY <1>1 DEF RouteFor, ImageRun, ImageStages, DescriptionStages
  <2> QED BY <1>1, <1>3, <2>1, <2>2, BeginKeeps
<1> QED BY <1>2, <1>3 DEF Description

\* The snapshot a start begins from.
LEMMA BeforeStart ==
  ASSUME Inductive, phase = "AuthoringStarted"
  PROVE  kept = Nothing /\ run = NoRun /\ document = None /\ delivery = None /\ ImageRun
  BY ImageRunHolds DEF Inductive, NothingBeforeStart

LEMMA StartDescriptionKeeps ==
  ASSUME Inductive, StartDescription
  PROVE  Inductive'
<1>1. phase = "AuthoringStarted" /\ Outside
  BY DEF StartDescription, Outside, saved, SavedTypeOK, Inductive, TypeOK
<1> QED BY <1>1, BeforeStart, DescriptionKeeps DEF StartDescription

LEMMA StartDirectDdlKeeps ==
  ASSUME Inductive, StartDirectDdl
  PROVE  Inductive'
<1>1. /\ phase = "AuthoringStarted" /\ Outside /\ basis' \in Ddl \cup {None, Open}
      /\ run' = run /\ authority' = authority /\ run \in RunTypes
  BY DEF StartDirectDdl, Outside, saved, SavedTypeOK, Inductive, TypeOK
<1>2. ImageRun'
  BY <1>1, BeforeStart DEF ImageRun, OfDescription
<1>3. PICK d \in Ddl :
        CommitDocument(d, "direct_ddl", ProposeUserMutation(authority), FALSE)
  BY DEF StartDirectDdl
<1>4. "direct_ddl" \in Reasons
  BY DEF Reasons
<1> QED BY <1>1, <1>2, <1>3, <1>4, CommitKeeps

LEMMA StartSavedLawsKeeps ==
  ASSUME Inductive, StartSavedLaws
  PROVE  Inductive'
<1>1. /\ phase = "AuthoringStarted" /\ Outside /\ authority = NewDirectDdl
      /\ authority' = authority /\ document' = document
      /\ run' = [run EXCEPT !.move = TRUE]
  BY DEF StartSavedLaws, Outside, saved, SavedTypeOK, Inductive, TypeOK
<1>2. kept = Nothing /\ run = NoRun /\ delivery = None
  BY <1>1, BeforeStart
<1>3. /\ run' \in RunTypes /\ run'.move = TRUE /\ run'.image = FALSE
      /\ run'.reading = "none"
  BY <1>1, <1>2 DEF RunTypes, NoRun
<1>4. CASE /\ Settle("Failed") /\ delivery' = delivery /\ kept' = kept
           /\ basis' = basis
  <2>1. WorkTypeOK' /\ SavedTypeOK'
    BY <1>1, <1>3, <1>4 DEF WorkTypeOK, Inductive, TypeOK, Outside
  <2>2. ImageRun'
    BY <1>1, <1>3 DEF ImageRun, OfDescription, NewDirectDdl
  <2>3. "Failed" \in Resting \ {"ScoreReady", "Completed"}
    BY DEF Resting
  <2> QED BY <1>2, <1>4, <2>1, <2>2, <2>3, SettleKeeps
<1>5. ASSUME NEW base \in Drawable, kept' = [kept EXCEPT !.laws = base],
             BeginLlm("ChooseLaws"), basis' = basis
      PROVE  Inductive'
  <2>1. base \in Ddl /\ basis' \in Ddl \cup {None, Open}
    BY <1>5, DocumentsAssumption DEF Inductive, TypeOK
  <2>2. RouteFor(run', "ChooseLaws")
    BY <1>1, <1>3 DEF RouteFor, NewDirectDdl, ImageStages, DescriptionStages
  <2> QED BY <1>1, <1>2, <1>3, <1>5, <2>1, <2>2, BeginKeepingKeeps
<1> QED BY <1>4, <1>5 DEF StartSavedLaws

LEMMA StartImageKeeps ==
  ASSUME Inductive, StartImage
  PROVE  Inductive'
<1>1. phase = "AuthoringStarted" /\ Outside /\ authority = NewDirectDdl
  BY DEF StartImage, Outside, saved, SavedTypeOK, Inductive, TypeOK
<1>2. kept = Nothing /\ run = NoRun
  BY <1>1, BeforeStart
<1> DEFINE r == [run EXCEPT !.image = TRUE]
<1>3. /\ r \in RunTypes /\ r.image = TRUE /\ r.reading = "none" /\ r.move = FALSE
  BY <1>2 DEF RunTypes, NoRun
<1>4. PICK st \in {"SelectImageCatalog", "WriteImageDdl"} : Begin(r, st)
  BY DEF StartImage
<1>5. st \in Stages \ KeepingStages
  BY DEF Stages, ImageStages, KeepingStages, ReviewStages
<1>6. RouteFor(r, st)
  BY <1>1, <1>3 DEF RouteFor, NewDirectDdl, ImageStages, DescriptionStages
<1> QED BY <1>1, <1>2, <1>3, <1>4, <1>5, <1>6, BeginKeeps

-----------------------------------------------------------------------------
\* Provider results.

LEMMA ReplyOutside ==
  ASSUME Inductive, Reply
  PROVE  Outside /\ phase = "AwaitingLlm" /\ stage # None
  BY DEF Reply, Outside, saved, SavedTypeOK, Inductive, TypeOK, PhasePayload

\* A completion has nothing kept.
LEMMA HolesStage ==
  ASSUME Inductive, stage = "CompleteVisibleDdlHoles"
  PROVE  stage # None /\ kept = Nothing /\ phase = "AwaitingLlm"
<1>1. stage # None
  BY NoneAssumption DEF Stages
<1> QED BY <1>1, Asking, NothingKept
  DEF WriteStages, ReviewStages

LEMMA FailKeeps ==
  ASSUME Inductive, Reply, NEW spent \in Nat, NEW failure, Fail(failure, spent)
  PROVE  Inductive'
<1> DEFINE total == elapsed + spent
           next  == NextAttempt(RetryPolicy(stage), action.attempt, total, failure)
<1>1. Outside /\ phase = "AwaitingLlm" /\ stage # None /\ total \in Nat
  BY ReplyOutside, Asking
<1>2. CASE stage = "GenerateNormalizedDdl" /\ kept.stage1 # None /\ CommitStage1Fallback
  BY <1>1, <1>2, CommitStage1FallbackKeeps
<1>3. CASE next # None /\ Retry(next, total)
  <2>1. next = NextBudgetedAttempt(RetryPolicy(stage), action.attempt, total)
    BY <1>3, NextAttemptInBudget
  <2> HIDE DEF next, total
  <2> QED BY <1>1, <1>3, <2>1, RetryKeeps
<1>4. CASE /\ stage = "CompleteVisibleDdlHoles" /\ Settle("NeedsUserEdit")
           /\ UNCHANGED <<delivery, kept, run, basis>>
  <2>1. kept' = Nothing /\ basis' \in Ddl \cup {None, Open}
    BY <1>4, HolesStage DEF Inductive, TypeOK
  <2> QED BY <1>1, <1>4, <2>1, StopKeeps
<1>5. CASE /\ ~(stage = "GenerateNormalizedDdl" /\ kept.stage1 # None)
           /\ StagesExhausted \/ WrittenExhausted
  BY <1>1, <1>5, StagesExhaustedKeeps, WrittenExhaustedKeeps
<1> QED BY <1>2, <1>3, <1>4, <1>5 DEF Fail

LEMMA HolesAnsweredKeeps ==
  ASSUME Inductive, NEW spent \in Nat, HolesAnswered(spent)
  PROVE  Inductive'
<1>1. /\ Outside /\ stage = "CompleteVisibleDdlHoles" /\ stage # None
      /\ phase = "AwaitingLlm" /\ kept = Nothing
  BY ReplyOutside, HolesStage DEF HolesAnswered
<1>2. /\ delivery # None => delivery = document
      /\ authority' = authority /\ document' = document /\ ImageRun
  BY <1>1, Asking, ImageRunHolds DEF SnapshotValid, DeliveryMatchesDocument, Outside, saved
<1>3. CASE AskAgain(spent) /\ kept' = kept
  BY <1>1, <1>3, AskAgainAsItWasKeeps
<1>4. CASE /\ Settle(IF delivery \in Drawable THEN "ScoreReady" ELSE "NeedsUserEdit")
           /\ UNCHANGED <<delivery, kept, run, basis>>
  <2> DEFINE to == IF delivery \in Drawable THEN "ScoreReady" ELSE "NeedsUserEdit"
  <2>1. to \in Resting /\ (to \in {"ScoreReady", "Completed"} => delivery' \in Drawable)
    BY <1>4 DEF Resting
  <2>2. WorkTypeOK' /\ SavedTypeOK' /\ kept' = Nothing
    BY <1>1, <1>4 DEF WorkTypeOK, Inductive, TypeOK, Outside
  <2>3. ImageRun' /\ (delivery' # None => delivery' = document')
    BY <1>2, <1>4 DEF ImageRun, OfDescription
  <2> HIDE DEF to
  <2>4. Settle(to)
    BY <1>4 DEF to
  <2> QED BY <2>1, <2>2, <2>3, <2>4, SettleKeeps
<1>5. ASSUME NEW d \in Ddl,
             phase' = "AwaitingPatchApproval", stage' = None, elapsed' = 0,
             patch' = [candidate |-> d, base |-> authority.revision],
             action' = None, commit' = None,
             UNCHANGED <<ordinal, delivery, kept, run, basis>>
      PROVE  Inductive'
  <2>1. patch' \in Patches /\ patch' # None
    BY <1>5, NoneAssumption DEF Patches, Inductive, TypeOK, VariationAuthority
  <2>2. TypeOK'
    BY <1>1, <1>5, <2>1 DEF Inductive, TypeOK, Outside, SavedTypeOK, Phases
  <2>3. ImageRun'
    BY <1>2, <1>5 DEF ImageRun, OfDescription
  <2>4. RouteOfRun' /\ StageHasTime' /\ StageMatchesRun'
    BY <1>5, <2>3, NoStage DEF StageMatchesRun, ImageRun, DescriptionStages
  <2>5. KeptMatchesPhase' /\ DeliveryMatchesDocument' /\ ActionMatchesPhase'
    BY <1>1, <1>2, <1>5 DEF KeptMatchesPhase, Nothing, DeliveryMatchesDocument,
       ActionMatchesPhase
  <2>6. KeptIsThere'
    BY <1>5, <2>3, NoStage, NoneAssumption DEF KeptIsThere, Stages
  <2>7. PhasePayload' /\ NothingBeforeStart' /\ CommitIsProposed'
    BY <1>5, <2>1 DEF PhasePayload, NothingBeforeStart, CommitIsProposed
  <2> QED BY <2>2, <2>4, <2>5, <2>6, <2>7 DEF Inductive, LiveSnapshotValid, SnapshotValid
<1> QED BY <1>3, <1>4, <1>5 DEF HolesAnswered

LEMMA ProviderAnsweredKeeps ==
  ASSUME Inductive, NEW spent \in Nat, ProviderAnswered(spent)
  PROVE  Inductive'
<1>1. CASE ProviderFailed(spent) \/ LateAnswer(spent)
  BY <1>1, FailKeeps DEF ProviderFailed, LateAnswer
<1>2. CASE UnreadableAnswer(spent) \/ RefusedAnswer(spent)
  BY <1>2, FailKeeps DEF UnreadableAnswer, RefusedAnswer
<1>3. CASE StageAnswered(spent)
  <2>1. Outside /\ stage # None
    BY <1>3, ReplyOutside DEF StageAnswered
  <2>2. CASE SketchAnswered
    BY <2>1, <2>2, FinishSketchKeeps DEF SketchAnswered
  <2>3. CASE CanonicalAnswered(spent) \/ NonCanonicalAnswered(spent)
    BY <2>1, <2>3, CanonicalAnsweredKeeps, NonCanonicalAnsweredKeeps
  <2>4. CASE CompositionAnswered
    BY <2>1, <2>4, ReadCompositionKeeps DEF CompositionAnswered
  <2>5. CASE LawsAnswered(spent) \/ ColorsAnswered(spent)
    BY <2>1, <2>5, LawsAnsweredKeeps, ColorsAnsweredKeeps
  <2> QED BY <1>3, <2>2, <2>3, <2>4, <2>5 DEF StageAnswered
<1>4. CASE WrittenAnswered(spent)
  <2>1. Outside /\ stage # None
    BY <1>4, ReplyOutside DEF WrittenAnswered
  <2>2. CASE CatalogAnswered
    BY <2>1, <2>2, CatalogAnsweredKeeps
  <2>3. CASE ImageCatalogAnswered
    BY <2>1, <2>3, BeginWriteImageKeeps DEF ImageCatalogAnswered
  <2>4. CASE DescriptionRead \/ DescriptionComposed(spent)
    BY <2>1, <2>4, DescriptionReadKeeps, DescriptionComposedKeeps
  <2>5. CASE WrittenGivenBack(spent) \/ WrittenUsable
    BY <2>1, <2>5, WrittenGivenBackKeeps, WrittenUsableKeeps
  <2>6. CASE WrittenUndrawable
    BY <2>1, <2>6, KeptWrittenKeeps DEF WrittenUndrawable
  <2> QED BY <1>4, <2>2, <2>3, <2>4, <2>5, <2>6 DEF WrittenAnswered
<1>5. CASE HolesAnswered(spent)
  BY <1>5, HolesAnsweredKeeps
<1> QED BY <1>1, <1>2, <1>3, <1>4, <1>5 DEF ProviderAnswered

-----------------------------------------------------------------------------
\* Commit results.

LEMMA VisibleDdlCommittedKeeps ==
  ASSUME Inductive, VisibleDdlCommitted
  PROVE  Inductive'
<1> DEFINE d == commit.document
<1>1. /\ phase = "AwaitingVisibleDdlCommit" /\ commit \in Commits /\ stage = None
      /\ commit.next \in VariationAuthority /\ d \in Ddl /\ commit.reason \in Reasons
      /\ commit.next \in {ProposeUserMutation(authority), ProposeStage1Result(authority)}
      /\ kept' = kept /\ run' = run /\ basis' = basis /\ config' = config
      /\ commands' = commands
  BY DEF VisibleDdlCommitted, Inductive, TypeOK, PhasePayload, Commits, CommitIsProposed
<1>2. kept = Nothing /\ d # None /\ ImageRun
  <2>1. stage \notin {"GenerateNormalizedDdl", "ReadComposition", "ChooseLaws",
                      "ChooseColors"} \cup WriteStages \cup ReviewStages
    BY <1>1, NoneAssumption DEF WriteStages, ReviewStages, Stages, ImageStages,
       DescriptionStages
  <2> QED BY <1>1, <2>1, NothingKept, ImageRunHolds, NoneAssumption
<1>3. /\ authority' = commit.next /\ document' = d /\ committed' = commit.reason
      /\ ranges' \in BOOLEAN
  BY <1>1 DEF VisibleDdlCommitted, Acknowledged, Commits, Inductive, TypeOK
<1>4. SavedTypeOK'
  BY <1>1, <1>3 DEF SavedTypeOK, Inductive, TypeOK
<1>5. ImageRun'
  <2>1. NoProposal \notin VariationAuthority
    BY DEF NoProposal, VariationAuthority
  <2>2. /\ commit.next.authority = "description_authoritative" =>
             authority.authority = "description_authoritative"
    BY <1>1, <2>1, ProposalType DEF Inductive, TypeOK
  <2> QED BY <1>1, <1>2, <1>3, <2>2 DEF ImageRun, OfDescription
<1>6. WorkTypeOK' <=> delivery' \in Ddl \cup {None}
  BY <1>1 DEF WorkTypeOK, Inductive, TypeOK
<1> HIDE DEF d
<1>7. CASE Settle("Failed") /\ delivery' = None
  <2>1. "Failed" \in Resting \ {"ScoreReady", "Completed"}
    BY DEF Resting
  <2> QED BY <1>1, <1>2, <1>4, <1>5, <1>6, <1>7, <2>1, SettleKeeps
<1>8. CASE /\ Settle(IF d \in Drawable THEN "ScoreReady" ELSE "NeedsUserEdit")
           /\ delivery' = d
  <2> DEFINE to == IF d \in Drawable THEN "ScoreReady" ELSE "NeedsUserEdit"
  <2>1. to \in Resting /\ (to \in {"ScoreReady", "Completed"} => delivery' \in Drawable)
    BY <1>8 DEF Resting
  <2>2. WorkTypeOK' /\ delivery' = document' /\ Settle(to)
    BY <1>1, <1>3, <1>6, <1>8 DEF d
  <2> HIDE DEF to
  <2> QED BY <1>1, <1>2, <1>4, <1>5, <2>1, <2>2, SettleKeeps
<1>9. CASE Ask("CompleteVisibleDdlHoles", "first") /\ delivery' = d
  <2>1. /\ stage' = "CompleteVisibleDdlHoles" /\ phase' = "AwaitingLlm"
        /\ kept' = Nothing
    BY <1>1, <1>2, <1>9 DEF Ask
  <2>2. KeptMatchesPhase' /\ KeptIsThere'
    BY <2>1 DEF KeptMatchesPhase, KeptIsThere, Nothing, ReviewStages
  <2>3. RouteOfRun'
    BY <1>5, <2>1 DEF RouteOfRun, RouteFor, ImageRun, OfDescription, ImageStages,
       DescriptionStages
  <2>4. "CompleteVisibleDdlHoles" \in Stages /\ "first" \in Requests
    BY DEF Stages, Requests
  <2>5. WorkTypeOK' /\ (delivery' # None => delivery' = document')
    BY <1>1, <1>3, <1>6, <1>9 DEF d
  <2> QED BY <1>4, <1>9, <2>2, <2>3, <2>4, <2>5, AskKeeps
<1>10. CASE Settle("NeedsUserEdit") /\ delivery' = d
  <2>1. "NeedsUserEdit" \in Resting \ {"ScoreReady", "Completed"}
    BY DEF Resting
  <2>2. WorkTypeOK' /\ (delivery' # None => delivery' = document')
    BY <1>1, <1>3, <1>6, <1>10 DEF d
  <2> QED BY <1>1, <1>2, <1>4, <1>5, <1>10, <2>1, <2>2, SettleKeeps
<1> QED BY <1>7, <1>8, <1>9, <1>10 DEF VisibleDdlCommitted, Acknowledged, CompleteHoles, d

LEMMA HostCommitFailedKeeps ==
  ASSUME Inductive, HostCommitFailed
  PROVE  Inductive'
<1>1. /\ phase = "AwaitingVisibleDdlCommit" /\ stage = None /\ Outside
      /\ Settle("Failed") /\ UNCHANGED <<delivery, kept, run>>
      /\ basis' \in Ddl \cup {None, Open}
  BY DEF HostCommitFailed, Outside, saved, SavedTypeOK, Inductive, TypeOK, PhasePayload
<1>2. kept = Nothing
  BY <1>1, NothingKept, NoneAssumption DEF WriteStages, ReviewStages, Stages,
     ImageStages, DescriptionStages
<1> QED BY <1>1, <1>2, StopKeeps

-----------------------------------------------------------------------------
\* Author commands.

\* A command that starts work again finds nothing kept.
LEMMA AtRest ==
  ASSUME Inductive, phase \in Resting \cup {"AwaitingPatchApproval"}
  PROVE  /\ kept = Nothing /\ stage = None /\ phase # "Cancelled" /\ ImageRun
         /\ phase # "AwaitingVisibleDdlCommit"
         /\ delivery # None => delivery = document
<1>1. /\ phase # "Cancelled" /\ phase # "AwaitingImageReviewDrawing" /\ stage = None
      /\ phase # "AwaitingVisibleDdlCommit"
  BY DEF Resting, Inductive, TypeOK, PhasePayload
<1>2. kept = Nothing
  BY <1>1, NothingKept, NoneAssumption DEF WriteStages, ReviewStages, Stages,
     ImageStages, DescriptionStages
<1> QED BY <1>1, <1>2, ImageRunHolds
  DEF Inductive, LiveSnapshotValid, SnapshotValid, DeliveryMatchesDocument

LEMMA CommandOutside ==
  ASSUME Inductive, NEW name, TakeCommand(name)
  PROVE  Outside /\ phase \in Resting
  BY ConfigAssumption
  DEF TakeCommand, Editable, Outside, saved, SavedTypeOK, Inductive, TypeOK

\* A commit the author asked for, from rest or from a proposed completion.
LEMMA AuthorCommitKeeps ==
  ASSUME Inductive, Outside, phase \in Resting \cup {"AwaitingPatchApproval"},
         NEW d \in Ddl, NEW reason \in Reasons, NEW rng \in BOOLEAN,
         CommitDocument(d, reason, ProposeUserMutation(authority), rng),
         UNCHANGED <<run, basis>>
  PROVE  Inductive'
<1>1. /\ run' \in RunTypes /\ basis' \in Ddl \cup {None, Open} /\ ImageRun'
      /\ phase # "Cancelled"
  BY AtRest DEF ImageRun, OfDescription, Outside, saved, Inductive, TypeOK
<1> QED BY <1>1, CommitKeeps

LEMMA CommitUserDdlKeeps ==
  ASSUME Inductive, CommitUserDdl
  PROVE  Inductive'
<1>1. Outside /\ phase \in Resting /\ UNCHANGED <<run, basis>>
  BY CommandOutside DEF CommitUserDdl
<1>2. "user_ddl_mutation" \in Reasons
  BY DEF Reasons
<1> QED BY <1>1, <1>2, AuthorCommitKeeps DEF CommitUserDdl

LEMMA GenerateFromDescriptionKeeps ==
  ASSUME Inductive, GenerateFromDescription
  PROVE  Inductive'
<1>1. Outside /\ phase \in Resting
  BY CommandOutside DEF GenerateFromDescription
<1> QED BY <1>1, AtRest, DescriptionKeeps DEF GenerateFromDescription

LEMMA CompleteHolesCommandKeeps ==
  ASSUME Inductive, CompleteHolesCommand
  PROVE  Inductive'
<1>1. /\ Outside /\ phase \in Resting /\ delivery' = delivery /\ kept' = kept
      /\ run' = run /\ basis' = basis
      /\ Ask("CompleteVisibleDdlHoles", "first") \/ Settle("NeedsUserEdit")
  BY CommandOutside DEF CompleteHolesCommand, CompleteHoles
<1>2. /\ kept' = Nothing /\ ImageRun' /\ phase # "Cancelled"
      /\ delivery' # None => delivery' = document'
  BY <1>1, AtRest DEF ImageRun, OfDescription, Outside, saved
<1>3. WorkTypeOK' /\ SavedTypeOK'
  BY <1>1 DEF WorkTypeOK, Inductive, TypeOK, Outside
<1>4. CASE Settle("NeedsUserEdit")
  <2>1. "NeedsUserEdit" \in Resting \ {"ScoreReady", "Completed"}
    BY DEF Resting
  <2> QED BY <1>2, <1>3, <1>4, <2>1, SettleKeeps
<1>5. CASE Ask("CompleteVisibleDdlHoles", "first")
  <2>1. stage' = "CompleteVisibleDdlHoles" /\ phase' = "AwaitingLlm"
    BY <1>5 DEF Ask
  <2>2. KeptMatchesPhase' /\ KeptIsThere'
    BY <1>2, <2>1 DEF KeptMatchesPhase, KeptIsThere, Nothing, ReviewStages
  <2>3. RouteOfRun'
    BY <1>2, <2>1 DEF RouteOfRun, RouteFor, ImageRun, OfDescription, ImageStages,
       DescriptionStages
  <2>4. "CompleteVisibleDdlHoles" \in Stages /\ "first" \in Requests
    BY DEF Stages, Requests
  <2> QED BY <1>2, <1>3, <1>5, <2>1, <2>2, <2>3, <2>4, AskKeeps
<1> QED BY <1>1, <1>4, <1>5

LEMMA ApprovePatchKeeps ==
  ASSUME Inductive, ApprovePatch
  PROVE  Inductive'
<1>1. /\ phase = "AwaitingPatchApproval" /\ Outside /\ UNCHANGED <<run, basis>>
      /\ patch.candidate \in Ddl
  BY DEF ApprovePatch, Outside, saved, SavedTypeOK, Inductive, TypeOK, PhasePayload,
     Patches
<1>2. "user_approved_patch" \in Reasons
  BY DEF Reasons
<1>3. PICK rng \in BOOLEAN :
        CommitDocument(patch.candidate, "user_approved_patch",
                       ProposeUserMutation(authority), rng)
  BY DEF ApprovePatch
<1> QED BY <1>1, <1>2, <1>3, AuthorCommitKeeps

LEMMA DeclinePatchKeeps ==
  ASSUME Inductive, DeclinePatch
  PROVE  Inductive'
<1>1. /\ phase = "AwaitingPatchApproval" /\ Outside /\ UNCHANGED <<delivery, kept, run>>
      /\ Settle("NeedsUserEdit") /\ basis' \in Ddl \cup {None, Open}
  BY DEF DeclinePatch, Outside, saved, SavedTypeOK, Inductive, TypeOK
<1> QED BY <1>1, AtRest, StopKeeps

LEMMA RenderKeeps ==
  ASSUME Inductive, Render
  PROVE  Inductive'
<1>1. /\ phase \in {"ScoreReady", "Completed"} /\ phase' = "Completed"
      /\ UNCHANGED <<config, authority, document, committed, stage, elapsed, action,
                     ordinal, commit, patch, delivery, kept, run, basis, ranges, commands>>
  BY DEF Render, saved
<1>2. SnapshotValid /\ kept = Nothing /\ stage = None
  BY <1>1, AtRest DEF Inductive, LiveSnapshotValid, Resting
<1>3. TypeOK'
  BY <1>1 DEF Inductive, TypeOK, Phases, Resting
<1>4. SnapshotValid'
  BY <1>1, <1>2 DEF SnapshotValid, KeptMatchesPhase, StageMatchesRun, OfDescription,
     Composed, DeliveryMatchesDocument, ActionMatchesPhase, Resting, RetryPolicy, Nothing
<1>5. /\ PhasePayload' /\ KeptIsThere' /\ NothingBeforeStart' /\ CommitIsProposed'
      /\ StageHasTime'
  BY <1>1 DEF Inductive, PhasePayload, KeptIsThere, NothingBeforeStart,
     CommitIsProposed, StageHasTime, RetryPolicy, ProposeUserMutation,
     ProposeStage1Result, ProposeAdvance
<1>6. RouteOfRun'
  BY <1>1 DEF Inductive, RouteOfRun, RouteFor, OfDescription, ProposeStage1Result,
     ProposeAdvance
<1> QED BY <1>3, <1>4, <1>5, <1>6 DEF Inductive, LiveSnapshotValid

LEMMA CancelKeeps ==
  ASSUME Inductive, Cancel
  PROVE  Inductive'
<1>1. /\ phase # "AuthoringStarted" /\ phase' = "Cancelled" /\ stage' = None
      /\ elapsed' = 0 /\ action' = None /\ commit' = None /\ patch' = None
      /\ ordinal' = ordinal /\ delivery' = None /\ Outside /\ ImageRun'
      /\ kept' = [kept EXCEPT !.stage1 = None, !.image = None]
      /\ UNCHANGED <<run, basis>>
  BY ImageRunHolds DEF Cancel, Settle, Outside, saved, SavedTypeOK, ImageRun,
     OfDescription, Inductive, TypeOK
<1>2. kept' \in KeptTypes
  BY <1>1 DEF Inductive, TypeOK, KeptTypes
<1>3. TypeOK'
  BY <1>1, <1>2 DEF Inductive, TypeOK, Outside, SavedTypeOK, Phases
<1>4. RouteOfRun' /\ StageHasTime'
  BY <1>1, NoStage
<1>5. PhasePayload' /\ NothingBeforeStart' /\ CommitIsProposed' /\ KeptIsThere'
  BY <1>1, NoneAssumption DEF PhasePayload, NothingBeforeStart, CommitIsProposed,
     KeptIsThere, ReviewStages, Stages, DescriptionStages, ImageStages
<1> QED BY <1>1, <1>3, <1>4, <1>5 DEF Inductive, LiveSnapshotValid

LEMMA StutterKeeps ==
  ASSUME Inductive, UNCHANGED vars
  PROVE  Inductive'
<1>1. UNCHANGED <<config, authority, document, committed, phase, stage, elapsed,
                  action, ordinal, commit, patch, delivery, kept, run, basis,
                  ranges, commands>>
  BY DEF vars, saved, progress
<1>2. TypeOK' /\ KeptIsThere' /\ NothingBeforeStart' /\ PhasePayload'
  BY <1>1 DEF Inductive, TypeOK, KeptIsThere, NothingBeforeStart, PhasePayload
<1>3. RouteOfRun' /\ CommitIsProposed' /\ StageHasTime'
  BY <1>1 DEF Inductive, RouteOfRun, RouteFor, OfDescription, CommitIsProposed,
     ProposeUserMutation, ProposeStage1Result, ProposeAdvance, StageHasTime, RetryPolicy
<1>4. KeptMatchesPhase' <=> KeptMatchesPhase
  BY <1>1 DEF KeptMatchesPhase, OfDescription, Composed
<1>5. (StageMatchesRun' <=> StageMatchesRun) /\ (ActionMatchesPhase' <=> ActionMatchesPhase)
  BY <1>1 DEF StageMatchesRun, OfDescription, ActionMatchesPhase, RetryPolicy
<1>6. DeliveryMatchesDocument' <=> DeliveryMatchesDocument
  BY <1>1 DEF DeliveryMatchesDocument
<1> QED BY <1>1, <1>2, <1>3, <1>4, <1>5, <1>6
        DEF Inductive, LiveSnapshotValid, SnapshotValid

LEMMA NextKeeps ==
  ASSUME Inductive, [Next]_vars
  PROVE  Inductive'
<1>1. CASE Start
  BY <1>1, StartDescriptionKeeps, StartDirectDdlKeeps, StartSavedLawsKeeps,
     StartImageKeeps DEF Start
<1>2. CASE EffectResult
  <2>1. CASE \E spent \in Spent : ProviderAnswered(spent)
    <3>1. PICK spent \in Spent : ProviderAnswered(spent)
      BY <2>1
    <3>2. spent \in Nat
      BY ConfigAssumption
    <3> QED BY <3>1, <3>2, ProviderAnsweredKeeps
  <2>2. CASE ReviewDrawn \/ ReviewUndrawn
    BY <2>2, ReviewDrawingKeeps
  <2>3. CASE VisibleDdlCommitted \/ HostCommitFailed
    BY <2>3, VisibleDdlCommittedKeeps, HostCommitFailedKeeps
  <2> QED BY <1>2, <2>1, <2>2, <2>3 DEF EffectResult
<1>3. CASE AuthorCommand
  BY <1>3, CommitUserDdlKeeps, GenerateFromDescriptionKeeps, CompleteHolesCommandKeeps,
     ApprovePatchKeeps, DeclinePatchKeeps, RenderKeeps, CancelKeeps DEF AuthorCommand
<1>4. CASE UNCHANGED vars
  BY <1>4, StutterKeeps
<1> QED BY <1>1, <1>2, <1>3, <1>4 DEF Next

-----------------------------------------------------------------------------
\* The theorems.

\* Inductive is true of every snapshot advance can return (machine.rs).
THEOREM InductiveInvariant == Spec => []Inductive
<1>1. Init => Inductive
  BY InitKeeps
<1>2. Inductive /\ [Next]_vars => Inductive'
  BY NextKeeps
<1> QED BY <1>1, <1>2, PTL DEF Spec

\* Every snapshot of an execution has the type PipelineSnapshot gives it.
THEOREM TypeCorrect == Spec => []TypeOK
<1>1. Inductive => TypeOK
  BY DEF Inductive
<1> QED BY <1>1, InductiveInvariant, PTL

\* Every snapshot advance returns for a run that was not cancelled passes the
\* cross-field checks of PipelineSnapshot::validate, so no input that follows is
\* refused as an invalid state.
THEOREM LiveSnapshotsValid == Spec => []LiveSnapshotValid
<1>1. Inductive => LiveSnapshotValid
  BY DEF Inductive
<1> QED BY <1>1, InductiveInvariant, PTL

\* Every attempt is given some time, and no attempt starts at or after the total
\* timeout of its stage (next_budgeted_attempt, remaining_attempt_timeout).
THEOREM AttemptsHaveTime == Spec => []AttemptHasTime
<1>1. ASSUME Inductive PROVE AttemptHasTime
  <2>1. SUFFICES ASSUME stage # None
                 PROVE  /\ RemainingAttemptTimeout(RetryPolicy(stage), elapsed) > 0
                        /\ elapsed < RetryPolicy(stage).total_timeout
    BY DEF AttemptHasTime
  <2>2. /\ RetryPolicy(stage) \in Policies /\ elapsed \in Nat
        /\ elapsed < RetryPolicy(stage).total_timeout
    BY <1>1, <2>1, Asking DEF Inductive, StageHasTime
  <2>3. /\ RetryPolicy(stage).total_timeout \in Nat
        /\ RetryPolicy(stage).attempt_timeout \in Nat \ {0}
    BY <2>2 DEF Policies
  <2> QED BY <2>2, <2>3 DEF RemainingAttemptTimeout
<1> QED BY <1>1, InductiveInvariant, PTL

\* A stage of a description is outstanding only while the authority record lets
\* the description write (the propose_stage1_result check in description and in
\* stage1), so the commit the run ends with can always be proposed.
THEOREM DescriptionsMayWrite == Spec => []DescriptionMayWrite
<1>1. Inductive => DescriptionMayWrite
  BY DEF Inductive, RouteOfRun, RouteFor, DescriptionMayWrite
<1> QED BY <1>1, InductiveInvariant, PTL

\* Only an acknowledgement changes the authority record or the visible document.
LEMMA SavedByAcknowledgement ==
  ASSUME Next
  PROVE  VisibleDdlCommitted \/ UNCHANGED <<authority, document>>
<1>1. CASE Start
  BY <1>1 DEF Start, StartDescription, StartDirectDdl, StartSavedLaws, StartImage, saved
<1>2. CASE EffectResult
  <2>1. CASE \E spent \in Spent : ProviderAnswered(spent)
    BY <2>1 DEF ProviderAnswered, ProviderFailed, LateAnswer, UnreadableAnswer,
       RefusedAnswer, StageAnswered, WrittenAnswered, HolesAnswered, Reply, saved
  <2>2. CASE ReviewDrawn \/ ReviewUndrawn \/ HostCommitFailed
    BY <2>2 DEF ReviewDrawn, ReviewUndrawn, HostCommitFailed, saved
  <2> QED BY <1>2, <2>1, <2>2 DEF EffectResult
<1>3. CASE AuthorCommand
  BY <1>3 DEF AuthorCommand, CommitUserDdl, GenerateFromDescription, CompleteHolesCommand,
     TakeCommand, ApprovePatch, DeclinePatch, Render, Cancel, saved
<1> QED BY <1>1, <1>2, <1>3 DEF Next

\* An acknowledgement saves a document under the record that was proposed for it.
LEMMA AcknowledgementSaves ==
  ASSUME Inductive, VisibleDdlCommitted
  PROVE  Variation!Next
<1>1. /\ commit # None /\ commit \in Commits
      /\ authority' = commit.next /\ document' = commit.document
  BY DEF VisibleDdlCommitted, Acknowledged, Inductive, TypeOK, PhasePayload
<1>2. commit.next \in VariationAuthority /\ commit.document \in Ddl
  BY <1>1 DEF Commits
<1>3. commit.next # NoProposal
  BY <1>2 DEF VariationAuthority, NoProposal
<1>4. \/ authority' = ProposeUserMutation(authority)
      \/ authority' = ProposeStage1Result(authority)
  BY <1>1 DEF Inductive, CommitIsProposed
<1> QED BY <1>1, <1>2, <1>3, <1>4
  DEF Variation!Next, Variation!SaveUserDdl, Variation!SaveDescriptionDdl,
      Variation!ProposeUserMutation, Variation!ProposeStage1Result,
      Variation!ProposeAdvance, Variation!NoProposal,
      ProposeUserMutation, ProposeStage1Result, ProposeAdvance, NoProposal

\* The machine implements VariationAuthority: whatever answers, failures and
\* commands it meets, the visible DDL and its authority record change together,
\* by a legal advance, and only when the host acknowledges a commit.
THEOREM ImplementsVariationAuthority == Spec => ImplementsVariation
<1>1. Init => Variation!Init
  BY DEF Init, Variation!Init, NewDescription, NewDirectDdl,
     Variation!NewDescription, Variation!NewDirectDdl
<1>2. Inductive /\ [Next]_vars => [Variation!Next]_(Variation!variation)
  <2>1. CASE Inductive /\ Next
    BY <2>1, SavedByAcknowledgement, AcknowledgementSaves DEF Variation!variation
  <2>2. CASE UNCHANGED vars
    BY <2>2 DEF vars, saved, Variation!variation
  <2> QED BY <2>1, <2>2
<1> QED BY <1>1, <1>2, InductiveInvariant, PTL DEF Spec, ImplementsVariation, Variation!Spec

-----------------------------------------------------------------------------
\* Identities.

\* The effect outstanding after the step was issued by the step, or there is none.
NewlyIssued == action' = None \/ action'.ordinal > ordinal

\* What FreshIdentity asks of one step.
Fresh == action' # action /\ action' # None =>
           \/ action'.ordinal > ordinal
           \/ /\ action # None /\ action'.ordinal = action.ordinal
              /\ action'.attempt > action.attempt /\ action'.tag = action.tag

LEMMA EnteringIssues ==
  ASSUME ordinal \in Nat
  PROVE  /\ \A st, request : Ask(st, request) => NewlyIssued
         /\ \A st : BeginLlm(st) => NewlyIssued
         /\ \A r, st : Begin(r, st) => NewlyIssued
         /\ \A to : Settle(to) => NewlyIssued
         /\ \A d, reason, next, rng : CommitDocument(d, reason, next, rng) => NewlyIssued
         /\ \A d : DrawReview(d) => NewlyIssued
         /\ \A spent : AskAgain(spent) => NewlyIssued
  BY DEF NewlyIssued, Ask, BeginLlm, Begin, Settle, CommitDocument, DrawReview,
     AskAgain, Reissue, Issue

LEMMA StageTailsIssue ==
  ASSUME ordinal \in Nat
  PROVE  /\ \A d, b : CommitStage1(d, b) => NewlyIssued
         /\ \A r : Stage1(r) => NewlyIssued
         /\ \A state : FinishSketch(state) => NewlyIssued
         /\ \A k, d, b : AfterLaws(k, d, b) => NewlyIssued
         /\ \A k, d : ComposeAndCommit(k, d) => NewlyIssued
         /\ \A d, plan : SettleStage1(d, plan) => NewlyIssued
         /\ LawsFallback => NewlyIssued
         /\ StagesExhausted => NewlyIssued
  BY EnteringIssues DEF CommitStage1, Stage1, FinishSketch, AfterLaws, AskLaws,
     ComposeAndCommit, SettleStage1, FailLawsMove, LawsFallback, StagesExhausted

LEMMA WrittenTailsIssue ==
  ASSUME ordinal \in Nat
  PROVE  /\ \A r : WriteDescriptionDdl(r) => NewlyIssued
         /\ \A r : AfterDescriptionCatalog(r) => NewlyIssued
         /\ \A d : CommitWrittenDocument(d) => NewlyIssued
         /\ \A d : CommitWritten(d) => NewlyIssued
         /\ \A d : AfterWritten(d) => NewlyIssued
         /\ KeptWritten => NewlyIssued
         /\ ColorsFallback => NewlyIssued
         /\ WrittenExhausted => NewlyIssued
  BY EnteringIssues, StageTailsIssue
  DEF WriteDescriptionDdl, ReadOrWriteDescription, AfterDescriptionCatalog,
      CommitWrittenDocument, CommitWritten, AfterWritten, NothingWritten, KeptWritten,
      ColorsFallback, WrittenExhausted

LEMMA AnswersIssue ==
  ASSUME ordinal \in Nat, NEW spent
  PROVE  /\ StageAnswered(spent) => NewlyIssued
         /\ WrittenAnswered(spent) => NewlyIssued
         /\ HolesAnswered(spent) => NewlyIssued
<1>1. StageAnswered(spent) => NewlyIssued
  BY EnteringIssues, StageTailsIssue, WrittenTailsIssue
  DEF StageAnswered, SketchAnswered, CanonicalAnswered, NonCanonicalAnswered,
      CommitStage1Fallback, CompositionAnswered, LawsAnswered, ColorsAnswered
<1>2. WrittenAnswered(spent) => NewlyIssued
  BY EnteringIssues, WrittenTailsIssue
  DEF WrittenAnswered, CatalogAnswered, ImageCatalogAnswered, DescriptionRead,
      DescriptionComposed, WrittenGivenBack, WrittenUsable, WrittenUndrawable
<1>3. HolesAnswered(spent) => NewlyIssued
  BY EnteringIssues DEF HolesAnswered, NewlyIssued
<1> QED BY <1>1, <1>2, <1>3

LEMMA FailFresh ==
  ASSUME Inductive, stage # None, NEW spent \in Nat, NEW failure, Fail(failure, spent)
  PROVE  Fresh
<1> DEFINE total == elapsed + spent
           next  == NextAttempt(RetryPolicy(stage), action.attempt, total, failure)
<1>1. ordinal \in Nat /\ action \in Actions /\ action.attempt \in Nat \ {0}
      /\ RetryPolicy(stage) \in Policies /\ total \in Nat
  BY Asking, ConfigAssumption DEF Inductive, TypeOK
<1>2. CASE next # None /\ Retry(next, total)
  <2>1. next = action.attempt + 1
    BY <1>1, <1>2, NextAttemptInBudget, NextBudgetedAttemptInBudget
  <2>2. action' = [action EXCEPT !.attempt = action.attempt + 1]
    BY <1>2, <2>1 DEF Retry
  <2> QED BY <1>1, <2>2, NoneAssumption DEF Fresh, Actions
<1>3. CASE NewlyIssued
  BY <1>3 DEF Fresh, NewlyIssued
<1>4. CommitStage1Fallback => NewlyIssued
  BY <1>1, StageTailsIssue DEF CommitStage1Fallback
<1>5. (Settle("NeedsUserEdit") \/ StagesExhausted \/ WrittenExhausted) => NewlyIssued
  BY <1>1, EnteringIssues, StageTailsIssue, WrittenTailsIssue
<1> QED BY <1>2, <1>3, <1>4, <1>5 DEF Fail

LEMMA NextFresh ==
  ASSUME Inductive, Next
  PROVE  Fresh
<1>1. ordinal \in Nat
  BY ConfigAssumption DEF Inductive, TypeOK
<1>2. CASE Start
  BY <1>1, <1>2, EnteringIssues, WrittenTailsIssue
  DEF Start, StartDescription, StartDirectDdl, StartSavedLaws, StartImage, Description,
      Fresh, NewlyIssued
<1>3. CASE \E spent \in Spent : ProviderAnswered(spent)
  <2>1. PICK spent \in Spent : ProviderAnswered(spent)
    BY <1>3
  <2>2. spent \in Nat /\ stage # None
    BY <2>1, ConfigAssumption DEF ProviderAnswered, ProviderFailed, LateAnswer,
       UnreadableAnswer, RefusedAnswer, StageAnswered, WrittenAnswered, HolesAnswered,
       Reply, Inductive, PhasePayload
  <2>3. CASE \E failure : Fail(failure, spent)
    BY <2>2, <2>3, FailFresh
  <2>4. CASE StageAnswered(spent) \/ WrittenAnswered(spent) \/ HolesAnswered(spent)
    BY <1>1, <2>4, AnswersIssue DEF Fresh, NewlyIssued
  <2> QED BY <2>1, <2>3, <2>4 DEF ProviderAnswered, ProviderFailed, LateAnswer,
          UnreadableAnswer, RefusedAnswer
<1>4. CASE ReviewDrawn \/ ReviewUndrawn \/ VisibleDdlCommitted \/ HostCommitFailed
  BY <1>1, <1>4, EnteringIssues, WrittenTailsIssue
  DEF ReviewDrawn, ReviewUndrawn, VisibleDdlCommitted, Acknowledged, CompleteHoles,
      HostCommitFailed, Fresh, NewlyIssued
<1>5. CASE AuthorCommand
  BY <1>1, <1>5, EnteringIssues, WrittenTailsIssue
  DEF AuthorCommand, CommitUserDdl, GenerateFromDescription, Description,
      CompleteHolesCommand, CompleteHoles, ApprovePatch, DeclinePatch, Render, Cancel,
      Fresh, NewlyIssued
<1> QED BY <1>2, <1>3, <1>4, <1>5 DEF Next, EffectResult

\* No identity is issued twice: a result that arrives late, for a request that was
\* retried, replaced or abandoned since, never has the identity of the outstanding
\* effect, and verify_current_action refuses it.
THEOREM IdentitiesAreFresh == Spec => FreshIdentity
<1>1. Inductive /\ [Next]_vars =>
        [action' # action /\ action' # None =>
           \/ action'.ordinal > ordinal
           \/ /\ action # None /\ action'.ordinal = action.ordinal
              /\ action'.attempt > action.attempt /\ action'.tag = action.tag]_vars
  BY NextFresh DEF Fresh
<1> QED BY <1>1, InductiveInvariant, PTL DEF Spec, FreshIdentity
=============================================================================
