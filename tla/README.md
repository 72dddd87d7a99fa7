# TLA+ models of inku-lang authoring

inku-lang turns a description, an image or a DDL text into a drawing. What
is a protocol in it, and what this project models, is *authoring* and the parts
that start, ration and repeat it. Authoring is a state machine: a
deterministic state machine (`src/core/crates/inku-pipeline`) asks language
models for pieces of a document, checks every answer, falls back when one is
bad or late, has its host save the visible DDL under an authority record by
compare-and-set, and lets the author complete, approve, regenerate or cancel.
Everything around it is either a host that runs its effects, or a pure function
from a document to a document, a score or a picture.

## 1. Inventory

| Component | State | Operations | Talks to |
| --- | --- | --- | --- |
| Authoring machine, `inku-pipeline/src/machine.rs`, `machine/{description,written,image}.rs` | `PipelineSnapshot`: phase with payload, authority, document, outstanding action, delivery, the documents kept for a later request, records of the run, laws basis, completion record | `advance(snapshot, input)`: 4 starts, provider results, commit results, review drawings, 7 author commands | a host: effects out, results in |
| Variation authority, `authority.rs` | revision, origin, authority | propose a user mutation or a stage-1 result, transition checks | machine and store |
| Retry policy, `protocol.rs` | none (per stage policy) | next attempt, remaining time | machine |
| Stage algorithms: `composition.rs`, `laws.rs`, `colors.rs`, `focused_flow.rs`, `description_composition.rs`, `hole_completion.rs`, `completion_ranges.rs`, the texts of `chunk_moves.rs` | none | document and answer to document or refusal | machine, refinement |
| Byte envelope and core boundary | none | decode, size limits | hosts |
| Server host: `pipeline_candidate.py`, `pipeline_api.py`, `persistence/variation_authority.py` | snapshot and context of each execution object; objects and jobs under a lock; stored executions, variations, commit acknowledgements | start, restore, command, perform, run effects, save by sequence, commit by revision, schedule, evict, close | machine, provider, database |
| Batch: `persistence/batch_runs.py`, the paint stream of `pipeline_compat.py`, `features/batch/*.ts` | the row of a batch with its lease, the drawings under way; in each page the plan, what is pending and failed, a kept snapshot | start, resume, heartbeat, draw a line, wait for a cut connection, look a line up in the history, retry round, close | server host, browser storage |
| Autonomous refinement: `autonomous_refine.{rs,py}`, `chunk_moves.rs` | the row of a run (state, turns, what it is at), the run's parent and chunks in its thread, lineage edges | start, stop, turns of three kinds of move, close, interrupt at restart | core, server host, two databases |
| Provider admission: `provider_admission.rs`, `provider_rate_limits.py`, `provider_limits.py`, its use in `pipeline_provider.py` | one row per provider (window of events, day count, pause), a semaphore of slots | reserve, sleep, send, settle, cool down | provider, database |
| ChatGPT plan registrations: `chatgpt_{store,auth,transfer,provider,models}.py`, `model_catalog/chatgpt_auth_policy.rs` | an encrypted file of profiles per owner, sessions with a generation | sign in, refresh, pause, sign out, export, import | provider, files |
| Compiler, renderer, display, score | none | pure functions | machine, hosts |
| Android, Apple, CLI hosts | their own storage | the same protocol | machine |

**How they interact.** A host calls `advance` with the last snapshot and an
input; the new snapshot carries at most one outstanding action with an identity
(ordinal and attempt). The host performs it - a provider request, a commit or a
drawing - and calls `advance` with a result that names the identity. A commit
names the expected authority revision; the store applies it by compare-and-set
and remembers the acknowledgement under the action's identity. The author's
commands are inputs too and may arrive in any phase. Above the host, a batch is
a page that starts one execution per line, under a lease the server's table
gives out; a refinement run is a thread of the server that starts executions one
after another and hangs each kept work on the one before. Below it, every
provider request takes a slot and an admission first.

**What is hard.** Late and repeated answers; a budget that counts attempts and
time at once; requests changed by feedback inside the same budget; documents
kept while a later request is out, in tails shared by six stages; records of one
run that survive into the next of the same execution; cancelling in any phase;
completions that follow commits and commits that follow completions. In the
hosts: interleavings of workers, commands, crashes and restarts. In a batch: a
lease that lapses while its holder goes on reading, connections cut while the
server draws on, two pages with a plan each. In refinement: three saves over two
databases, a thread that outlives nothing and a row that outlives everything. In
admission: a clock read before the row it is judged against, and waits that must
not outlast a deadline.

**What makes each component correct.**

* Machine: every snapshot it returns can be read back (`validate`); an identity
  is used once; a stage stays within its budget; nothing drawable is lost to the
  failure of a later request; the laws basis names the DDL it was printed for;
  the visible DDL and its authority change together; every chain of effects ends.
* Authority: only legal records, one revision at a time, never back to the
  description after an edit.
* Retry policy: no attempt without time.
* Server host: at most one execution of an effect counts; a crash between the
  commit and the save of the snapshot loses and repeats nothing; an action with
  no worker is picked up again.
* Batch: only the holder of the lease draws; what is counted has a work; a run
  ends, and a batch left behind is offered again.
* Refinement: one run per owner, one branch of kept works, records that agree
  with tries, bounded requests, an end.
* Admission: no minute over its limit, no day over its own but by what crossed a
  midnight, no request in a pause, no slot lost.
* Stage algorithms, compiler, renderer: functional correctness, which belongs
  to unit tests more than to a state-space search.

## 2. Plan

1. `AuthorityState`, `RetryBudget`: the pure records both layers share. *Done.*
2. `Pipeline` (with `PipelineState`, `PipelineStages`, `PipelineWritten`): the
   whole machine. *Done*: model, properties, runs, proofs.
3. `VariationAuthority`: the abstract history of one variation. *Done*, and
   `Pipeline` is proved to implement it.
4. `MachineView` and `MachineSteps`: the machine as its host sees it, small
   enough to compose. *Done*; `Pipeline` is proved to implement it, and the saved
   snapshots of `AuthoringHost` are proved to follow it.
5. `AuthoringHost` over `MachineView`: one execution of the server, its objects,
   worker, requests and rows; crash and restart at every point; an eviction
   with a second object. *Done*: model, properties, runs, proofs.
6. `BatchLease`, `BatchRun`: the server's row and drawings, and the page that
   runs a batch. *Done*: model, properties, runs, proofs.
7. `RefineTurns`, `ChunkTurn`, `RefineRuns`: the core's choice of the next turn,
   a chunk turn, and the server's runner. *Done*: model, properties, run, proofs.
8. `Admission`, `ProviderAdmission`: the rules and the requests that use them.
   *Done*: model, properties, run, proofs.
9. *Left.* The registrations of the ChatGPT plan: the generation of a session
   under refresh, sign-out and a pause; export and import as a hand-over between
   two installations with replayed receipts; attempts that are cancelled between
   their two locks.
10. Proofs of every safety property the passing runs check. *Done*; liveness
   stays with TLC (see section 5).

## 3. Modules and the code

| Module | Models |
| --- | --- |
| `AuthorityState` | `authority.rs`: `VariationAuthority`, `propose_user_mutation_commit`, `propose_stage1_result_commit`, the exhausted revision |
| `RetryBudget` | `protocol.rs`: `RetryPolicy`, `next_budgeted_attempt`, `next_attempt`, `remaining_attempt_timeout` |
| `PipelineState` | the snapshot as VARIABLES and the steps everything ends with: issue an identity, ask a stage, retry, reissue, propose a commit, settle |
| `PipelineStages` | description to DDL through the stages: sketch, Stage 1 with its second chance and residual adoption, composition, laws, colors; the laws from a saved work |
| `PipelineWritten` | routes whose model writes DDL: image and read-and-draw, drawing and review, colors, catalogs |
| `Pipeline` | the four starts, failures, commit results, hole completion, author commands; `Next`, `Spec`, `FairSpec` |
| `PipelineProperties` | the type invariant and the properties |
| `PipelineInvariant` | the inductive invariant, and two strengthenings about the laws basis |
| `AuthorityProofs` | lemmas about the authority record, for the machine and the host |
| `PipelineProofs` | type, snapshots, budgets, identities, refinement of `VariationAuthority` |
| `PipelineHistoryProofs` | what a provider's result may come to, the properties of a run's history, refinement of `MachineSteps` |
| `VariationAuthority` | what authoring promises for one variation |
| `MCPipeline` and `Pipeline_*.cfg` | instances of the machine for TLC |
| `MachineView` | what each input of `advance` may make of a snapshot, as far as a host sees it: phase, authority, document, proposal |
| `MachineSteps` | those steps as a specification, which `Pipeline` and the saved snapshots of `AuthoringHost` implement |
| `AuthoringHost` | `CandidateExecution`, the threads of `PipelineService`, the rows of `VariationAuthorityStore` |
| `AuthoringHostProperties` | its type invariant and properties |
| `HostInvariant`, `HostProofs` | its inductive invariant and theorems |
| `MCHost` and `Host_*.cfg` | instances of the host for TLC |
| `BatchLease` | the server of a batch: its row and lease (`batch_runs.py`), the drawings of the paint stream, the works they save |
| `BatchRun` | the page: `BatchState.run` and what it calls in `lease.ts`, `resume.ts`, `retry.ts`, one step from one await to the next |
| `BatchProperties`, `BatchProofs` | its properties and theorems |
| `MCBatch` and `Batch_*.cfg` | instances of a batch for TLC |
| `RefineTurns` | `autonomous_refine.rs`: which try is next, which is refused, when a run stops |
| `ChunkTurn` | `chunk_moves.rs`: the requests and drawings of a chunk turn |
| `RefineRuns` | `autonomous_refine.py`: `AutonomousRunner`, its store, threads, close and restart |
| `RefineProperties` | their properties |
| `RefineProofs`, `RefineTurnProofs` | theorems about the runs, and about the turns they record |
| `MCRefine` and `Refine_runs.cfg` | an instance of the runs for TLC |
| `Admission` | `provider_admission.rs`: limits, the window, the day, the wait, the pause |
| `ProviderAdmission` | a request from its slot to its settling: `provider_rate_limits.py`, `provider_limits.py`, `pipeline_provider.py` |
| `AdmissionProperties`, `AdmissionProofs` | their properties and theorems |
| `MCAdmission` and `Admission_*.cfg` | instances of admission for TLC |

One call of `advance` is one action. `advance` is pure and an error returns no
snapshot, so an error is no step; a check that refuses an input is a guard. A
result must carry the identity of the outstanding action
(`verify_current_action`), so an answer is possible exactly in the phase that
waits for it; that no two effects ever share an identity is checked and proved
as `FreshIdentity`, not assumed.

State: `phase` with `stage`, `elapsed`, `commit` and `patch` is `PipelinePhase`
with its payload; `action` and `ordinal` are `EffectAction` and its counter;
`kept` holds `stage1_fallback`, `stage1_fallback_plan`, `composition`, `laws`,
`colors` and `image_fallback`; `run` holds what the run was asked to do
(`sketch`, `description_ddl`, `image`, `saved_laws`); `basis` is `laws_basis`,
`Open` while its digest is still empty; `ranges` says whether the work has a
completion record. `committed` and `commands` are history and bound.

Data is abstract. A document is a member of `Ddl`, and the compiler's verdict on
it is membership in `Canonical`, `Holed`, `Drawable`, `Residual` or `Refused`.
What an answer contains is a choice over the outcomes the code distinguishes.
Where the code falls back when a prompt cannot be built, both outcomes are
steps; a prompt without a fallback is taken to be buildable.

**The host.** A step of `AuthoringHost` is what one thread does under one lock
or in one transaction. `stored` is the execution's row (snapshot and context),
`variation` and `acks` are the two tables a commit writes, all of which survive
`Crash`. `objects` are the `CandidateExecution`s something still refers to,
`registered` is the one in `_runs`, `job` the entry in `_jobs`. A worker goes
round `_drain_steps`: look, the safe render before a completion, then
`run_effect`, which is either `JobCommit` and, still under the object's lock,
`JobSave`, or `JobCall` and, without the lock in between, `JobAnswered`. A
request thread takes an object (`Open`), sends a command (`Command`) and then
schedules (`Schedule`); between any two of these another thread may act. An
effect is named by the sequence of the snapshot that issued it, which says no
more than the identity the code compares. Which snapshot an input leads to comes
from `MachineView`; that the machine takes no other steps is `ImplementsHostView`,
checked on instances and proved for all. The two levels meet at `MachineSteps`:
what is proved of the host holds of it with the machine of `Pipeline` inside, up
to the parts of the snapshot a host never reads.

**A batch.** `record` is the row of `batch_runs`, `works` the drawings of the
paint stream, `drawn` the lines with a work in the history; `up` is the server.
Each page has the closures of `run`: `todo`, `failed`, `pending`, the lease it
holds, the drawing it reads. Painting sends no idempotency key, so a line sent
again is drawn again. Six things are simpler than the code: the listing and the
click of a resume are one step; a request that was cut starts its execution in
the step that sends it; `waitForServer` and `waitForBatchToSettle` are one wait;
after the last cut allowed, or a failed look into the history, a line that was
saved counts as failed and a retry draws it again, as in the code, but not the
wording of it; `update` renews a lapsed lease that `require` refuses; the safe
render saves its work without looking at the lease.

**Refinement.** `row` is the run store, `works` the children with the records on
their lineage edges, the other variables are fields of `AutonomousRunner` and
locals of a thread. An execution is one step with its outcomes: that it ends is
`ComesToRest`. The order of the pool is any order. A stop between the first save
of a run and the registration of its event has no effect, as in the code; so has
a failing last save leave the row running with no thread until the next start of
the server (`unsaved`); a crash between a saved child and its record loses that
child's move; a cancelled execution may still have saved its child. Sentences
of a work's lineage from before the run, the names of laws, the numbers of the
gate and the texts of chunk moves are choices.

**Admission.** `usage` is the provider's row, each change of it one step: sqlite
begins the transaction at once, so the loop of `_change` never repeats. `now` is
read before that transaction, which may wait for the lock, and the request goes
out after it; `Lag` bounds the ticks between the reading and the sending. A
provider's minute is `Window - Lag`: the window is 62 seconds, so a request may
be two seconds late before the limits stop being exact. An estimate is taken to
be never too low, and counting tokens is not itself counted. `sends`, `days`,
`crossed` and `paused` are histories: `days` counts a request on the day its
admission read, `crossed` counts the admissions saved after the midnight that
began a day by a reading from before it (`Crosses`). Only the pipeline's requests
are modelled, and each holds a slot; the text requests of `text_provider.py` share
the row and hold none.

## 4. What the runs check

`Pipeline_*` are runs of `MCPipeline`, `Host_*` of `MCHost`, `Batch_*` of
`MCBatch`, and so on. The number is that of distinct states.

| Run | What it explores | Properties |
| --- | --- | --- |
| `Pipeline_documents` (390,618) | every route of a document with every optional stage, answers in time, late and failed, then edits and completions, refused documents, an exhausted revision | `TypeOK`, `LiveSnapshotValid`, `AttemptHasTime`, `BasisNamesItsDdl`, `LawsCommitIsPrinted`, `ComesToRest`, `FreshIdentity`, `KeptIsNeverLost`, `ImplementsVariation`, `ImplementsHostView` |
| `Pipeline_written` (335,686) | read-and-draw and image runs with review and colors, two author commands | `DescriptionMayWrite`, `StandsAsCommitted`, `NeverStartsOver`, `AsksAgainOnce` |
| `Host_recovers` (1,240,288) | one execution, two request threads, generations, edits, completions and cancellations, two crashes at any point, an eviction while a request holds the object | `TypeOK`, `SettledAgrees`, `SavedDescriptionIsRead`, `CommitIsAdmitted`, `OneMachine` |
| `Host_performs` (22,744) | a fair worker, cancellations, performances, declined patches and a crash | `EffectsArePerformed` |
| `Batch_draws` (816,220) | two pages on a batch of two lines: leases lapse, one page resumes the other's run, a connection is cut, the server or a page goes | `OneHolderDraws`, `CountIsDrawn` |
| `Batch_ends` (362,919) | one page with two cuts to a line, the wait and the look into the history after each, the line sent again, and a retry round | `CountIsDrawn`, `RunEnds`, `BatchIsOffered` |
| `Refine_runs` (338,983) | runs of every kind of move, alone and two together, stops, a close, a failed save or a crash | `TypeOK`, `OneRunPerOwner`, `CoreNeverRefuses`, `ActivityAgrees`, `TriesAreRecorded`, `GrowsFromLastKept`, `HeldTakesNoSentence`, `NoSentenceTwice`, `RequestsAreBounded`, `RunEnds` |
| `Admission_limits` (2,188,508) | two threads, four requests, limits on the minute, its tokens and the day, over a midnight, each up to a tick late, a crash or a row that cannot be saved | `RequestsFit`, `TokensFit`, `SlotsReturn`, `DayIsBounded`, `PausesAreKept` |

What they show, in words:

* **A snapshot can always be read back** (`LiveSnapshotValid`): a kept document
  stands only in its own stage, a delivery is that of the acknowledged document,
  the outstanding effect is the one the phase waits for.
* **Budgets** (`AttemptHasTime`, `NeverStartsOver`, `AsksAgainOnce`): no attempt
  starts without time; a request changed by feedback goes on with the budget of
  its stage; feedback is given once.
* **Nothing drawable is lost** (`KeptIsNeverLost`, `LawsCommitIsPrinted`): a run
  that holds a document goes on with it when a later request fails; only a run
  of the laws from a saved work stops, and it never saves its base as a result.
* **Records belong to their DDL** (`BasisNamesItsDdl`), in the first generation
  of an execution; see `Pipeline_regenerated`.
* **Completions do not feed each other** (`StandsAsCommitted`).
* **The history of the variation** (`DescriptionMayWrite`,
  `ImplementsVariation`): a description run is under way only while it may
  write, and document and authority change together on an acknowledgement.
* **Every effect comes to rest** (`ComesToRest`).
* **The host expects what the machine does** (`ImplementsHostView`).
* **A crash between the two transactions of a commit heals** (`SettledAgrees`):
  the restored execution performs the commit again, the store answers with the
  acknowledgement it kept, and snapshot and row agree again.
* **A description belongs to its DDL** (`SavedDescriptionIsRead`,
  `CommitIsAdmitted`), through generations that are given up and interrupted.
  `SavedDescriptionIsRead` holds for the reasons the host knows; see
  `Host_describes` for the one it does not.
* **Two objects make no two histories** (`OneMachine`): only the object whose
  snapshot is the saved one can save.
* **Effects are performed** (`EffectsArePerformed`), as long as no command meets
  the end of a job; see `Host_wakes`.
* **Only the holder of a lease draws** (`OneHolderDraws`): a lease is not given
  out over a drawing under way, and what was under way when it was given out
  does not go on. **The count is of works** (`CountIsDrawn`), whichever page
  reports it and however late, also when a cut line is waited for, looked up and
  sent again. A run of a page ends, and what it leaves is
  offered again (`RunEnds`, `BatchIsOffered`).
* **A refinement run is one branch** (`GrowsFromLastKept`) on which the two
  databases agree (`TriesAreRecorded`), one at a time for its owner
  (`OneRunPerOwner`). Only a close, a crash or a failed last save leaves its row
  running without a thread (`RunningIsTaken`, which is proved; to that save the
  code has no answer before the next start). The stateless core accepts what
  the runner built (`CoreNeverRefuses`) and counts as the runner does
  (`ActivityAgrees`); no sentence goes to a held work, the one the run
  starts from or one it kept, or twice to any (`HeldTakesNoSentence`,
  `NoSentenceTwice`); in a chunk turn the core asks four times at most
  (`RequestsAreBounded`, which counts as the core does: `_send_chunk` may repeat
  the transmission of a request once), and every run ends (`RunEnds`).
* **A provider's minute is kept** (`RequestsFit`, `TokensFit`) although requests
  read their clock early and go out late; pauses and slots survive refusals,
  timeouts and crashes (`PausesAreKept`, `SlotsReturn`).
* **A day is bounded** (`DayIsBounded`): each admission saved over the midnight a
  day begins with may give that day its limit once more, each saved over the
  midnight it ends with is one request more, and no more of them cross a midnight
  than there are slots. Without a crossing the limit is kept; with one it may not
  be, and the run holds states in which it is not.

The store's comparison of revisions is a second guard behind the snapshot's
compare-and-set and the acknowledgements: in no run does removing it alone break
anything, so no property is claimed to rest on it.

Four runs show the code disagreeing with what is written about it:

* `Pipeline_cancelled`: `cancel` clears two of the six kept documents. A run
  cancelled during composition, laws or colors, or during a Stage 1 request with
  a kept plan, leaves a snapshot that `validate` refuses, and `run_progress`
  with it (`machine.rs:4397`, against `machine.rs:1018`).
* `Pipeline_regenerated`: a second generation in the same execution keeps the
  laws basis of the first (`machine.rs:3199`, "A run keeps no record of the run
  before it in the same execution").
* `Host_wakes`: `_schedule` does nothing while the previous job is not done, and
  a job is not done between its last look at `busy` and the end of its thread. A
  command in between leaves an effect that nobody performs, and asking for the
  execution again does not start a worker (`pipeline_api.py:542`, against
  `docs/architecture/runtime-containers.md:54`). Another command or a restart
  does.
* `Host_describes`: a regeneration on the read-and-draw route commits under
  `description_ddl`, a reason `run_effect` does not count as generated, and
  saves the new DDL with the description before it (`pipeline_candidate.py:374`,
  against the comment at `pipeline_candidate.py:343`).

Seen while modelling, and given no run:

* The author's `complete_holes` starts a completion on a revision saved by
  residual adoption (`machine.rs:4458`, against
  `docs/architecture/description-to-svg.md:130`).
* An execution may be evicted while a request still holds its object
  (`pipeline_api.py:534`): the object restored for the next request goes on
  answering from a snapshot that is no longer the saved one, each of its commands
  refused. The saved state stays right (`OneMachine`).
* A page that was interrupted resumes from the snapshot it kept, in which a line
  saved after its wait was given up is still pending (`state.svelte.ts:387`): the
  line is drawn again, against `SPEC.md:2278` and `resume.ts:111`.
* A batch's page may find nothing under way between the end of a drawing's job
  and its rendering (`state.svelte.ts:872`).
* The save that ends a run in the handler of its error may fail too
  (`autonomous_refine.py:483`): the thread is gone, the row says running, and the
  owner can start no run until the server is started again.
* A laws move whose execution ends with a code other than three is taken as one
  that was not sent, though its request may have been (`autonomous_refine.py:597`,
  against `autonomous_refine.rs:111`).
* An admission that read the clock before midnight and is saved after one of the
  new day sets the row back to the old day and counts from zero, and so does the
  next of the new day (`provider_rate_limits.py:119`, `provider_admission.rs:259`).
  Both days may exceed their limit, against "RPD ... resetting at midnight"
  (`SPEC.md:1482`); by how much is `DayIsBounded`. In `Admission_limits` two
  requests of a day are followed by a third, saved after the first of the next.
* A run cancelled after a crash that followed its commit ends with the document
  before it, while the variation's row holds the committed one
  (`variation_authority.py:1424`).

### Bounds

* Pipeline: two policies. *Short*: two attempts, three ticks of total time, a delay of
  one; with answers of 0, 2 and 3 ticks the time is spent before the attempts,
  at the limit, and not at all. *Patient* (laws, image and hole requests): three attempts that time
  does not bound, so that the order feedback - failure - second answer fits.
* Pipeline: three kinds of document are enough for each route to reach every verdict; two
  that read whole are there where a basis could name the wrong one.
* `MaxCommands` is the number of times an author starts work again in one
  execution: two, so a run meets the records of the one before it.
* `MaxRevision` is 2 in `Pipeline_documents`, so that proposals are exhausted,
  which must not stop a run from coming to rest; it is not reached elsewhere.
* `MaxOrdinal` is never reached in a passing run; the bound removes no behaviour.
* Host: two descriptions with a document each, so a description saved with the
  other's document shows; two commands, so one run meets the end of another; two
  crashes, so the second hits the recovery from the first; two objects and two
  requests for the eviction, under symmetry. `MaxEffectSteps` is 2 in
  `Host_recovers`, where its exception is to happen between a commit and a
  completion, and 8 in the other runs, where it is not. From sequence
  `MaxSequence` on a provider is not asked again, which bounds the retries the
  machine bounds by its policies: never in `Host_recovers`, where a second
  attempt changes nothing a property reads, up to sequence 3 in `Host_performs`.
* Batch: two lines are enough for a count to be ahead of the works. Two pages and
  two leases let the first run meet the second; two sends let a line be drawn
  twice or one be drawn and one cut. `MaxCuts` is 1 in `Batch_draws`, where a cut
  line fails at once, and 2 in `Batch_ends`, which has the waits. `MaxFaults`
  counts stops, reloads and crashes.
* Refinement: `MCRefine.Asked` lists what is asked for: one run of each kind alone,
  with two or three moves, and two short runs together, of one owner and of two
  owners with one thread between them. Answers have two sentences of three
  instead of four of many. `MaxFaults` counts failed saves and crashes.
* Admission: four requests of two threads. A window of three ticks and a lag of
  one give a minute of two; its limit of two requests and three tokens is met by
  a third request while the first two count. A day is four ticks and two
  requests, so that the window empties within it, a minute spans its midnight,
  and the first midnight can be crossed by an admission that takes the day over
  its limit: there the bound of `DayIsBounded` is reached. A second crossing would
  need more requests; the theorem has any number. A request reserves two tokens
  and uses one or two, and is asked for only when its timeout falls within
  `MaxTime`.
* `CHECK_DEADLOCK FALSE`: an execution, a batch or a run may end, and time does.

### Fairness

`FairSpec` of the machine assumes weak fairness of `EffectResult` only: while an
effect is outstanding the host eventually returns some result for it. The
server's job loop runs every outstanding effect, with a timeout of its own on the
provider call, and reports a failure as a result. Authors owe nothing: no command
is fair.

`FairSpec` of the host assumes weak fairness of the worker (a thread of the pool
is not starved), of `Open` (the page polls its execution; without a request
nothing in the server resumes it) and of the end of a request that has begun.
First requests, commands, evictions and crashes are not fair.

`FairSpec` of a batch: the loop of a page whose run has begun, the jobs and
streams of the server, and the clock a lease lapses by. Starting, resuming,
stopping, cuts and crashes are not fair.

`FairSpec` of refinement: threads of the pool go on (an execution ends, see
`ComesToRest`), a closed server exits when its threads have ended, and a server
that is down is started again. Starts, stops, closes and crashes are not fair.

## 5. What is proved

All with TLAPS, for every value of the constants that the ASSUMEs allow.

| Module | Theorem | States |
| --- | --- | --- |
| `PipelineProofs` | `InductiveInvariant` | `Spec => []Inductive` |
| | `TypeCorrect` | `Spec => []TypeOK` |
| | `LiveSnapshotsValid` | `Spec => []LiveSnapshotValid` |
| | `AttemptsHaveTime` | `Spec => []AttemptHasTime` |
| | `DescriptionsMayWrite` | `Spec => []DescriptionMayWrite` |
| | `ImplementsVariationAuthority` | `Spec => ImplementsVariation` (refinement of `VariationAuthority`) |
| | `IdentitiesAreFresh` | `Spec => FreshIdentity` |
| `PipelineHistoryProofs` | `BudgetsAreKept` | `Spec => NeverStartsOver` |
| | `FeedbackIsGivenOnce` | `Spec => AsksAgainOnce` |
| | `KeptDocumentsAreUsed` | `Spec => KeptIsNeverLost` |
| | `LawsCommitsArePrinted` | `Spec => []LawsCommitIsPrinted` |
| | `CompletionsDoNotFeed` | `Spec => []StandsAsCommitted`, when the author asks for no completion |
| | `FirstBasisNamesItsDdl` | `Spec => []BasisNamesItsDdl`, when an execution generates once |
| | `ImplementsWhatIsSeen` | `Spec => ImplementsHostView` (refinement of `MachineSteps`) |
| `HostProofs` | `InductiveInvariant` | `Spec => []Inductive` |
| | `TypeCorrect` | `Spec => []TypeOK` |
| | `RowsAgree` | `Spec => []SettledAgrees` |
| | `CommitsAreAdmitted` | `Spec => []CommitIsAdmitted` |
| | `DescriptionsAreRead` | `Spec => []SavedDescriptionIsRead`, when the host knows every reason a description commits under |
| | `ImplementsMachine` | `Spec => OneMachine` (refinement of `MachineSteps`) |
| `BatchProofs` | `TypeCorrect` | `Spec => []TypeOK` |
| | `HolderDraws` | `Spec => []OneHolderDraws` |
| | `CountIsTrue` | `Spec => []CountIsDrawn` |
| `RefineProofs` | `OwnersHaveOneRun` | `Spec => []OneRunPerOwner` |
| | `RunningHasThread` | `Spec => []RunningIsTaken` |
| | `FourRequests` | `Spec => []RequestsAreBounded` |
| | `OneBranch` | `Spec => []GrowsFromLastKept` |
| | `HeldIsLeft` | `Spec => []HeldTakesNoSentence` |
| | `RecordsAgree` | `Spec => []TriesAreRecorded` |
| `RefineTurnProofs` | `TurnsAreRead` | `Spec => []Turned` |
| | `TypeCorrect` | `Spec => []TypeOK` |
| | `NeverRefused` | `Spec => []CoreNeverRefuses` |
| | `ActivityIsOfCore` | `Spec => []ActivityAgrees` |
| | `SentencesAreNew` | `Spec => []NoSentenceTwice` |
| `AdmissionProofs` | `MinutesFit` | `Spec => []RequestsFit` |
| | `TokensStay` | `Spec => []TokensFit` |
| | `SlotsAreKept` | `Spec => []SlotsReturn` |
| | `PausesHold` | `Spec => PausesAreKept` |
| | `DaysAreBounded` | `Spec => []DayIsBounded` |

Every safety property of a passing run is in this table; `TypeOK` of the batch
and `RunningIsTaken` of the refinement are proved and in no run's list. Each
invariant that is carried was checked by TLC on the run of its component before
it was proved: `Inductive` of the machine on the `Pipeline_*` runs and of the
host on `Host_recovers`, `Turned` on `Refine_runs`, `TokensCounted`,
`DaysAreCounted` and `CrossersHaveSlots` on `Admission_limits`, the
strengthenings of `PipelineInvariant` on `Pipeline_documents`.

**Assumptions.** The ASSUMEs of `AuthorityState`, `PipelineState`,
`PipelineProperties` and `Pipeline`: the verdicts are subsets of `Ddl` (a
canonical document has no holes, a residual is drawable and not canonical), every
policy passes `RetryPolicy::validate`, the three required policies are present,
`None` is no value, no reason of a commit and not the description a host view
names. Of `MachineView`, `AuthoringHost` and `HostInvariant`: what is written
from a description is a set of documents, bounds are naturals, `None` is no value
of a part of the state that may be absent. Of `BatchLease`, `BatchRun`,
`RefineTurns`, `RefineRuns`, `Admission` and `ProviderAdmission`: bounds are
naturals, a run asks for at most ten moves of the kinds the server admits
together, a lag is less than a window and at most a day, a refusal's wait is at least a window. TLC
evaluates them in every run.

Three theorems have a hypothesis of their own, and in each case the property is
false without it:

* `CompletionsDoNotFeed`: `"complete_holes"` is no command. The author may ask
  for a completion of what was adopted (`machine.rs:4458`); what is proved is that
  the machine by itself never starts one.
* `FirstBasisNamesItsDdl`: `"generate_from_description"` is no command. The
  second generation is the counterexample of `Pipeline_regenerated`.
* `DescriptionsAreRead`: `DescriptionReasons \subseteq Stage1Reasons`. The reason
  outside it is the counterexample of `Host_describes`.

**The machine.** `LiveSnapshotValid` is what `PipelineSnapshot::validate`
checks, and it is not inductive. `validate` says where a kept document, an action
or a delivery may *not* be; the step that falls back to a kept document needs it
to be *there* (`KeptIsThere`), the step into a stage needs the records of its
route (`RouteOfRun`: in particular that a route ending in a description commit
still has an authority that lets a description write), and an acknowledgement
needs the proposal to be one of the current record (`CommitIsProposed`).
`PhasePayload` ties payloads to phases in both directions and `StageHasTime` is
the budget. `Inductive` is the conjunction. The lemmas follow the calls of the
code: first the steps every route ends with (`AskKeeps`, `SettleKeeps`,
`CommitKeeps`, `RetryKeeps`, `AskAgainKeeps`), then the shared tails
(`AfterLawsKeeps`, `SettleStage1Keeps`, `CommitWrittenKeeps`, ...), then one
lemma per action, then `NextKeeps`.

`IdentitiesAreFresh` follows the same calls: every step that enters a phase
issues a new ordinal or leaves none outstanding; a retry is the next attempt.

**What a step may come to.** The properties of a run's history are about the
place a result leads to, and the same tails are reached from six stages. So
`PipelineHistoryProofs` first shows that every result of a provider has one of a
few outcomes (`Outcome`): the same request *again*, with its attempt one higher
or with its feedback used up; a *choice* that completes the catalog's question;
the *end* of the request, which goes on to a later stage of the same route, draws
the review, proposes the document or stops; or the end of a completion.
`ResultComesOut` is that lemma, `StepComesOut` its like for all inputs, and each
theorem is then a look through the outcomes. Two of them need more than
`Inductive`. A laws move holds its base from its first request to its proposal,
and every proposal of it carries a basis (`LawsNameTheirCommit`: while its colors
are asked for the basis is open, for the proposal to fill). In a first generation
a basis is there only between the laws and the proposal, and afterwards it is the
proposed document (`BasisOfGeneration`).

**The host.** One crash may fall between any two of three transactions (the
commit, the save of the acknowledged snapshot, the save of the next), two objects
may hold snapshots of different age, and a commit may be sent twice; what holds
through all of it is not visible in any one of the rows. `Inductive` of
`HostInvariant` says of each copy of a snapshot - the saved one and each object's
- how it stands to the variation's row and to the acknowledged actions: a copy
that waits for a commit is acknowledged *with the very description it would send
again*, or its commit has not happened and the row is the one it was made from.
The second may be true only of the saved snapshot or the one before a saved
cancellation (`Latest`): between any other two snapshots there was an
acknowledgement. Copies of one sequence are the same snapshot (`Same`), so an
object that is not the saved one can only be older, and the compare-and-set
refuses its save. `SettledAgrees` and `CommitIsAdmitted` are read off this;
`DescriptionsAreRead` adds the description to it; for `ImplementsMachine` each
save is one input to the saved snapshot, and everything else a stutter.

**The batch.** `Inductive` adds to the type and the two properties what each
page knows (`PlansKnown`: a line that is no longer pending has a work; who holds
a lease is in a run) and what each drawing is (`WorksKnown`). The count a page
reports is the lines it does not hold pending, and those have works.

**Refinement.** A run is a thread of its own, so the invariant is a conjunction
over runs: `RunOK(r)` for each, and `OneRunPerOwner`. A step of r's thread
preserves `RunOK(r)` (`Preserves`, one lemma per step of the thread) and leaves
the others' state alone. `RunOK` needs to know how the try taken fits the turns
(`StepFits`), that the requests sent and the requests left make at most four
(`ChunkFits`), that the thread's parent is the last kept child (`ParentFits`),
that each child hangs on the last kept before it (`Hangs`), and that a try and
the record of its child agree (`Named`). Both databases and the memory appear in
it, because the argument crosses them: what `GrowsFromLastKept` says of the
edges rests on what the thread remembers. `HeldIsLeft` adds, of the work the run
starts from, that the thread remembers what its start read (`Begun`).

The core is stateless: it reads the turns the runner shows it, and answers the
next try. `Turned` says that the two fit: the recorded turns are ones the core
accepts (`Accepts`), and a try that is under way is still the one the core would
answer (`step[r] = Answer(r)`), so its record makes turns the core accepts again
(`NeverRefused`). For the sentences it needs that an answer which is kept over
the tries of a turn offers only what was not said, or was said in this very turn
at its own rank (`IsOfTurn`); then the rank the core asks for next is one not
said yet (`SentencesAreNew`).

**Admission.** A request sent in a minute was admitted at most `Lag` before, so
its event cannot have left the window of any admission of that minute; all of
them are in the row, and the row never holds more than the limit. The invariant
says so (`SentAreCounted`, `AdmittedAreCounted`, `ReadsAreRecent`, `IdsAreFresh`,
`RowFits`) and that every pause saved is in the row (`PauseIsSaved`). For tokens
the events also have to be worth enough: a request has one event, which holds its
reservation until it is settled and then what was used (`ReservationsStand`,
`UsesAreReserved`, `SentAreReserved`), and no step brings the sum of the row over
the limit (`RowHolds`). The sums are the folds of the community modules; what is
needed of them (they exist, their order makes no difference, what is mapped one
to one to something no less sums up to no more) is shown by a smallest set
without it (`SmallestIsThere`), since an induction theorem cannot be applied.

For the days two more facts are carried. What was counted on the present day -
sent, or admitted and about to be sent (`CountOf`) - is at most what the row shows
for that day, or nothing when the row shows another, plus one limit for each
admission that crossed the midnight before (`DaysAreCounted`): such an admission
drops a count of at most the limit, and a lag of at most a day means that it is of
the day before and of no earlier one. When the day is over what the row showed is
at most the limit, and only admissions that cross its last midnight still add to
it. And an admission that may cross a midnight holds a slot from before it until
it has (`CrossersHaveSlots`), so all that cross one midnight held their slots at
once.

**Only model-checked.** Liveness: `ComesToRest`, `EffectsArePerformed`,
`RunEnds` of a batch and of refinement, `BatchIsOffered`. They rest on fairness,
and ENABLED is outside the prover's reach.

## 6. What is not modelled

* The stage algorithms, the compiler and the renderer: pure functions on texts
  and numbers, and by far the most of the repository's lines. Their possible
  outcomes are choices in the models. What they compute is functional
  correctness, which a state-space search over small instances adds nothing to.
* Envelope decoding, prompt building and size limits, reports and wording.
* Of the server's host: the pixels of an image run, which a restart loses and
  which then cancels the run; `close`, which is a cancel followed by a stop;
  forks, each an execution of its own; the history row a performance is saved as
  and the drafts dropped with deleted works; the cap on retained executions
  except as the eviction it causes.
* Of a batch: the loops over a folder of images and of the command line, the
  refusal of a changed plan, servers without the lease's routes, the prompt
  history, the polling of single executions in `controller.ts`; failure reports
  from before retries carried their context.
* Of refinement: several server processes on one database, the children map of
  `activity`, the runners of the macOS and Android hosts.
* Of admission: the text requests of `text_provider.py`, which take no slot;
  Android's `ProviderAdmission.kt`, the same protocol in another store; the wire.
* The registrations of the ChatGPT plan (`chatgpt_*.py` and
  `chatgpt_auth_policy.rs`): see the plan.
* Hosts other than the server's.
* Starting with an authority record other than the two a host creates
  (`legacy_unknown` records reach no proposal).
