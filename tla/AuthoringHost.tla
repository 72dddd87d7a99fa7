--------------------------- MODULE AuthoringHost ---------------------------
(***************************************************************************)
(* The server's host of one authoring execution: CandidateExecution        *)
(* (pipeline_candidate.py), its threads (PipelineService in                *)
(* pipeline_api.py) and the rows it keeps (VariationAuthorityStore).  The  *)
(* machine it drives is MachineView.                                       *)
(*                                                                         *)
(* A step is what a thread does under one lock or in one transaction.  The *)
(* lock of an object is held from the commit's transaction to the save of  *)
(* the snapshot that acknowledges it; a provider is called without it.     *)
(* Every advance of the machine saves the snapshot it returns, by          *)
(* compare-and-set on the sequence, and keeps it only when that succeeds.  *)
(***************************************************************************)
EXTENDS MachineView

CONSTANTS
  Objects,        \* room for CandidateExecution objects in memory
  Requests,       \* request threads
  Commands,       \* the author commands that are sent
  Contended,      \* whether other executions need the room of this one
  MaxEffectSteps, \* max_effect_steps
  MaxCommands, MaxCrashes,
  MaxSequence     \* from this sequence on a provider is not asked again

ASSUME HostAssumption ==
  /\ Commands \subseteq {"generate", "edit", "complete", "decline", "perform", "cancel"}
  /\ Contended \in BOOLEAN /\ MaxEffectSteps \in Nat \ {0}
  /\ MaxCommands \in Nat /\ MaxCrashes \in Nat /\ MaxSequence \in Nat

VARIABLES
  first,      \* the authority record the execution was started under
  stored,     \* its row: snapshot and context, None before the start
  variation,  \* the row of its variation, None before the first commit
  acks,       \* the acknowledged commit actions
  objects,    \* the CandidateExecution objects that are referenced
  registered, \* the one in _runs, or None
  job,        \* its entry in _jobs, or None
  requests,   \* request threads and the object each holds
  commands, crashes

rows    == <<stored, variation, acks>>
bounds  == <<commands, crashes>>
vars    == <<first, rows, objects, registered, job, requests, bounds>>

Idle == [at |-> "idle", object |-> None]

Init ==
  /\ first \in {NewDescription, NewDirectDdl}
  /\ stored = None /\ variation = None /\ acks = {}
  /\ objects = [o \in Objects |-> None] /\ registered = None
  /\ job = None /\ requests = [r \in Requests |-> Idle]
  /\ commands = 0 /\ crashes = 0
-----------------------------------------------------------------------------
\* Snapshots.  An effect is named by the sequence that issued it.

\* Mutant of After: an effect stays until the next one is issued.
AfterKeepingEffect(s, v) ==
  [view |-> v, sequence |-> s.sequence + 1,
   effect |-> IF Busy(v) THEN s.sequence + 1 ELSE s.effect,
   rendered |-> /\ s.rendered /\ v.document = s.view.document
                /\ v.phase \notin {"asking", "cancelled"}]

\* The snapshot advance returns.  A picture stays while its document does.
After(s, v) ==
  [view |-> v, sequence |-> s.sequence + 1,
   effect |-> IF Busy(v) THEN s.sequence + 1 ELSE None,
   rendered |-> /\ s.rendered /\ v.document = s.view.document
                /\ v.phase \notin {"asking", "cancelled"}]

\* Drawing changes no part the machine decides by.
Drawn(s) == [s EXCEPT !.sequence = s.sequence + 1, !.rendered = TRUE]

\* Mutant of Save: the sequence that is replaced is not compared.
SaveAnyway(o, s, context, fresh, held) ==
  /\ stored' = [snapshot |-> s, context |-> context]
  /\ objects' = [held EXCEPT ![o] = [snapshot |-> s, context |-> context, fresh |-> fresh]]

\* compare_and_set_execution, and the object goes on with what was saved.
Save(o, s, context, fresh, held) ==
  /\ stored.snapshot.sequence = objects[o].snapshot.sequence
  /\ stored' = [snapshot |-> s, context |-> context]
  /\ objects' = [held EXCEPT ![o] = [snapshot |-> s, context |-> context, fresh |-> fresh]]

Stale(o) == stored.snapshot.sequence # objects[o].snapshot.sequence

Running == job # None /\ job.at # "done"
Locked(o) == Running /\ job.at = "save" /\ job.object = o

NewJob(o) == [object |-> o, at |-> "look", effect |-> None, steps |-> 0,
              result |-> None, failed |-> FALSE]
Ended(failed) == [NewJob(None) EXCEPT !.at = "done", !.failed = failed]

\* Mutant of Scheduled: an outstanding commit is not work.
ScheduledForProvider(o, s) ==
  IF ~Running /\ s.view.phase \in {"asking", "completing"} THEN NewJob(o) ELSE job

\* _schedule: nothing while the previous job is not done.
Scheduled(o, s) == IF ~Running /\ Busy(s.view) THEN NewJob(o) ELSE job

\* The objects something still refers to after the step.
Kept(held) ==
  [o \in Objects |->
     IF \/ o = registered'
        \/ (job' # None /\ job'.object = o)
        \/ \E r \in Requests : requests'[r].object = o
     THEN held[o] ELSE None]

Free(o) == objects[o] = None
-----------------------------------------------------------------------------
\* Requests.

\* PipelineService.start: a new object, its first row, its first job.
Start ==
  /\ stored = None /\ variation = None
  /\ \E o \in Objects, v \in Started(Unstarted(first)) :
       LET s == [view |-> v, sequence |-> 0, effect |-> IF Busy(v) THEN 0 ELSE None,
                 rendered |-> FALSE]
           context == [description |-> v.source, committed |-> v.source]
       IN  /\ Free(o) /\ registered' = o
           /\ stored' = [snapshot |-> s, context |-> context]
           /\ objects' = [objects EXCEPT ![o] =
                            [snapshot |-> s, context |-> context, fresh |-> TRUE]]
           /\ job' = Scheduled(o, s)
  /\ UNCHANGED <<first, variation, acks, requests, bounds>>

\* PipelineService.execution: the retained object, or a new one restored from
\* the row.  A request keeps the object it was given.
Open(r) ==
  /\ stored # None /\ requests[r] = Idle
  /\ \/ /\ registered # None
        /\ requests' = [requests EXCEPT ![r] = [at |-> "holding", object |-> registered]]
        /\ UNCHANGED <<objects, registered, job>>
     \/ /\ registered = None
        /\ \E o \in Objects :
             /\ Free(o) /\ registered' = o
             /\ objects' = [objects EXCEPT ![o] =
                  [snapshot |-> stored.snapshot, context |-> stored.context,
                   fresh |-> stored.snapshot.view.authority.revision = 0]]
             /\ job' = Scheduled(o, stored.snapshot)
             /\ requests' = [requests EXCEPT ![r] = [at |-> "holding", object |-> o]]
  /\ UNCHANGED <<first, rows, bounds>>

\* A reading, or a command that is refused: by the machine, or because another
\* object has saved since.
Leave(r) ==
  /\ requests[r].at = "holding"
  /\ requests' = [requests EXCEPT ![r] = Idle]
  /\ UNCHANGED <<first, rows, registered, job, bounds>>
  /\ objects' = Kept(objects)

\* What a command makes of a snapshot.  "perform" draws what is there.
Commanded(c, s) ==
  LET v == s.view
  IN  CASE c = "generate" -> {After(s, w) : w \in Generated(v)}
        [] c = "edit"     -> {After(s, w) : w \in Edited(v)}
        [] c = "complete" -> {After(s, w) : w \in HolesCompleted(v)}
        [] c = "decline"  -> IF v.phase = "rest" /\ v.document # None
                             THEN {After(s, v)} ELSE {}
        [] c = "perform"  -> IF v.phase \in {"rest", "completing"} /\ v.document # None
                             THEN {Drawn(s)} ELSE {}
        [] c = "cancel"   -> {After(s, w) : w \in Cancelled(v)}

\* Mutant of CommandContext: the description is only given to the machine.
SameContext(c, v, context) == context

\* A generation's description is kept with the execution it is sent to.
CommandContext(c, v, context) ==
  IF c = "generate" THEN [context EXCEPT !.description = v.source] ELSE context

\* CandidateExecution.command.
Command(r) ==
  LET o == requests[r].object
  IN  /\ requests[r].at = "holding" /\ ~Locked(o)
      /\ commands < MaxCommands /\ commands' = commands + 1
      /\ \E c \in Commands :
           \E s \in Commanded(c, objects[o].snapshot) :
             Save(o, s, CommandContext(c, s.view, objects[o].context), objects[o].fresh,
                  objects)
      /\ requests' = [requests EXCEPT ![r].at = "scheduling"]
      /\ UNCHANGED <<first, variation, acks, registered, job, crashes>>

\* ... and then, in a step of its own, _schedule.
Schedule(r) ==
  LET o == requests[r].object
  IN  /\ requests[r].at = "scheduling"
      /\ job' = Scheduled(o, objects[o].snapshot)
      /\ requests' = [requests EXCEPT ![r] = Idle]
      /\ UNCHANGED <<first, rows, registered, bounds>>
      /\ objects' = Kept(objects)

\* _reserve_run for another execution: an idle one gives up its place.
Evict ==
  /\ Contended /\ registered # None /\ ~Locked(registered)
  /\ ~Busy(objects[registered].snapshot.view) /\ ~Running
  /\ registered' = None /\ job' = None
  /\ UNCHANGED <<first, rows, requests, bounds>>
  /\ objects' = Kept(objects)
-----------------------------------------------------------------------------
\* The worker: _drain_steps and run_effect.

Worker == IF Running THEN job.object ELSE None

\* An exception ends the job; its object is as it was.
JobFails == /\ job' = Ended(TRUE)
            /\ UNCHANGED <<stored, registered, requests>>
            /\ objects' = Kept(objects)

\* The top of the loop: busy is read, then the snapshot.
JobLook ==
  LET s == objects[Worker].snapshot
  IN  /\ Running /\ job.at = "look"
      /\ \/ /\ ~Busy(s.view)
            /\ job' = [job EXCEPT !.at = "leaving"]
            /\ UNCHANGED <<stored, objects, registered, requests>>
         \/ /\ Busy(s.view) /\ job.steps = MaxEffectSteps
            /\ JobFails
         \/ /\ Busy(s.view) /\ job.steps < MaxEffectSteps
            /\ job' = [job EXCEPT !.at = IF s.view.phase = "completing" /\ ~s.rendered
                                         THEN "render" ELSE "effect"]
            /\ UNCHANGED <<stored, objects, registered, requests>>
      /\ UNCHANGED <<first, variation, acks, bounds>>

\* The safe performance before a completion is asked for.  A cancelled run
\* refuses it, a drawing may be over its limit, and another object may have
\* saved.
JobRender ==
  LET o == Worker
      h == objects[o]
  IN  /\ Running /\ job.at = "render"
      /\ \/ JobFails
         \/ /\ h.snapshot.view.phase = "completing"
            /\ Save(o, Drawn(h.snapshot), h.context, h.fresh, objects)
            /\ job' = [job EXCEPT !.at = "effect"]
            /\ UNCHANGED <<registered, requests>>
      /\ UNCHANGED <<first, variation, acks, bounds>>

Stage1Reasons == {"stage1_generated", "stage1_residual_execution"}

\* The description run_effect sends with a commit.
CommitDescription(h) ==
  IF h.snapshot.view.proposal.reason \in Stage1Reasons
  THEN h.context.description ELSE h.context.committed

\* _transition_allowed and _resolved_context.
Admits(row, proposal, description) ==
  /\ row.authority.origin = proposal.next.origin
  /\ row.authority.authority # "legacy_unknown"
  /\ row.authority.authority = "ddl_authoritative"
       => proposal.next.authority = "ddl_authoritative"
  /\ \/ description = row.description
     \/ /\ proposal.reason \in Stage1Reasons
        /\ row.authority.authority = "description_authoritative"
        /\ proposal.next.authority = "description_authoritative"

\* Mutant of Replayed: the acknowledged actions are not looked up.
NeverReplayed(h) == FALSE

\* _commit_once finds the action acknowledged.
Replayed(h) == \E a \in acks : a.effect = h.snapshot.effect

\* Mutant of Expected: the revision is not compared.
ExpectedAny(h) == variation # None \/ h.fresh

\* The row is the one the proposal was made from; a missing row is created
\* only for an execution that started the variation.
Expected(h) ==
  IF variation = None THEN h.fresh
  ELSE variation.authority.revision = h.snapshot.view.authority.revision

\* commit_effect: what the store answers, raising on "conflict".
CommitResult(h) ==
  LET d == CommitDescription(h)
  IN  IF Replayed(h)
      THEN IF [effect |-> h.snapshot.effect, description |-> d] \in acks
           THEN "replayed" ELSE "conflict"
      ELSE IF ~Expected(h) THEN "failed"
      ELSE IF variation = None \/ Admits(variation, h.snapshot.view.proposal, d)
           THEN "committed" ELSE "conflict"

\* Mutant of Told: the saved description is not noted.
ToldNothing(h) == [h EXCEPT !.fresh = FALSE]

\* What the object notes of a commit before the snapshot is advanced.
Told(h) ==
  LET d == CommitDescription(h)
  IN  [h EXCEPT !.fresh = FALSE,
                !.context.committed = d,
                !.context.description =
                   IF h.snapshot.view.proposal.next.authority = "ddl_authoritative"
                   THEN d ELSE @]

\* run_effect with a commit outstanding: the store's transaction.
JobCommit ==
  LET o == Worker
      h == objects[o]
      p == h.snapshot.view.proposal
      d == CommitDescription(h)
      result == CommitResult(h)
  IN  /\ Running /\ job.at = "effect" /\ h.snapshot.view.phase = "committing"
      /\ \/ /\ result = "conflict"
            /\ JobFails
            /\ UNCHANGED <<variation, acks>>
         \/ /\ result # "conflict"
            /\ job' = [job EXCEPT !.at = "save", !.result = result]
            /\ objects' = [objects EXCEPT ![o] = IF result = "failed" THEN h ELSE Told(h)]
            /\ IF result = "committed"
               THEN /\ variation' = [authority |-> p.next, document |-> p.document,
                                     description |-> d]
                    /\ acks' = acks \cup {[effect |-> h.snapshot.effect, description |-> d]}
               ELSE UNCHANGED <<variation, acks>>
            /\ UNCHANGED <<stored, registered, requests>>
      /\ UNCHANGED <<first, bounds>>

\* ... and, still under the object's lock, the result is advanced and saved.
JobSave ==
  LET o == Worker
      h == objects[o]
  IN  /\ Running /\ job.at = "save"
      /\ \/ /\ Stale(o)
            /\ JobFails
         \/ \E v \in IF job.result = "failed" THEN {Settled(h.snapshot.view)}
                     ELSE Acknowledged(h.snapshot.view) :
              /\ Save(o, After(h.snapshot, v), h.context, h.fresh, objects)
              /\ job' = [job EXCEPT !.at = "look", !.result = None, !.steps = @ + 1]
              /\ UNCHANGED <<registered, requests>>
      /\ UNCHANGED <<first, variation, acks, bounds>>

\* run_effect without a commit: nothing outstanding any more, or a provider is
\* called without the lock.
JobCall ==
  LET s == objects[Worker].snapshot
  IN  /\ Running /\ job.at = "effect" /\ s.view.phase # "committing"
      /\ job' = IF s.effect = None
                THEN [job EXCEPT !.at = "look", !.steps = @ + 1]
                ELSE [job EXCEPT !.at = "calling", !.effect = s.effect]
      /\ UNCHANGED <<first, rows, objects, registered, requests, bounds>>

\* The answer is still the one the machine waits for.
Awaited(s) == s.effect = job.effect

\* The provider answered, a result or a failure.  From MaxSequence on it is not
\* asked again.
JobAnswered ==
  LET o == Worker
      h == objects[o]
      next == [job EXCEPT !.at = "look", !.effect = None, !.steps = @ + 1]
  IN  /\ Running /\ job.at = "calling"
      /\ \/ /\ ~Awaited(h.snapshot)
            /\ job' = next
            /\ UNCHANGED <<stored, objects, registered, requests>>
         \/ /\ Awaited(h.snapshot) /\ Stale(o)
            /\ JobFails
         \/ /\ Awaited(h.snapshot)
            /\ \E v \in Answered(h.snapshot.view) :
                 /\ v.phase = h.snapshot.view.phase => h.snapshot.sequence < MaxSequence
                 /\ Save(o, After(h.snapshot, v), h.context, h.fresh, objects)
            /\ job' = next
            /\ UNCHANGED <<registered, requests>>
      /\ UNCHANGED <<first, variation, acks, bounds>>

\* The loop has returned; only now is the job done.
JobLeave ==
  /\ Running /\ job.at = "leaving"
  /\ job' = Ended(FALSE)
  /\ UNCHANGED <<first, rows, registered, requests, bounds>>
  /\ objects' = Kept(objects)

\* The server stops; its rows remain.
Crash ==
  /\ stored # None /\ crashes < MaxCrashes /\ crashes' = crashes + 1
  /\ objects' = [o \in Objects |-> None] /\ registered' = None
  /\ job' = None /\ requests' = [r \in Requests |-> Idle]
  /\ UNCHANGED <<first, rows, commands>>
-----------------------------------------------------------------------------
Job == JobLook \/ JobRender \/ JobCommit \/ JobSave \/ JobCall \/ JobAnswered \/ JobLeave

Request(r) == Open(r) \/ Leave(r) \/ Command(r) \/ Schedule(r)

Next == Start \/ Job \/ (\E r \in Requests : Request(r)) \/ Evict \/ Crash

Spec == Init /\ [][Next]_vars

\* A worker thread is not starved, a page keeps asking for its execution, and
\* a request that has begun ends.  Nothing is owed a first request, a command,
\* an eviction or a crash.
Served == /\ WF_vars(Job)
          /\ \A r \in Requests : WF_vars(Open(r)) /\ WF_vars(Leave(r) \/ Schedule(r))

FairSpec == Spec /\ Served
=============================================================================
