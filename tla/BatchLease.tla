----------------------------- MODULE BatchLease -----------------------------
(***************************************************************************)
(* The server's side of a batch: the row of its lease (BatchRuns in        *)
(* batch_runs.py) and the drawings under way for its lines, each the       *)
(* execution behind one paint stream (pipeline_compat.py, pipeline_api.py).*)
(*                                                                         *)
(* start and the check that begins a drawing or a rendering hold one lock  *)
(* (PipelineService._lock); update and list only their transaction.  Time  *)
(* is one bit: whether the last heartbeat is younger than LEASE_MS.        *)
(***************************************************************************)
EXTENDS Integers, FiniteSets

CONSTANTS
  Total,      \* the lines of the batch
  MaxLeases,  \* how often its lease is given out
  MaxSends    \* how many drawings are begun

ASSUME BatchAssumption ==
  Total \in Nat \ {0} /\ MaxLeases \in Nat /\ MaxSends \in Nat

Lines == 1 .. Total
Sends == 1 .. MaxSends

VARIABLES
  up,      \* whether the server answers
  record,  \* the row: lease, state, completed, fresh
  works,   \* the drawings: line, lease and how far each is
  sends,   \* how many were begun
  drawn    \* the lines the history has a work of

server == <<up, record, works, sends, drawn>>

NoWork == [line |-> 0, lease |-> 0, at |-> "none"]

LeaseInit ==
  /\ up = TRUE
  /\ record = [lease |-> 0, state |-> "none", completed |-> 0, fresh |-> FALSE]
  /\ works = [i \in Sends |-> NoWork] /\ sends = 0
  /\ drawn = {}
-----------------------------------------------------------------------------
\* What activity lists: a job that is not done, or a rendering in flight.
\* Between the two an execution is in neither.
InFlight(w) == w.at \in {"running", "safe", "cancelling", "rendering"}
Active == \E i \in Sends : InFlight(works[i])

\* Mutant of Shown: an expired lease goes on as running.
ShownRunning == record.state

\* The state list shows to a page.
Shown ==
  IF /\ record.state # "completed" /\ Active
     /\ record.state # "running" \/ ~record.fresh
  THEN "uncertain"
  ELSE IF record.state = "running" /\ ~record.fresh THEN "lease_expired"
  ELSE record.state

Larger(m, n) == IF m > n THEN m ELSE n

Require(lease) ==
  record.lease = lease /\ record.state = "running" /\ record.fresh

\* Mutant of MayStart: drawings under way are not asked for.
MayStartOverActive ==
  /\ record.state # "completed"
  /\ ~(record.state = "running" /\ record.fresh)
  /\ record.lease < MaxLeases

MayStart ==
  /\ record.state # "completed"
  /\ ~Active
  /\ ~(record.state = "running" /\ record.fresh)
  /\ record.lease < MaxLeases

Started == [record EXCEPT !.lease = @ + 1, !.state = "running", !.fresh = TRUE]

\* update accepts a heartbeat of the lease even when it has lapsed.
Held(lease) == record.lease = lease /\ record.state = "running"

MayUpdate(lease, completed, state) ==
  LET known == Larger(record.completed, completed)
  IN /\ Held(lease) /\ completed <= Total
     /\ state = "completed" => known = Total
     /\ state = "finished_with_failures" => known # Total

Updated(completed, state) ==
  [record EXCEPT !.completed = Larger(@, completed), !.state = state,
                 !.fresh = TRUE]

\* LEASE_MS pass without a heartbeat.
Lapse ==
  /\ record.state = "running" /\ record.fresh
  /\ record' = [record EXCEPT !.fresh = FALSE]
  /\ UNCHANGED <<up, works, sends, drawn>>
-----------------------------------------------------------------------------
\* A drawing.  Its stream polls until the job is done, then performs what
\* has no work yet.

Reach(i, at) ==
  /\ works' = [works EXCEPT ![i].at = at]
  /\ UNCHANGED <<up, record, sends>>

\* The safe performance before holes are completed: a work in the history.
JobDraws(i) ==
  /\ works[i].at = "running" /\ Reach(i, "safe")
  /\ drawn' = drawn \cup {works[i].line}

JobEnds(i) ==
  /\ \/ /\ works[i].at \in {"running", "safe"}
        /\ \E at \in {"ended", "failed"} : Reach(i, at)
     \/ works[i].at = "safe" /\ Reach(i, "saved")
     \/ works[i].at = "cancelling" /\ Reach(i, "failed")
  /\ UNCHANGED drawn

\* The check of the lease and the flag of the rendering are one step.
Perform(i) ==
  /\ works[i].at = "ended"
  /\ Reach(i, IF Require(works[i].lease) THEN "rendering" ELSE "failed")
  /\ UNCHANGED drawn

Render(i) ==
  /\ works[i].at = "rendering"
  /\ \/ /\ drawn' = drawn \cup {works[i].line}
        /\ Reach(i, "saved")
     \/ Reach(i, "failed") /\ UNCHANGED drawn

\* The stream finds at one of its events that its reader has gone.
Leave(i) ==
  /\ \/ works[i].at \in {"running", "safe"} /\ Reach(i, "cancelling")
     \/ works[i].at = "ended" /\ Reach(i, "failed")
  /\ UNCHANGED drawn

\* What was in memory is lost; no execution goes on by itself.
Crash ==
  /\ up /\ up' = FALSE
  /\ works' = [i \in Sends |-> [works[i] EXCEPT !.at =
                 IF @ \in {"none", "saved"} THEN @ ELSE "gone"]]
  /\ UNCHANGED <<record, sends, drawn>>

Restart == ~up /\ up' = TRUE /\ UNCHANGED <<record, works, sends, drawn>>
=============================================================================
