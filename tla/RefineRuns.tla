----------------------------- MODULE RefineRuns -----------------------------
(***************************************************************************)
(* The server's autonomous refinement runs (autonomous_refine.py): the     *)
(* rows of the run store, the threads that take the runs, the children     *)
(* they draw and the records on the children's lineage edges.              *)
(*                                                                         *)
(* A thread asks the core for the next try, saves that it is taking it,    *)
(* takes it through an ordinary execution, measures and records its child, *)
(* and saves the try.  Rows and edges live in two databases, and the       *)
(* server may stop between any two steps.                                  *)
(***************************************************************************)
EXTENDS RefineTurns, ChunkTurn

CONSTANTS
  RunIds, OwnerOf,   \* the runs that may be started, and whose each is
  Requests,          \* what the runs may ask for together: moves (0: no run), kinds,
                     \* and what the core reads of the work each starts from
  Workers,           \* the threads of the pool
  MaxFaults          \* saves that fail and crashes, together

ASSUME RunsAssumption ==
  /\ DOMAIN OwnerOf = RunIds
  /\ Workers \in Nat \ {0} /\ MaxFaults \in Nat
  /\ Requests \subseteq
       [RunIds -> [moves : 0 .. 10,
                   kinds : {{"laws"}, {"juxtaposition"}, {"laws", "juxtaposition"}, {"chunks"}},
                   described : BOOLEAN, chunked : BOOLEAN]]

VARIABLES
  asked,        \* what the authors ask for
  up, closing,  \* the server, and AutonomousRunner._closing
  row,          \* the run store
  works,        \* the children each run has drawn, with their edges' records
  pc, stop,     \* a run's thread, and its stop event ("none": not registered)
  parent,       \* the work its next try starts from, as its thread read it
  step,         \* the try it is taking
  answer,       \* the sentences of the turn that asked for them
  chunk,        \* its chunk turn
  sent,         \* the requests of that turn
  unsaved,      \* runs whose end could not be saved
  faults

memory == <<pc, stop, parent, step, answer, chunk, sent>>
vars   == <<asked, up, closing, row, works, memory, unsaved, faults>>

NoRow    == [state |-> "none", moves |-> 0, kinds |-> {}, turns |-> <<>>, current |-> "none", kept |-> 0]
NoParent == [described |-> FALSE, chunked |-> FALSE, child |-> 0]
NoStep   == [to |-> "none", turn |-> 0, attempt |-> 0, rank |-> 0, reuse |-> FALSE]
NoAnswer == [turn |-> 0, choices |-> <<>>]

Init ==
  /\ asked \in Requests
  /\ up = TRUE /\ closing = FALSE
  /\ row = [r \in RunIds |-> NoRow]
  /\ works = [r \in RunIds |-> <<>>]
  /\ pc = [r \in RunIds |-> "none"] /\ stop = [r \in RunIds |-> "none"]
  /\ parent = [r \in RunIds |-> NoParent] /\ step = [r \in RunIds |-> NoStep]
  /\ answer = [r \in RunIds |-> NoAnswer]
  /\ chunk = [r \in RunIds |-> NoChunkTurn] /\ sent = [r \in RunIds |-> 0]
  /\ unsaved = {} /\ faults = 0
-----------------------------------------------------------------------------
\* What the core answers the thread of a run.
Answer(r) == NextTry(row[r].moves, row[r].kinds, parent[r], row[r].turns)

\* A bug: only the runs of this process are looked at.
RunningHere(o) == \E r \in RunIds : OwnerOf[r] = o /\ pc[r] # "none"

Running(o) == \E r \in RunIds : OwnerOf[r] = o /\ row[r].state = "running"

Taken == {r \in RunIds : pc[r] \notin {"none", "starting", "queued"}}

At(r, where) == pc' = [pc EXCEPT ![r] = where]

\* The end of a thread, as its last save leaves the row.
Ends(r, new, state) ==
  /\ row' = [row EXCEPT ![r] = [new EXCEPT !.state = state, !.current = "none"]]
  /\ At(r, "none") /\ stop' = [stop EXCEPT ![r] = "none"]
  /\ UNCHANGED unsaved

\* That save fails too: the thread is gone, and the row says running.
EndsUnsaved(r) ==
  /\ At(r, "none") /\ stop' = [stop EXCEPT ![r] = "none"]
  /\ unsaved' = unsaved \cup {r} /\ UNCHANGED row

\* What a thread does with an error, and with a stop, after `n' failed saves.
Finishes(r, new, state, n) ==
  \/ Ends(r, new, state) /\ faults' = faults + n
  \/ faults + n < MaxFaults /\ EndsUnsaved(r) /\ faults' = faults + n + 1

Breaks(r) == Finishes(r, row[r], "failed", 0)

Stops(r) == Finishes(r, row[r], IF closing THEN "interrupted" ELSE "stopped", 0)

\* Save the run; a save that fails is an error of the run.
Saves(r, new, where) ==
  \/ /\ row' = [row EXCEPT ![r] = new] /\ At(r, where)
     /\ UNCHANGED <<stop, unsaved, faults>>
  \/ faults < MaxFaults /\ Finishes(r, new, "failed", 1)

\* The run with one more try in the turn it belongs to.
Added(r, taken) ==
  LET turns == row[r].turns
      turn  == step[r].turn
  IN  [row[r] EXCEPT
         !.turns = IF turn > Len(turns) THEN Append(turns, <<taken>>)
                   ELSE [turns EXCEPT ![turn] = Append(@, taken)],
         !.current = "none"]

Attempt(r, outcome, sentence, child) ==
  [kind |-> step[r].to, outcome |-> outcome, sentence |-> sentence,
   rank |-> IF sentence = NoSentence THEN 0 ELSE step[r].rank, child |-> child]

\* A try that drew nothing to measure.
Gives(r, outcome, sentence) ==
  Saves(r, Added(r, Attempt(r, outcome, sentence, 0)), "look")

Sentence(r) ==
  IF step[r].to = "juxtaposition" THEN answer[r].choices[step[r].rank] ELSE NoSentence
\* A bug: every turn is taken to have two tries.
TurnsOfTwo(run) ==
  Cardinality({i \in DOMAIN run.turns :
    \/ \E j \in DOMAIN run.turns[i] : run.turns[i][j].outcome = "kept"
    \/ Cardinality({j \in DOMAIN run.turns[i] : run.turns[i][j].outcome # "unavailable"}) >= 2})

\* The turns activity() says a run has taken.
TurnsTaken(run) ==
  Cardinality({i \in DOMAIN run.turns :
    \/ \E j \in DOMAIN run.turns[i] : run.turns[i][j].outcome = "kept"
    \/ Cardinality({j \in DOMAIN run.turns[i] : run.turns[i][j].outcome # "unavailable"})
         >= IF run.kinds = {"chunks"} THEN 1 ELSE 2})
-----------------------------------------------------------------------------
\* Someone starts a run: under the lock, no other of the owner's is running.
Start(r) ==
  /\ up /\ ~closing /\ row[r].state = "none" /\ asked[r].moves > 0
  /\ \A s \in RunIds : pc[s] # "starting"
  /\ ~Running(OwnerOf[r])
  /\ row' = [row EXCEPT ![r] =
       [NoRow EXCEPT !.state = "running", !.moves = asked[r].moves, !.kinds = asked[r].kinds]]
  /\ parent' = [parent EXCEPT ![r] =
       [described |-> asked[r].described, chunked |-> asked[r].chunked, child |-> 0]]
  /\ At(r, "starting")
  /\ UNCHANGED <<asked, up, closing, works, stop, step, answer, chunk, sent, unsaved, faults>>

Submit(r) ==
  /\ up /\ pc[r] = "starting"
  /\ At(r, "queued") /\ stop' = [stop EXCEPT ![r] = "clear"]
  /\ UNCHANGED <<asked, up, closing, row, works, parent, step, answer, chunk, sent, unsaved, faults>>

\* A thread of the pool takes a run that waits for one.
Take(r) ==
  /\ up /\ pc[r] = "queued" /\ Cardinality(Taken) < Workers
  /\ At(r, "look")
  /\ UNCHANGED <<asked, up, closing, row, works, stop, parent, step, answer, chunk, sent, unsaved, faults>>

\* The author stops a run; it is heard where the thread looks for it.
Stop(r) ==
  /\ up /\ row[r].state = "running" /\ stop[r] = "clear"
  /\ stop' = [stop EXCEPT ![r] = "set"]
  /\ UNCHANGED <<asked, up, closing, row, works, pc, parent, step, answer, chunk, sent, unsaved, faults>>
-----------------------------------------------------------------------------
\* The head of the loop: stop, end as the core says, or take the next try.
Look(r) ==
  /\ up /\ pc[r] = "look"
  /\ LET next == Answer(r) IN
     \/ stop[r] = "set" /\ Stops(r) /\ UNCHANGED step
     \/ stop[r] # "set" /\ next.to = "refused" /\ Breaks(r) /\ UNCHANGED step
     \/ /\ stop[r] # "set" /\ next.to = "stop" /\ UNCHANGED step
        /\ \/ Ends(r, row[r], "done") /\ UNCHANGED faults
           \/ faults < MaxFaults /\ Finishes(r, row[r], "failed", 1)
     \/ /\ stop[r] # "set" /\ next.to \notin {"refused", "stop"}
        /\ step' = [step EXCEPT ![r] = next]
        /\ Saves(r, [row[r] EXCEPT !.current = next.to], "try")
  /\ UNCHANGED <<asked, up, closing, works, parent, answer, chunk, sent>>

\* A laws move reads the saved work.
TryLaws(r) ==
  /\ up /\ pc[r] = "try" /\ step[r].to = "laws"
  /\ \/ Gives(r, "unavailable", NoSentence)
     \/ At(r, "settle") /\ UNCHANGED <<row, stop, unsaved, faults>>
  /\ UNCHANGED <<asked, up, closing, works, parent, step, answer, chunk, sent>>

\* A juxtaposition asks for its sentences, or uses the next of its answer.
TryJuxtaposition(r) ==
  LET candidates == Sentences \ Said(row[r].turns)
      keeps == step[r].reuse /\ answer[r].turn = step[r].turn
  IN
  /\ up /\ pc[r] = "try" /\ step[r].to = "juxtaposition"
  /\ \/ ~keeps /\ Gives(r, "unavailable", NoSentence) /\ UNCHANGED answer
     \/ ~keeps /\ Cardinality(candidates) >= Choices /\ Gives(r, "failed", NoSentence) /\ UNCHANGED answer
     \/ /\ ~keeps
        /\ \E choices \in [1 .. Choices -> candidates] :
             /\ \A i, j \in 1 .. Choices : choices[i] = choices[j] => i = j
             /\ answer' = [answer EXCEPT ![r] = [turn |-> step[r].turn, choices |-> choices]]
        /\ At(r, "settle") /\ UNCHANGED <<row, stop, unsaved, faults>>
     \/ keeps /\ At(r, "settle") /\ UNCHANGED <<answer, row, stop, unsaved, faults>>
  /\ UNCHANGED <<asked, up, closing, works, parent, step, chunk, sent>>

\* A chunk move reads the saved work and asks the core for its first request.
TryChunks(r) ==
  /\ up /\ pc[r] = "try" /\ step[r].to = "chunks"
  /\ \/ Gives(r, "unavailable", NoSentence) /\ UNCHANGED chunk
     \/ /\ At(r, "turn") /\ chunk' = [chunk EXCEPT ![r] = ChunkStart]
        /\ UNCHANGED <<row, stop, unsaved, faults>>
  /\ sent' = [sent EXCEPT ![r] = 0]
  /\ UNCHANGED <<asked, up, closing, works, parent, step, answer>>

\* The chunk move does what the core says, unless it is stopped.
Turn(r) ==
  /\ up /\ pc[r] = "turn"
  /\ \/ stop[r] = "set" /\ Stops(r)
     \/ /\ stop[r] # "set"
        /\ CASE chunk[r].stage = "skip" -> Gives(r, "failed", NoSentence)
             [] chunk[r].stage = "draw" -> At(r, "settle") /\ UNCHANGED <<row, stop, unsaved, faults>>
             [] OTHER -> At(r, "send") /\ UNCHANGED <<row, stop, unsaved, faults>>
  /\ UNCHANGED <<asked, up, closing, works, parent, step, answer, chunk, sent>>

\* A request fails, is stopped before it is sent once more, or is answered.
Send(r) ==
  /\ up /\ pc[r] = "send"
  /\ \/ Gives(r, "failed", NoSentence) /\ UNCHANGED chunk
     \/ stop[r] = "set" /\ Stops(r) /\ UNCHANGED chunk
     \/ /\ \E s \in Answered(chunk[r]) : chunk' = [chunk EXCEPT ![r] = s]
        /\ At(r, "turn") /\ UNCHANGED <<row, stop, unsaved, faults>>
  /\ sent' = [sent EXCEPT ![r] = @ + 1]
  /\ UNCHANGED <<asked, up, closing, works, parent, step, answer>>

\* A child reaches the history, with the edge that leads to it.
Child(r) == [turn |-> step[r].turn, attempt |-> step[r].attempt, kind |-> step[r].to,
             from |-> parent[r].child, move |-> "none"]

Saved(r) == works' = [works EXCEPT ![r] = Append(@, Child(r))]

\* The execution of a try ends: with a child, with none, or cancelled.  A
\* cancelled one may have saved its child by then.
Settle(r) ==
  /\ up /\ pc[r] = "settle"
  /\ \/ Saved(r) /\ At(r, "drawn") /\ UNCHANGED <<row, stop, unsaved, faults, chunk>>
     \/ step[r].to # "chunks" /\ Gives(r, "failed", Sentence(r)) /\ UNCHANGED <<works, chunk>>
     \/ step[r].to = "laws" /\ Gives(r, "unavailable", NoSentence) /\ UNCHANGED <<works, chunk>>
     \/ /\ step[r].to = "chunks" /\ UNCHANGED <<works, row, stop, unsaved, faults>>
        /\ \E s \in NotDrawn(chunk[r]) : chunk' = [chunk EXCEPT ![r] = s]
        /\ At(r, "turn")
     \/ stop[r] = "set" /\ Stops(r) /\ (Saved(r) \/ UNCHANGED works) /\ UNCHANGED chunk
  /\ UNCHANGED <<asked, up, closing, parent, step, answer, sent>>

\* Bugs: no record at all, or one on the edge of the parent.
RecordedNowhere(r, outcome) == UNCHANGED works

RecordedOnParent(r, outcome) ==
  works' = [works EXCEPT ![r][IF parent[r].child = 0 THEN 1 ELSE parent[r].child].move = outcome]

\* The record on the child's edge: kept when it is visibly different.
Recorded(r, outcome) ==
  works' = [works EXCEPT ![r][Len(works[r])].move = outcome]

\* A child is measured, and its move written on its edge.
Measure(r) ==
  /\ up /\ pc[r] = "drawn" /\ step[r].to # "chunks"
  /\ \/ /\ Records(row[r].moves, step[r].turn, step[r].attempt)
        /\ \E outcome \in {"kept", "not_visible"} : Recorded(r, outcome)
        /\ At(r, "measured") /\ UNCHANGED <<row, stop, unsaved, faults>>
     \/ Breaks(r) /\ UNCHANGED works
  /\ UNCHANGED <<asked, up, closing, parent, step, answer, chunk, sent>>

\* A chunk move's child is checked by the core first, and no gate is applied.
MeasureChunk(r) ==
  /\ up /\ pc[r] = "drawn" /\ step[r].to = "chunks"
  /\ \/ \E s \in Drawn(chunk[r]) :
          /\ chunk' = [chunk EXCEPT ![r] = s]
          /\ IF s.stage = "keep" THEN Recorded(r, "kept") /\ At(r, "measured")
                                 ELSE At(r, "turn") /\ UNCHANGED works
          /\ UNCHANGED <<row, stop, unsaved, faults>>
     \/ Breaks(r) /\ UNCHANGED <<works, chunk>>
  /\ UNCHANGED <<asked, up, closing, parent, step, answer, sent>>

\* Bugs: the next try starts from the work before, or reads it as the start was.
ParentBefore(r) ==
  [described |-> step[r].to = "juxtaposition", chunked |-> step[r].to = "chunks", child |-> parent[r].child]

ParentAsStart(r) ==
  [described |-> asked[r].described, chunked |-> asked[r].chunked, child |-> Len(works[r])]

\* What the thread reads of a kept child: one drawn from a DDL is held by it.
ParentOf(r) ==
  [described |-> step[r].to = "juxtaposition", chunked |-> step[r].to = "chunks", child |-> Len(works[r])]

IsKept(r) == works[r][Len(works[r])].move = "kept"

\* The run with the try of its measured child.
WithChild(r) ==
  LET child == Len(works[r])
      taken == Added(r, Attempt(r, works[r][child].move, Sentence(r), child))
  IN  IF IsKept(r) THEN [taken EXCEPT !.kept = child] ELSE taken

\* The try is added; a kept child is the next parent, when it can be read.
Keep(r) ==
  /\ up /\ pc[r] = "measured"
  /\ \/ /\ Saves(r, WithChild(r), "look")
        /\ parent' = IF IsKept(r) THEN [parent EXCEPT ![r] = ParentOf(r)] ELSE parent
     \/ IsKept(r) /\ Finishes(r, WithChild(r), "failed", 0) /\ UNCHANGED parent
  /\ UNCHANGED <<asked, up, closing, works, step, answer, chunk, sent>>
-----------------------------------------------------------------------------
\* The server closes: every run is asked to stop, what is queued never runs.
Close ==
  /\ up /\ ~closing /\ \A r \in RunIds : pc[r] # "starting"
  /\ closing' = TRUE
  /\ stop' = [r \in RunIds |-> IF stop[r] = "none" THEN "none" ELSE "set"]
  /\ pc' = [r \in RunIds |-> IF pc[r] = "queued" THEN "none" ELSE pc[r]]
  /\ UNCHANGED <<asked, up, row, works, parent, step, answer, chunk, sent, unsaved, faults>>

\* The process is gone, and what its threads knew with it.
Gone ==
  /\ up' = FALSE
  /\ pc' = [r \in RunIds |-> "none"] /\ stop' = [r \in RunIds |-> "none"]
  /\ parent' = [r \in RunIds |-> NoParent] /\ step' = [r \in RunIds |-> NoStep]
  /\ answer' = [r \in RunIds |-> NoAnswer]
  /\ chunk' = [r \in RunIds |-> NoChunkTurn] /\ sent' = [r \in RunIds |-> 0]
  /\ UNCHANGED <<asked, closing, row, works, unsaved>>

Exit == up /\ closing /\ (\A r \in RunIds : pc[r] = "none") /\ Gone /\ UNCHANGED faults

Crash == up /\ faults < MaxFaults /\ Gone /\ faults' = faults + 1

\* A bug: what was running stays so.
RestartUnmarked ==
  /\ ~up /\ up' = TRUE /\ closing' = FALSE /\ unsaved' = {}
  /\ UNCHANGED <<asked, row, works, memory, faults>>

\* The next start marks what was running.
Restart ==
  /\ ~up /\ up' = TRUE /\ closing' = FALSE
  /\ row' = [r \in RunIds |-> IF row[r].state = "running"
                              THEN [row[r] EXCEPT !.state = "interrupted", !.current = "none"]
                              ELSE row[r]]
  /\ unsaved' = {}
  /\ UNCHANGED <<asked, works, memory, faults>>
-----------------------------------------------------------------------------
Thread(r) ==
  \/ Submit(r) \/ Take(r) \/ Look(r) \/ TryLaws(r) \/ TryJuxtaposition(r) \/ TryChunks(r)
  \/ Turn(r) \/ Send(r) \/ Settle(r) \/ Measure(r) \/ MeasureChunk(r) \/ Keep(r)

Next ==
  \/ \E r \in RunIds : Start(r) \/ Stop(r) \/ Thread(r)
  \/ Close \/ Exit \/ Crash \/ Restart

Spec == Init /\ [][Next]_vars

\* Threads go on, executions end (see the authoring machine), a closed server
\* exits when its threads have ended, and a server that is down is started.
Fairness ==
  /\ \A r \in RunIds : WF_vars(Thread(r))
  /\ WF_vars(Exit) /\ WF_vars(Restart)

FairSpec == Spec /\ Fairness
=============================================================================
