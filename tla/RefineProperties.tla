------------------------- MODULE RefineProperties -------------------------
(***************************************************************************)
(* What the runs keep while they are stopped, saves fail and the server    *)
(* closes or crashes.                                                      *)
(***************************************************************************)
EXTENDS RefineRuns

Outcomes == {"kept", "not_visible", "failed", "unavailable"}
MoveKinds == {"laws", "juxtaposition", "chunks"}

TryOK(a) ==
  /\ DOMAIN a = {"kind", "outcome", "sentence", "rank", "child"}
  /\ a.kind \in MoveKinds /\ a.outcome \in Outcomes
  /\ a.sentence \in Sentences \cup {NoSentence} /\ a.rank \in 0 .. Choices /\ a.child \in Nat

\* Types of every variable (AutonomousRunRow, TurnState, and the fields and
\* locals of AutonomousRunner).
TypeOK ==
  /\ up \in BOOLEAN /\ closing \in BOOLEAN
  /\ \A r \in RunIds :
       /\ row[r].state \in {"none", "running", "done", "stopped", "failed", "interrupted"}
       /\ row[r].current \in MoveKinds \cup {"none"}
       /\ \A i \in DOMAIN row[r].turns : \A j \in DOMAIN row[r].turns[i] : TryOK(row[r].turns[i][j])
       /\ row[r].kept \in 0 .. Len(works[r]) /\ parent[r].child \in 0 .. Len(works[r])
       /\ pc[r] \in {"none", "starting", "queued", "look", "try", "turn", "send", "settle", "drawn", "measured"}
       /\ stop[r] \in {"none", "clear", "set"}
       /\ chunk[r].stage \in {"none", "choose", "rewrite", "draw", "keep", "skip"}
  /\ unsaved \subseteq RunIds /\ faults \in 0 .. MaxFaults

\* "An owner has one run going at a time": the check and the first save are
\* one step under the lock, whatever else ends, closes or restarts meanwhile.
OneRunPerOwner ==
  \A r, s \in RunIds :
    r # s /\ OwnerOf[r] = OwnerOf[s] => ~(row[r].state = "running" /\ row[s].state = "running")

\* A row that says running has a thread, or one is coming: only a server that
\* closed or went down, or an end that could not be saved, leaves it without.
RunningIsTaken ==
  \A r \in RunIds :
    row[r].state = "running" /\ up /\ ~closing /\ r \notin unsaved => pc[r] # "none"

\* The core never refuses what the runner feeds it: the turns it has built
\* are in order, and every drawn child's try is one a record may name.
CoreNeverRefuses ==
  \A r \in RunIds :
    /\ pc[r] = "look" => Answer(r).to # "refused"
    /\ pc[r] = "drawn" => Records(row[r].moves, step[r].turn, step[r].attempt)

\* The server counts a run's turns for its activity as the core does when it
\* stops the run, and never more than it was asked for.
ActivityAgrees ==
  \A r \in RunIds :
    /\ TurnsTaken(row[r]) = TurnsDone(row[r].kinds, row[r].turns)
    /\ TurnsTaken(row[r]) <= row[r].moves

\* The two databases agree: a try that names a child has the record of that
\* child's edge, written before it.  A child whose run was cut off before its
\* try was saved may have its record, but no try names another's.
TriesAreRecorded ==
  \A r \in RunIds :
    \A i \in DOMAIN row[r].turns : \A j \in DOMAIN row[r].turns[i] :
      LET taken == row[r].turns[i][j] IN
      taken.child # 0 =>
        /\ taken.child <= Len(works[r])
        /\ works[r][taken.child].turn = i /\ works[r][taken.child].attempt = j
        /\ works[r][taken.child].kind = taken.kind
        /\ works[r][taken.child].move = taken.outcome

\* "A child that passes the gate is the next turn's parent": every child hangs
\* on the last child kept before it, so the run's kept works are one branch.
GrowsFromLastKept ==
  \A r \in RunIds : \A c \in DOMAIN works[r] :
    LET before == {k \in 1 .. c - 1 : works[r][k].move = "kept"} IN
    IF before = {} THEN works[r][c].from = 0
    ELSE works[r][c].from \in before /\ \A k \in before : k <= works[r][c].from

\* No sentence is added to a work that is held by its DDL, which would be
\* drawn from a description that no longer says what it is: neither to the work
\* the run started from, nor to one it kept.
HeldTakesNoSentence ==
  \A r \in RunIds : \A c \in DOMAIN works[r] :
    LET from == works[r][c].from IN
    works[r][c].kind = "juxtaposition" =>
      IF from = 0 THEN asked[r].described ELSE works[r][from].kind = "juxtaposition"

\* A sentence the run has added is not offered again, from any answer.
NoSentenceTwice ==
  \A r \in RunIds :
    LET turns == row[r].turns
        places == {p \in (DOMAIN turns) \X (1 .. TriesPerTurn + 1) :
                     p[2] \in DOMAIN turns[p[1]] /\ turns[p[1]][p[2]].sentence # NoSentence}
    IN  \A p, q \in places :
          turns[p[1]][p[2]].sentence = turns[q[1]][q[2]].sentence => p = q

\* The core asks for four requests at most in a chunk turn: choose and rewrite,
\* each again once, however its answers and drawings come out.  (The server may
\* repeat the transmission of each once, and does not count that.)
RequestsAreBounded == \A r \in RunIds : sent[r] <= 4

\* Every run ends: by its moves, a stop, an error, or the next start; only an
\* end that could not be saved keeps it running till then.  (To be again and
\* again no running run is the same as that running leads to an end.)
RunEnds ==
  \A r \in RunIds : []<>(row[r].state # "running" \/ r \in unsaved)
=============================================================================
