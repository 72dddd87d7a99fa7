---------------------------- MODULE RefineProofs ----------------------------
(***************************************************************************)
(* Proofs about autonomous refinement runs, for any runs, owners, requests, *)
(* threads and faults.  Every run carries its own invariant RunOK, which    *)
(* relates its row, its thread and its children; the step of one run's      *)
(* thread leaves the others as they were.                                   *)
(***************************************************************************)
EXTENDS RefineProperties, FiniteSetTheorems, TLAPS

Tried     == [kind : MoveKinds, outcome : Outcomes, sentence : Sentences \cup {NoSentence},
              rank : Nat, child : Nat]
RunStates == {"none", "running", "done", "stopped", "failed", "interrupted"}
Over      == {"done", "stopped", "failed", "interrupted"}
Rows      == [state : RunStates, moves : Nat, kinds : SUBSET MoveKinds, turns : Seq(Seq(Tried)),
              current : MoveKinds \cup {"none"}, kept : Nat]
Children  == [turn : Nat, attempt : Nat, kind : MoveKinds, from : Nat, move : Outcomes \cup {"none"}]
Parents   == [described : BOOLEAN, chunked : BOOLEAN, child : Nat]
Steps     == [to : MoveKinds \cup {"none"}, turn : Nat, attempt : Nat, rank : Nat, reuse : BOOLEAN]
Rankings  == [1 .. Choices -> Sentences]
Answers   == {NoAnswer} \cup [turn : Nat \ {0}, choices : Rankings]
ChunkTurns == [stage : {"none", "choose", "rewrite", "draw", "keep", "skip"}, tries : {0, 1},
               via : {"none", "choose", "rewrite"}]
Places    == {"none", "starting", "queued", "look", "try", "turn", "send", "settle", "drawn", "measured"}
Trying    == {"try", "turn", "send", "settle", "drawn", "measured"}

Typed ==
  /\ up \in BOOLEAN /\ closing \in BOOLEAN /\ unsaved \subseteq RunIds /\ faults \in Nat
  /\ asked \in Requests
  /\ row \in [RunIds -> Rows] /\ works \in [RunIds -> Seq(Children)]
  /\ pc \in [RunIds -> Places] /\ stop \in [RunIds -> {"none", "clear", "set"}]
  /\ parent \in [RunIds -> Parents] /\ step \in [RunIds -> Steps] /\ answer \in [RunIds -> Answers]
  /\ chunk \in [RunIds -> ChunkTurns] /\ sent \in [RunIds -> Nat]
-----------------------------------------------------------------------------
\* A run not started has nothing, and a server that is down no threads.
Unstarted(r) ==
  /\ row[r].state = "none" => pc[r] = "none" /\ works[r] = <<>>
  /\ ~up => pc[r] = "none"
  /\ row[r].state = "running" /\ up /\ ~closing /\ r \notin unsaved => pc[r] # "none"

\* The try being taken is the next one of the turns so far.
Fits(turns, turn, attempt) ==
  \/ turn = Len(turns) + 1 /\ attempt = 1
  \/ turn = Len(turns) /\ turn > 0 /\ attempt = Len(turns[turn]) + 1

StepFits(r) ==
  pc[r] \in Trying =>
    /\ step[r].to \in MoveKinds
    /\ Fits(row[r].turns, step[r].turn, step[r].attempt)
    /\ step[r].to = "juxtaposition" => parent[r].described /\ step[r].rank \in 1 .. Choices
    /\ pc[r] \in {"turn", "send"} => step[r].to = "chunks"
    /\ pc[r] \in {"settle", "drawn", "measured"} /\ step[r].to = "juxtaposition" =>
         answer[r].choices \in Rankings

\* The requests a chunk turn may still send.
Left(s) ==
  CASE s.stage = "choose"  -> IF s.tries = 0 THEN 4 ELSE 3
    [] s.stage = "rewrite" -> IF s.tries = 0 THEN 2 ELSE 1
    [] s.stage = "draw"    -> IF s.tries = 1 THEN 0 ELSE IF s.via = "choose" THEN 3 ELSE 1
    [] OTHER               -> 0

ChunkFits(r) ==
  /\ sent[r] <= 4
  /\ pc[r] = "turn" => chunk[r].stage \in {"choose", "rewrite", "draw", "skip"}
  /\ pc[r] = "send" => chunk[r].stage \in {"choose", "rewrite"}
  /\ pc[r] \in {"settle", "drawn"} /\ step[r].to = "chunks" => chunk[r].stage = "draw"
  /\ pc[r] \in {"turn", "send", "settle", "drawn"} /\ step[r].to = "chunks" =>
       /\ chunk[r].stage = "draw" => chunk[r].via # "none"
       /\ sent[r] + Left(chunk[r]) <= 4

\* `c' is the last child kept among the first `n' (0: none).
IsLastKept(children, n, c) ==
  /\ c \in 0 .. n
  /\ c # 0 => children[c].move = "kept"
  /\ \A k \in c + 1 .. n : children[k].move # "kept"

ParentFits(r) ==
  /\ pc[r] \in (Places \ {"none", "measured"}) => IsLastKept(works[r], Len(works[r]), parent[r].child)
  /\ pc[r] = "measured" => IsLastKept(works[r], Len(works[r]) - 1, parent[r].child)
  /\ pc[r] # "none" /\ parent[r].child # 0 /\ parent[r].described =>
       works[r][parent[r].child].kind = "juxtaposition"
  /\ pc[r] \in {"drawn", "measured"} =>
       /\ works[r] # <<>>
       /\ LET last == works[r][Len(works[r])] IN
          /\ last.turn = step[r].turn /\ last.attempt = step[r].attempt /\ last.kind = step[r].to
          /\ IF pc[r] = "drawn" THEN last.move = "none" ELSE last.move \in Outcomes

Hangs(r) ==
  \A c \in DOMAIN works[r] :
    /\ IsLastKept(works[r], c - 1, works[r][c].from)
    /\ works[r][c].kind = "juxtaposition" /\ works[r][c].from # 0 =>
         works[r][works[r][c].from].kind = "juxtaposition"

\* Every try that names one of the first `n' children is that child's.
TriesName(turns, children, n) ==
  \A i \in DOMAIN turns : \A j \in DOMAIN turns[i] :
    turns[i][j].child # 0 =>
      /\ turns[i][j].child <= n
      /\ children[turns[i][j].child].turn = i /\ children[turns[i][j].child].attempt = j
      /\ children[turns[i][j].child].kind = turns[i][j].kind
      /\ children[turns[i][j].child].move = turns[i][j].outcome

\* The child being measured has no try yet.
Named(r) ==
  TriesName(row[r].turns, works[r],
            IF pc[r] \in {"drawn", "measured"} THEN Len(works[r]) - 1 ELSE Len(works[r]))

\* What the run reads of the work it starts from, and what it makes of it.
Begun(r) ==
  /\ pc[r] # "none" /\ parent[r].child = 0 => parent[r].described = asked[r].described
  /\ \A c \in DOMAIN works[r] :
       works[r][c].kind = "juxtaposition" /\ works[r][c].from = 0 => asked[r].described

RunOK(r) == Unstarted(r) /\ StepFits(r) /\ ChunkFits(r) /\ ParentFits(r) /\ Hangs(r) /\ Named(r)

Inductive == Typed /\ OneRunPerOwner /\ \A r \in RunIds : RunOK(r)
-----------------------------------------------------------------------------
\* What a step of its thread does to a run: it goes to one of `places' with
\* its row as `new', or ends, with its row saved as over or not saved.
Goes(r, new, places) ==
  /\ pc' = [pc EXCEPT ![r] = pc'[r]] /\ pc'[r] \in places \cup {"none"}
  /\ stop' = [stop EXCEPT ![r] = stop'[r]] /\ stop'[r] \in {"none", "clear", "set"}
  /\ row' = [row EXCEPT ![r] = row'[r]] /\ row'[r] \in Rows
  /\ row'[r].turns \in {row[r].turns, new.turns}
  /\ unsaved' \in {unsaved, unsaved \cup {r}} /\ faults' \in Nat
  /\ \/ pc'[r] \in places /\ row'[r].state = row[r].state /\ row'[r].turns = new.turns /\ unsaved' = unsaved
     \/ pc'[r] = "none" /\ (row'[r].state \in Over \/ (row' = row /\ unsaved' = unsaved \cup {r}))

LEMMA FinishesGoes ==
  ASSUME Typed, NEW r \in RunIds, NEW new \in Rows, NEW state \in Over, NEW n \in Nat,
         Finishes(r, new, state, n)
  PROVE  Goes(r, new, {})
<1>1. CASE Ends(r, new, state) /\ faults' = faults + n
  <2> DEFINE over == [new EXCEPT !.state = state, !.current = "none"]
  <2> DEFINE mid == [new EXCEPT !.state = state]
  <2>1. mid \in Rows /\ mid.turns = new.turns /\ mid.state \in Over
    BY DEF Rows, Over, RunStates
  <2>2. over \in Rows /\ over.turns = new.turns /\ over.state \in Over
    <3>1. over = [mid EXCEPT !.current = "none"]
      OBVIOUS
    <3> HIDE DEF mid, over
    <3> QED
      BY <2>1, <3>1 DEF Rows
  <2>3. row' = [row EXCEPT ![r] = over] /\ pc' = [pc EXCEPT ![r] = "none"]
        /\ stop' = [stop EXCEPT ![r] = "none"] /\ unsaved' = unsaved
    BY <1>1 DEF Ends, At
  <2>4. faults' \in Nat
    BY <1>1 DEF Typed
  <2> HIDE DEF over
  <2>5. row'[r] = over /\ pc'[r] = "none" /\ stop'[r] = "none"
    BY <2>3 DEF Typed
  <2>6. row' = [row EXCEPT ![r] = row'[r]] /\ pc' = [pc EXCEPT ![r] = pc'[r]]
        /\ stop' = [stop EXCEPT ![r] = stop'[r]]
    BY <2>3, <2>5
  <2> QED
    BY <2>2, <2>3, <2>4, <2>5, <2>6 DEF Goes
<1>2. CASE EndsUnsaved(r) /\ faults' = faults + n + 1
  <2>1. pc' = [pc EXCEPT ![r] = "none"] /\ stop' = [stop EXCEPT ![r] = "none"]
        /\ unsaved' = unsaved \cup {r} /\ row' = row /\ faults' \in Nat
    BY <1>2 DEF EndsUnsaved, At, Typed
  <2>2. row'[r] \in Rows /\ pc'[r] = "none" /\ stop'[r] = "none"
    BY <2>1 DEF Typed
  <2>3. row' = [row EXCEPT ![r] = row'[r]]
    BY <2>1 DEF Typed
  <2> QED
    BY <2>1, <2>2, <2>3 DEF Goes
<1> QED
  BY <1>1, <1>2 DEF Finishes

LEMMA SavesGoes ==
  ASSUME Typed, NEW r \in RunIds, NEW new \in Rows, NEW where \in Places,
         new.state = row[r].state, Saves(r, new, where)
  PROVE  Goes(r, new, {where})
<1>1. CASE /\ row' = [row EXCEPT ![r] = new] /\ At(r, where)
           /\ UNCHANGED <<stop, unsaved, faults>>
  <2>1. row'[r] = new /\ pc'[r] = where /\ pc' = [pc EXCEPT ![r] = where]
    BY <1>1 DEF At, Typed
  <2>2. stop' = [stop EXCEPT ![r] = stop'[r]] /\ stop'[r] \in {"none", "clear", "set"}
    BY <1>1 DEF Typed
  <2> QED
    BY <1>1, <2>1, <2>2 DEF Goes, Typed
<1>2. CASE Finishes(r, new, "failed", 1)
  <2>1. Goes(r, new, {})
    BY <1>2, FinishesGoes DEF Over
  <2> QED
    BY <2>1 DEF Goes
<1> QED
  BY <1>1, <1>2 DEF Saves

\* A step that leaves the row alone.
LEMMA StaysGoes ==
  ASSUME Typed, NEW r \in RunIds, NEW where \in Places, At(r, where),
         UNCHANGED <<row, stop, unsaved, faults>>
  PROVE  Goes(r, row[r], {where})
<1>1. pc' = [pc EXCEPT ![r] = where] /\ pc'[r] = where
  BY DEF At, Typed
<1>2. row' = [row EXCEPT ![r] = row'[r]] /\ row'[r] \in Rows
  BY DEF Typed
<1>3. stop' = [stop EXCEPT ![r] = stop'[r]] /\ stop'[r] \in {"none", "clear", "set"}
  BY DEF Typed
<1> QED
  BY <1>1, <1>2, <1>3 DEF Goes, Typed

LEMMA StopsGoes ==
  ASSUME Typed, NEW r \in RunIds, Stops(r) \/ Breaks(r)
  PROVE  Goes(r, row[r], {})
<1>1. row[r] \in Rows /\ 0 \in Nat
  BY DEF Typed
<1>2. (IF closing THEN "interrupted" ELSE "stopped") \in Over /\ "failed" \in Over
  BY DEF Over
<1> QED
  BY <1>1, <1>2, FinishesGoes DEF Stops, Breaks

\* A wider set of places.
LEMMA GoesWider ==
  ASSUME NEW r, NEW new, NEW S, NEW T, S \subseteq T, Goes(r, new, S)
  PROVE  Goes(r, new, T)
BY DEF Goes
-----------------------------------------------------------------------------
\* The turn that is open, as the core reads turns it accepts.
LEMMA CountedIsFinite ==
  ASSUME NEW turn \in Seq(Tried)
  PROVE  IsFiniteSet(Counted(turn)) /\ Cardinality(Counted(turn)) \in Nat
<1>1. Counted(turn) \in SUBSET (1 .. Len(turn))
  BY DEF Counted
<1>2. IsFiniteSet(1 .. Len(turn))
  BY FS_Interval
<1> QED
  BY <1>1, <1>2, FS_Subset, FS_CardinalityType

LEMMA OpenTurn ==
  ASSUME NEW m, NEW k, NEW t \in Seq(Seq(Tried)), Accepts(m, k, t)
  PROVE  /\ Open(k, t) \in Seq(Tried) /\ TurnsDone(k, t) \in Nat
         /\ Fits(t, TurnsDone(k, t) + 1, Len(Open(k, t)) + 1)
         /\ Cardinality(Counted(Open(k, t))) < Tries(k)
<1>0. Len(t) \in Nat /\ DOMAIN t = 1 .. Len(t) /\ \A i \in 1 .. Len(t) : t[i] \in Seq(Tried)
  OBVIOUS
<1>1. CASE t # <<>> /\ ~Finished(t[Len(t)], k)
  <2>1. Len(t) > 0 /\ Len(t) \in DOMAIN t
    BY <1>0, <1>1
  <2>2. TurnsDone(k, t) = Len(t) - 1 /\ Open(k, t) = t[Len(t)]
    BY <1>0, <1>1, <2>1 DEF TurnsDone, Open
  <2>3. t[Len(t)] # <<>> /\ Cardinality(Counted(t[Len(t)])) <= Tries(k)
    BY <2>1 DEF Accepts, InOrder
  <2>4. Cardinality(Counted(t[Len(t)])) # Tries(k)
    BY <1>1 DEF Finished
  <2>5. t[Len(t)] \in Seq(Tried)
    BY <1>0, <2>1
  <2>6. Cardinality(Counted(t[Len(t)])) \in Nat /\ Tries(k) \in Nat
    BY <2>5, CountedIsFinite DEF Tries, TriesPerTurn
  <2>7. Cardinality(Counted(t[Len(t)])) < Tries(k)
    BY <2>3, <2>4, <2>6
  <2>8. Fits(t, Len(t), Len(t[Len(t)]) + 1)
    BY <2>1 DEF Fits
  <2> QED
    BY <1>0, <2>1, <2>2, <2>7, <2>8
<1>2. CASE ~(t # <<>> /\ ~Finished(t[Len(t)], k))
  <2>0. TurnsDone(k, t) = Len(t)
    BY <1>2 DEF TurnsDone
  <2>1. TurnsDone(k, t) = Len(t) /\ Open(k, t) = <<>>
    BY <1>0, <2>0 DEF Open
  <2>2. Counted(<<>>) = {} /\ Cardinality({}) = 0
    BY FS_EmptySet DEF Counted
  <2>3. Cardinality(Counted(Open(k, t))) < Tries(k)
    <3>1. Cardinality(Counted(Open(k, t))) = 0
      BY <2>1, <2>2
    <3>2. Tries(k) \in {1, 2}
      BY DEF Tries, TriesPerTurn
    <3> QED
      BY <3>1, <3>2
  <2>4. Fits(t, Len(t) + 1, 1) /\ Len(<<>>) + 1 = 1
    BY DEF Fits
  <2> QED
    BY <1>0, <2>1, <2>3, <2>4
<1> QED
  BY <1>1, <1>2

LEMMA RankIsOne ==
  ASSUME NEW turn \in Seq(Tried), Cardinality(Counted(turn)) < 2
  PROVE  Rank(turn) \in 1 .. Choices
<1>0. Choices \in Nat \ {0}
  BY ChoicesAssumption
<1>1. CASE \E i \in Counted(turn) :
             /\ turn[i].kind = "juxtaposition" /\ turn[i].outcome = "not_visible"
             /\ turn[i].rank < Choices
  <2>1. PICK i \in Counted(turn) : turn[i].rank < Choices
    BY <1>1
  <2>2. IsFiniteSet(Counted(turn)) /\ Cardinality(Counted(turn)) \in Nat
    BY CountedIsFinite
  <2>3. Cardinality(Counted(turn)) = 1
    <3>1. Cardinality(Counted(turn)) # 0
      BY <2>1, <2>2, FS_EmptySet
    <3> QED
      BY <2>2, <3>1
  <2>4. PICK x : Counted(turn) = {x}
    BY <2>2, <2>3, FS_Singleton
  <2>5. (CHOOSE j \in Counted(turn) : TRUE) = i
    BY <2>1, <2>4
  <2>6. Rank(turn) = turn[i].rank + 1
    BY <1>1, <2>5 DEF Rank
  <2>7. turn[i].rank \in Nat
    <3>1. turn[i] \in Tried
      BY <2>1 DEF Counted
    <3> QED
      BY <3>1 DEF Tried
  <2> QED
    BY <1>0, <2>1, <2>6, <2>7
<1>2. CASE ~\E i \in Counted(turn) :
             /\ turn[i].kind = "juxtaposition" /\ turn[i].outcome = "not_visible"
             /\ turn[i].rank < Choices
  <2>1. Rank(turn) = 1
    BY <1>2 DEF Rank
  <2> QED
    BY <1>0, <2>1
<1> QED
  BY <1>1, <1>2

LEMMA NextTryTyped ==
  ASSUME NEW m, NEW k \in SUBSET MoveKinds, NEW p \in Parents, NEW t \in Seq(Seq(Tried)),
         NextTry(m, k, p, t).to \notin {"refused", "stop"}
  PROVE  LET next == NextTry(m, k, p, t) IN
         /\ next \in Steps /\ next.to \in MoveKinds
         /\ Fits(t, next.turn, next.attempt)
         /\ next.to = "juxtaposition" => p.described /\ next.rank \in 1 .. Choices
<1> DEFINE turn == Open(k, t)
           next == NextTry(m, k, p, t)
           Try(kind) == [to |-> kind, turn |-> TurnsDone(k, t) + 1, attempt |-> Len(turn) + 1,
                         rank |-> IF kind = "juxtaposition" THEN Rank(turn) ELSE 0,
                         reuse |-> kind = "juxtaposition" /\ Rank(turn) > 1]
<1>1. /\ Accepts(m, k, t)
      /\ \E kind : ~Blocked(kind, k, p, turn) /\ next = Try(kind)
  BY DEF NextTry
<1>2. PICK kind : ~Blocked(kind, k, p, turn) /\ next = Try(kind)
  BY <1>1
<1>3. kind \in MoveKinds /\ (kind = "juxtaposition" => p.described)
  BY <1>2 DEF Blocked
<1>4. /\ turn \in Seq(Tried) /\ TurnsDone(k, t) \in Nat
      /\ Fits(t, TurnsDone(k, t) + 1, Len(turn) + 1)
      /\ Cardinality(Counted(turn)) < Tries(k)
  BY <1>1, OpenTurn
<1>5. kind = "juxtaposition" => Rank(turn) \in 1 .. Choices
  <2>1. kind = "juxtaposition" => Tries(k) = 2
    BY <1>2 DEF Blocked, Tries, TriesPerTurn
  <2> QED
    BY <1>4, <2>1, RankIsOne
<1>6. Len(turn) + 1 \in Nat /\ Choices \in Nat
  BY <1>4, ChoicesAssumption
<1>7. Try(kind) \in Steps
  BY <1>3, <1>4, <1>5, <1>6 DEF Steps
<1> QED
  BY <1>2, <1>3, <1>4, <1>5, <1>7
-----------------------------------------------------------------------------
\* A try is added at the place its step says, and the others keep theirs.
LEMMA AddedTyped ==
  ASSUME Typed, NEW r \in RunIds, StepFits(r), pc[r] \in Trying, NEW taken \in Tried
  PROVE  LET new == Added(r, taken) IN
         /\ new \in Rows /\ new.state = row[r].state
         /\ \A i \in DOMAIN new.turns : \A j \in DOMAIN new.turns[i] :
              \/ i = step[r].turn /\ j = step[r].attempt /\ new.turns[i][j] = taken
              \/ /\ i \in DOMAIN row[r].turns /\ j \in DOMAIN row[r].turns[i]
                 /\ new.turns[i][j] = row[r].turns[i][j]
<1> DEFINE turns == row[r].turns
           turn == step[r].turn
           more == IF turn > Len(turns) THEN Append(turns, <<taken>>)
                   ELSE [turns EXCEPT ![turn] = Append(@, taken)]
           mid == [row[r] EXCEPT !.turns = more]
           new == Added(r, taken)
<1>1. row[r] \in Rows /\ turns \in Seq(Seq(Tried)) /\ turn \in Nat /\ step[r].attempt \in Nat
  BY DEF Typed, Rows, Steps
<1>2. Fits(turns, turn, step[r].attempt)
  BY DEF StepFits
<1>3. /\ more \in Seq(Seq(Tried))
      /\ \A i \in DOMAIN more : \A j \in DOMAIN more[i] :
           \/ i = turn /\ j = step[r].attempt /\ more[i][j] = taken
           \/ i \in DOMAIN turns /\ j \in DOMAIN turns[i] /\ more[i][j] = turns[i][j]
  <2> HIDE DEF turns
  <2>1. CASE turn = Len(turns) + 1 /\ step[r].attempt = 1
    <3>1. more = Append(turns, <<taken>>) /\ <<taken>> \in Seq(Tried)
      BY <1>1, <2>1
    <3>2. more \in Seq(Seq(Tried))
      BY <1>1, <3>1
    <3>3. ASSUME NEW i \in DOMAIN more, NEW j \in DOMAIN more[i]
          PROVE  \/ i = turn /\ j = step[r].attempt /\ more[i][j] = taken
                 \/ i \in DOMAIN turns /\ j \in DOMAIN turns[i] /\ more[i][j] = turns[i][j]
      <4>1. CASE i = Len(turns) + 1
        BY <1>1, <2>1, <3>1, <3>3, <4>1
      <4>2. CASE i # Len(turns) + 1
        BY <1>1, <3>1, <3>3, <4>2
      <4> QED
        BY <4>1, <4>2
    <3> QED
      BY <3>2, <3>3
  <2>2. CASE turn = Len(turns) /\ turn > 0 /\ step[r].attempt = Len(turns[turn]) + 1
    <3> DEFINE longer == Append(turns[turn], taken)
    <3>1. turn \in 1 .. Len(turns) /\ turns[turn] \in Seq(Tried) /\ longer \in Seq(Tried)
      BY <1>1, <2>2
    <3>2. more = [turns EXCEPT ![turn] = longer]
      BY <1>1, <2>2
    <3>3. more \in [1 .. Len(turns) -> Seq(Tried)]
      BY <1>1, <3>1, <3>2
    <3>4. more \in Seq(Seq(Tried))
      BY <1>1, <3>3
    <3>5. ASSUME NEW i \in DOMAIN more, NEW j \in DOMAIN more[i]
          PROVE  \/ i = turn /\ j = step[r].attempt /\ more[i][j] = taken
                 \/ i \in DOMAIN turns /\ j \in DOMAIN turns[i] /\ more[i][j] = turns[i][j]
      <4>1. CASE i = turn
        <5>1. more[i] = longer /\ i \in DOMAIN turns
          BY <3>1, <3>2, <4>1
        <5>2. j \in 1 .. Len(turns[turn]) + 1
          BY <3>1, <3>5, <5>1
        <5> QED
          BY <1>1, <2>2, <3>1, <4>1, <5>1, <5>2
      <4>2. CASE i # turn
        BY <1>1, <3>1, <3>2, <3>5, <4>2
      <4> QED
        BY <4>1, <4>2
    <3> QED
      BY <3>4, <3>5
  <2> QED
    BY <1>2, <2>1, <2>2 DEF Fits
<1> HIDE DEF more
<1>4. mid \in Rows /\ mid.turns = more /\ mid.state = row[r].state
  BY <1>1, <1>3 DEF Rows
<1>5. new = [mid EXCEPT !.current = "none"]
  BY DEF Added, more
<1> HIDE DEF mid, new
<1>6. new \in Rows /\ new.turns = more /\ new.state = row[r].state
  BY <1>4, <1>5 DEF Rows
<1> QED
  BY <1>3, <1>6 DEF new
-----------------------------------------------------------------------------
\* What a thread's step leaves alone: the server, and the other runs.
Frame(r) ==
  /\ up /\ UNCHANGED <<asked, up, closing>>
  /\ unsaved' \in {unsaved, unsaved \cup {r}}
  /\ \A s \in RunIds \ {r} :
       /\ row'[s] = row[s] /\ works'[s] = works[s] /\ pc'[s] = pc[s] /\ stop'[s] = stop[s]
       /\ parent'[s] = parent[s] /\ step'[s] = step[s] /\ answer'[s] = answer[s]
       /\ chunk'[s] = chunk[s] /\ sent'[s] = sent[s]

LEMMA OthersStay ==
  ASSUME NEW r \in RunIds, Frame(r), NEW s \in RunIds \ {r}, RunOK(s)
  PROVE  RunOK(s)'
<1> USE DEF Frame, RunOK
<1>1. Unstarted(s)'
  BY DEF Unstarted
<1>2. StepFits(s)'
  BY DEF StepFits
<1>3. ChunkFits(s)'
  BY DEF ChunkFits
<1>4. ParentFits(s)'
  BY DEF ParentFits
<1>5. Hangs(s)'
  BY DEF Hangs
<1>6. Named(s)'
  BY DEF Named
<1> QED
  BY <1>1, <1>2, <1>3, <1>4, <1>5, <1>6

LEMMA GoesUnstarted ==
  ASSUME Typed, NEW r \in RunIds, RunOK(r), pc[r] # "none", up, UNCHANGED <<up, closing>>,
         NEW new, NEW places, "none" \notin places, Goes(r, new, places)
  PROVE  Unstarted(r)' /\ (row'[r].state = "running" => row[r].state = "running")
<1>1. row[r].state # "none"
  BY DEF RunOK, Unstarted
<1>2. row'[r].state # "none" /\ (row'[r].state = "running" => row[r].state = "running")
  BY <1>1 DEF Goes, Over
<1>3. pc'[r] = "none" => row'[r].state # "running" \/ r \in unsaved'
  BY <1>2 DEF Goes, Over
<1> QED
  BY <1>2, <1>3 DEF Unstarted

\* A run that has ended keeps what it has drawn.
LEMMA EndedIsOK ==
  ASSUME NEW r \in RunIds, pc'[r] = "none", Unstarted(r)', sent'[r] <= 4, Hangs(r)', Named(r)'
  PROVE  RunOK(r)'
BY DEF RunOK, StepFits, ChunkFits, ParentFits, Trying

LEMMA TriesTyped ==
  ASSUME NEW turns \in Seq(Seq(Tried)), NEW i \in DOMAIN turns, NEW j \in DOMAIN turns[i]
  PROVE  turns[i][j] \in Tried /\ turns[i][j].child \in Nat
<1>1. turns[i] \in Seq(Tried)
  OBVIOUS
<1>2. turns[i][j] \in Tried
  BY <1>1
<1> QED
  BY <1>2 DEF Tried

LEMMA NamedMore ==
  ASSUME NEW turns \in Seq(Seq(Tried)), NEW children, NEW n \in Int, NEW m \in Int, n <= m,
         TriesName(turns, children, n)
  PROVE  TriesName(turns, children, m)
<1>1. ASSUME NEW i \in DOMAIN turns, NEW j \in DOMAIN turns[i], turns[i][j].child <= n
      PROVE  turns[i][j].child <= m
  <2>1. turns[i][j].child \in Nat
    BY TriesTyped
  <2> QED
    BY <1>1, <2>1
<1> QED
  BY <1>1 DEF TriesName

\* What names the children but the last names them all.
LEMMA NamedAll ==
  ASSUME NEW turns \in Seq(Seq(Tried)), NEW children, NEW n \in Nat, TriesName(turns, children, n - 1)
  PROVE  TriesName(turns, children, n)
<1>1. n - 1 \in Int /\ n \in Int /\ n - 1 <= n
  OBVIOUS
<1> QED
  BY <1>1, NamedMore

LEMMA NamedSame ==
  ASSUME NEW turns \in Seq(Seq(Tried)), NEW n \in Nat, NEW children, NEW others,
         \A k \in 1 .. n : others[k] = children[k], TriesName(turns, children, n)
  PROVE  TriesName(turns, others, n)
<1>1. ASSUME NEW i \in DOMAIN turns, NEW j \in DOMAIN turns[i], turns[i][j].child # 0
      PROVE  /\ turns[i][j].child <= n
             /\ others[turns[i][j].child].turn = i /\ others[turns[i][j].child].attempt = j
             /\ others[turns[i][j].child].kind = turns[i][j].kind
             /\ others[turns[i][j].child].move = turns[i][j].outcome
  <2> DEFINE c == turns[i][j].child
  <2>1. c \in Nat
    BY TriesTyped
  <2>2. /\ c <= n /\ children[c].turn = i /\ children[c].attempt = j
        /\ children[c].kind = turns[i][j].kind /\ children[c].move = turns[i][j].outcome
    BY <1>1 DEF TriesName
  <2>3. c # 0
    BY <1>1
  <2> HIDE DEF c
  <2>4. others[c] = children[c]
    BY <2>1, <2>2, <2>3
  <2> QED
    BY <2>2, <2>4 DEF c
<1> QED
  BY <1>1 DEF TriesName

LEMMA NamedStays ==
  ASSUME Typed, NEW r \in RunIds, Named(r), row'[r].turns = row[r].turns, works'[r] = works[r],
         pc'[r] \in {"drawn", "measured"} => pc[r] \in {"drawn", "measured"}
  PROVE  Named(r)'
<1>1. Len(works[r]) \in Nat /\ row[r].turns \in Seq(Seq(Tried))
  BY DEF Typed, Rows
<1>2. TriesName(row[r].turns, works[r], Len(works[r]) - 1) => TriesName(row[r].turns, works[r], Len(works[r]))
  BY <1>1, NamedAll
<1> QED
  BY <1>2 DEF Named

LEMMA HangsStays ==
  ASSUME NEW r \in RunIds, Hangs(r), works'[r] = works[r]
  PROVE  Hangs(r)'
BY DEF Hangs

\* A try that names no child is added.
LEMMA NamedAdded ==
  ASSUME Typed, NEW r \in RunIds, Named(r), StepFits(r), pc[r] \in Trying, NEW taken \in Tried, taken.child = 0,
         row'[r].turns \in {row[r].turns, Added(r, taken).turns}, works'[r] = works[r],
         pc'[r] \notin {"drawn", "measured"}
  PROVE  Named(r)'
<1>1. CASE row'[r].turns = row[r].turns
  BY <1>1, NamedStays
<1>2. CASE row'[r].turns = Added(r, taken).turns
  <2> DEFINE new == Added(r, taken)
  <2>1. \A i \in DOMAIN new.turns : \A j \in DOMAIN new.turns[i] :
          \/ i = step[r].turn /\ j = step[r].attempt /\ new.turns[i][j] = taken
          \/ /\ i \in DOMAIN row[r].turns /\ j \in DOMAIN row[r].turns[i]
             /\ new.turns[i][j] = row[r].turns[i][j]
    BY AddedTyped
  <2> HIDE DEF new
  <2>2. row'[r].turns = new.turns
    BY <1>2 DEF new
  <2>3. Len(works[r]) \in Nat /\ row[r].turns \in Seq(Seq(Tried))
    BY DEF Typed, Rows
  <2>4. TriesName(row[r].turns, works[r], Len(works[r]) - 1) => TriesName(row[r].turns, works[r], Len(works[r]))
    BY <2>3, NamedAll
  <2>5. TriesName(row[r].turns, works[r], Len(works[r]))
    BY <2>4 DEF Named
  <2>6. TriesName(new.turns, works[r], Len(works[r]))
    <3>1. ASSUME NEW i \in DOMAIN new.turns, NEW j \in DOMAIN new.turns[i], new.turns[i][j].child # 0
          PROVE  LET a == new.turns[i][j] IN
                 /\ a.child <= Len(works[r])
                 /\ works[r][a.child].turn = i /\ works[r][a.child].attempt = j
                 /\ works[r][a.child].kind = a.kind /\ works[r][a.child].move = a.outcome
      <4> DEFINE b == row[r].turns[i][j]
      <4>1. i \in DOMAIN row[r].turns /\ j \in DOMAIN row[r].turns[i] /\ new.turns[i][j] = b
        BY <2>1, <3>1
      <4>2. b.child # 0 => /\ b.child <= Len(works[r])
                           /\ works[r][b.child].turn = i /\ works[r][b.child].attempt = j
                           /\ works[r][b.child].kind = b.kind /\ works[r][b.child].move = b.outcome
        BY <2>5, <4>1 DEF TriesName
      <4> HIDE DEF b
      <4> QED
        BY <3>1, <4>1, <4>2
    <3> QED
      BY <3>1 DEF TriesName
  <2> QED
    BY <2>2, <2>6 DEF Named
<1> QED
  BY <1>1, <1>2

\* Steps of a thread that only go on, or end, with its tries as they were.
LEMMA OnlyGoes ==
  ASSUME Typed, NEW r \in RunIds, RunOK(r), pc[r] # "none", Frame(r),
         NEW new, NEW places \in SUBSET (Places \ {"none", "drawn", "measured"}), Goes(r, new, places),
         new.turns = row[r].turns, works' = works, parent' = parent, sent' = sent,
         pc[r] \notin {"drawn", "measured"}, StepFits(r)', ChunkFits(r)'
  PROVE  RunOK(r)'
<1>1. Unstarted(r)'
  BY GoesUnstarted DEF Frame
<1>2. row'[r].turns = row[r].turns /\ pc'[r] \in places \cup {"none"}
  BY DEF Goes
<1>3. Hangs(r)' /\ Named(r)'
  BY <1>2, HangsStays, NamedStays DEF RunOK
<1>4. ParentFits(r)'
  <2>1. pc'[r] # "none" => pc'[r] \in Places \ {"none", "drawn", "measured"}
    BY <1>2
  <2>2. pc[r] \in Places \ {"none", "measured"}
    BY DEF Typed
  <2>3. works'[r] = works[r] /\ parent'[r] = parent[r]
    OBVIOUS
  <2> QED
    BY <2>1, <2>2, <2>3 DEF RunOK, ParentFits
<1> QED
  BY <1>1, <1>3, <1>4 DEF RunOK

LEMMA GoesTyped ==
  ASSUME Typed, NEW r \in RunIds, NEW new, NEW places \in SUBSET Places, Goes(r, new, places)
  PROVE  /\ row' \in [RunIds -> Rows] /\ pc' \in [RunIds -> Places]
         /\ stop' \in [RunIds -> {"none", "clear", "set"}] /\ faults' \in Nat /\ unsaved' \subseteq RunIds
         /\ unsaved' \in {unsaved, unsaved \cup {r}}
         /\ \A s \in RunIds \ {r} : row'[s] = row[s] /\ pc'[s] = pc[s] /\ stop'[s] = stop[s]
<1>1. pc'[r] \in Places
  BY DEF Goes, Places
<1>2. pc' \in [RunIds -> Places] /\ \A s \in RunIds \ {r} : pc'[s] = pc[s]
  BY <1>1 DEF Goes, Typed
<1>3. row' \in [RunIds -> Rows] /\ \A s \in RunIds \ {r} : row'[s] = row[s]
  BY DEF Goes, Typed
<1>4. stop' \in [RunIds -> {"none", "clear", "set"}] /\ \A s \in RunIds \ {r} : stop'[s] = stop[s]
  BY DEF Goes, Typed
<1> QED
  BY <1>2, <1>3, <1>4 DEF Goes, Typed
-----------------------------------------------------------------------------
\* One lemma for each step of a thread: what it leaves of its run.
Preserves(r) ==
  Typed' /\ Frame(r) /\ RunOK(r)' /\ (row'[r].state = "running" => row[r].state = "running")

LEMMA SubmitStep ==
  ASSUME Typed, NEW r \in RunIds, RunOK(r), Submit(r)
  PROVE  Preserves(r)
<1>1. pc' = [pc EXCEPT ![r] = "queued"] /\ pc'[r] = "queued" /\ pc[r] = "starting"
  BY DEF Submit, At, Typed
<1>2. Typed' /\ Frame(r)
  BY <1>1 DEF Submit, Typed, Frame, Places
<1>3. RunOK(r)'
  BY <1>1 DEF Submit, RunOK, Unstarted, StepFits, ChunkFits, ParentFits, Hangs, Named, Trying, Places
<1> QED
  BY <1>2, <1>3 DEF Preserves, Submit

LEMMA TakeStep ==
  ASSUME Typed, NEW r \in RunIds, RunOK(r), Take(r)
  PROVE  Preserves(r)
<1>1. pc' = [pc EXCEPT ![r] = "look"] /\ pc'[r] = "look" /\ pc[r] = "queued"
  BY DEF Take, At, Typed
<1>2. Typed' /\ Frame(r)
  BY <1>1 DEF Take, Typed, Frame, Places
<1>3. RunOK(r)'
  BY <1>1 DEF Take, RunOK, Unstarted, StepFits, ChunkFits, ParentFits, Hangs, Named, Trying, Places
<1> QED
  BY <1>2, <1>3 DEF Preserves, Take

LEMMA LookStep ==
  ASSUME Typed, NEW r \in RunIds, RunOK(r), Look(r)
  PROVE  Preserves(r)
<1> DEFINE next == Answer(r)
           new == [row[r] EXCEPT !.current = next.to]
<1>0. /\ row[r] \in Rows /\ row[r].turns \in Seq(Seq(Tried)) /\ row[r].kinds \in SUBSET MoveKinds
      /\ parent[r] \in Parents /\ pc[r] = "look" /\ up
      /\ UNCHANGED <<asked, up, closing, works, parent, answer, chunk, sent>>
  BY DEF Typed, Rows, Look
<1>1. CASE step' = step /\ (Stops(r) \/ Breaks(r) \/ Finishes(r, row[r], "failed", 1)
                            \/ (Ends(r, row[r], "done") /\ UNCHANGED faults))
  <2>1. Goes(r, row[r], {})
    <3>1. CASE Stops(r) \/ Breaks(r)
      BY <3>1, StopsGoes
    <3>2. CASE Finishes(r, row[r], "failed", 1)
      BY <1>0, <3>2, FinishesGoes DEF Over
    <3>3. CASE Ends(r, row[r], "done") /\ UNCHANGED faults
      <4>1. Finishes(r, row[r], "done", 0)
        BY <3>3 DEF Finishes, Typed
      <4> QED
        BY <1>0, <4>1, FinishesGoes DEF Over
    <3> QED
      BY <1>1, <3>1, <3>2, <3>3
  <2>2. Typed' /\ Frame(r)
    BY <1>0, <1>1, <2>1, GoesTyped DEF Typed, Frame
  <2>3. pc'[r] = "none" /\ row'[r].turns = row[r].turns
    BY <2>1 DEF Goes
  <2>4. StepFits(r)' /\ ChunkFits(r)'
    BY <1>0, <2>3 DEF RunOK, StepFits, ChunkFits, Trying
  <2>5. RunOK(r)'
    BY <1>0, <2>1, <2>2, <2>4, OnlyGoes
  <2> QED
    BY <1>0, <2>1, <2>2, <2>5, GoesUnstarted DEF Preserves
<1>2. CASE /\ next.to \notin {"refused", "stop"}
           /\ step' = [step EXCEPT ![r] = next] /\ Saves(r, new, "try")
  <2>1. /\ next \in Steps /\ next.to \in MoveKinds /\ Fits(row[r].turns, next.turn, next.attempt)
        /\ next.to = "juxtaposition" => parent[r].described /\ next.rank \in 1 .. Choices
    BY <1>0, <1>2, NextTryTyped DEF Answer
  <2> HIDE DEF next
  <2>2. new \in Rows /\ new.state = row[r].state /\ new.turns = row[r].turns
    BY <1>0, <2>1 DEF Rows
  <2> HIDE DEF new
  <2>3. Goes(r, new, {"try"})
    BY <1>2, <2>2, SavesGoes DEF Places
  <2>4. Typed' /\ Frame(r)
    BY <1>0, <1>2, <2>1, <2>3, GoesTyped DEF Typed, Frame, Places
  <2>5. pc'[r] \in {"try", "none"} /\ row'[r].turns = row[r].turns /\ step'[r] = next
    BY <1>2, <2>2, <2>3 DEF Goes, Typed
  <2>6. StepFits(r)' /\ ChunkFits(r)'
    BY <1>0, <2>1, <2>5 DEF RunOK, StepFits, ChunkFits, Trying
  <2>7. RunOK(r)'
    BY <1>0, <2>2, <2>3, <2>4, <2>6, OnlyGoes DEF Places
  <2> QED
    BY <1>0, <2>3, <2>4, <2>7, GoesUnstarted DEF Preserves
<1> QED
  BY <1>1, <1>2 DEF Look

\* A try that drew nothing to measure.
LEMMA GivesGoes ==
  ASSUME Typed, NEW r \in RunIds, StepFits(r), pc[r] \in Trying, NEW outcome \in Outcomes,
         NEW sentence \in Sentences \cup {NoSentence}, Gives(r, outcome, sentence)
  PROVE  /\ Attempt(r, outcome, sentence, 0) \in Tried /\ Attempt(r, outcome, sentence, 0).child = 0
         /\ Goes(r, Added(r, Attempt(r, outcome, sentence, 0)), {"look"})
<1> DEFINE taken == Attempt(r, outcome, sentence, 0)
<1>1. step[r].to \in MoveKinds /\ step[r].rank \in Nat
  BY DEF StepFits, Typed, Steps
<1>2. taken \in Tried /\ taken.child = 0
  BY <1>1 DEF Attempt, Tried
<1> HIDE DEF taken
<1>3. Added(r, taken) \in Rows /\ Added(r, taken).state = row[r].state
  BY <1>2, AddedTyped
<1>4. Saves(r, Added(r, taken), "look")
  BY DEF Gives, taken
<1>5. Goes(r, Added(r, taken), {"look"})
  BY <1>3, <1>4, SavesGoes DEF Places
<1> QED
  BY <1>2, <1>5 DEF taken

LEMMA GivesOK ==
  ASSUME Typed, NEW r \in RunIds, RunOK(r), pc[r] \in {"try", "turn", "send", "settle"}, Frame(r),
         NEW outcome \in Outcomes, NEW sentence \in Sentences \cup {NoSentence},
         Gives(r, outcome, sentence), works' = works, parent' = parent, sent'[r] <= 4
  PROVE  RunOK(r)' /\ (row'[r].state = "running" => row[r].state = "running")
<1> DEFINE taken == Attempt(r, outcome, sentence, 0)
           new == Added(r, taken)
<1>1. pc[r] \in Trying /\ StepFits(r) /\ Named(r)
  BY DEF Trying, RunOK
<1>2. taken \in Tried /\ taken.child = 0 /\ Goes(r, new, {"look"})
  BY <1>1, GivesGoes
<1> HIDE DEF taken
<1>3. pc'[r] \in {"look", "none"} /\ row'[r].turns \in {row[r].turns, Added(r, taken).turns}
  BY <1>2 DEF Goes
<1>4. Named(r)'
  BY <1>1, <1>2, <1>3, NamedAdded
<1>5. Unstarted(r)' /\ (row'[r].state = "running" => row[r].state = "running")
  BY <1>2, GoesUnstarted DEF Frame
<1>6. Hangs(r)'
  BY HangsStays DEF RunOK
<1>7. StepFits(r)' /\ ChunkFits(r)'
  BY <1>3 DEF StepFits, ChunkFits, Trying
<1>8. ParentFits(r)'
  BY <1>3 DEF RunOK, ParentFits, Places
<1> QED
  BY <1>4, <1>5, <1>6, <1>7, <1>8 DEF RunOK

LEMMA TryLawsStep ==
  ASSUME Typed, NEW r \in RunIds, RunOK(r), TryLaws(r)
  PROVE  Preserves(r)
<1>0. pc[r] = "try" /\ step[r].to = "laws" /\ up
      /\ UNCHANGED <<asked, up, closing, works, parent, step, answer, chunk, sent>>
      /\ sent[r] <= 4 /\ StepFits(r)
  BY DEF TryLaws, RunOK, ChunkFits
<1>1. CASE Gives(r, "unavailable", NoSentence)
  <2>1. Goes(r, Added(r, Attempt(r, "unavailable", NoSentence, 0)), {"look"})
    BY <1>0, <1>1, GivesGoes DEF Trying, Outcomes
  <2>2. Typed' /\ Frame(r)
    BY <1>0, <2>1, GoesTyped DEF Typed, Frame, Places
  <2> QED
    BY <1>0, <1>1, <2>2, GivesOK DEF Preserves, Outcomes
<1>2. CASE At(r, "settle") /\ UNCHANGED <<row, stop, unsaved, faults>>
  <2>1. Goes(r, row[r], {"settle"})
    BY <1>2, StaysGoes DEF Places
  <2>2. Typed' /\ Frame(r)
    BY <1>0, <2>1, GoesTyped DEF Typed, Frame, Places
  <2>3. pc'[r] = "settle" /\ row' = row
    BY <1>2 DEF At, Typed
  <2>4. StepFits(r)' /\ ChunkFits(r)'
    BY <1>0, <2>3 DEF RunOK, StepFits, ChunkFits, Trying
  <2>5. RunOK(r)'
    BY <1>0, <2>1, <2>2, <2>4, OnlyGoes DEF Places
  <2> QED
    BY <2>2, <2>3, <2>5 DEF Preserves
<1> QED
  BY <1>1, <1>2 DEF TryLaws

LEMMA TryJuxtapositionStep ==
  ASSUME Typed, NEW r \in RunIds, RunOK(r), TryJuxtaposition(r)
  PROVE  Preserves(r)
<1>0. pc[r] = "try" /\ step[r].to = "juxtaposition" /\ up
      /\ UNCHANGED <<asked, up, closing, works, parent, step, chunk, sent>>
      /\ sent[r] <= 4 /\ StepFits(r)
  BY DEF TryJuxtaposition, RunOK, ChunkFits
<1>1. ASSUME NEW outcome \in {"unavailable", "failed"}, Gives(r, outcome, NoSentence), UNCHANGED answer
      PROVE  Preserves(r)
  <2>0. outcome \in Outcomes
    BY DEF Outcomes
  <2>1. Goes(r, Added(r, Attempt(r, outcome, NoSentence, 0)), {"look"})
    BY <1>0, <1>1, <2>0, GivesGoes DEF Trying
  <2>2. Typed' /\ Frame(r)
    BY <1>0, <1>1, <2>1, GoesTyped DEF Typed, Frame, Places
  <2> QED
    BY <1>0, <1>1, <2>0, <2>2, GivesOK DEF Preserves
<1>2. ASSUME At(r, "settle"), UNCHANGED <<row, stop, unsaved, faults>>,
             answer' \in [RunIds -> Answers], answer'[r].choices \in Rankings,
             \A s \in RunIds \ {r} : answer'[s] = answer[s]
      PROVE  Preserves(r)
  <2>1. Goes(r, row[r], {"settle"})
    BY <1>2, StaysGoes DEF Places
  <2>2. Typed' /\ Frame(r)
    BY <1>0, <1>2, <2>1, GoesTyped DEF Typed, Frame, Places
  <2>3. pc'[r] = "settle" /\ row' = row
    BY <1>2 DEF At, Typed
  <2>4. StepFits(r)' /\ ChunkFits(r)'
    BY <1>0, <1>2, <2>3 DEF RunOK, StepFits, ChunkFits, Trying
  <2>5. RunOK(r)'
    BY <1>0, <2>1, <2>2, <2>4, OnlyGoes DEF Places
  <2> QED
    BY <2>2, <2>3, <2>5 DEF Preserves
<1>3. step[r].turn \in Nat \ {0} /\ answer[r] \in Answers
  <2>1. row[r].turns \in Seq(Seq(Tried)) /\ step[r].turn \in Nat
    BY DEF Typed, Rows, Steps
  <2>2. Fits(row[r].turns, step[r].turn, step[r].attempt)
    BY <1>0 DEF StepFits, Trying
  <2> QED
    BY <2>1, <2>2 DEF Fits, Typed
<1>4. CASE /\ \E choices \in [1 .. Choices -> Sentences \ Said(row[r].turns)] :
                 answer' = [answer EXCEPT ![r] = [turn |-> step[r].turn, choices |-> choices]]
           /\ At(r, "settle") /\ UNCHANGED <<row, stop, unsaved, faults>>
  <2>1. PICK choices \in Rankings :
          answer' = [answer EXCEPT ![r] = [turn |-> step[r].turn, choices |-> choices]]
    BY <1>4 DEF Rankings
  <2>2. [turn |-> step[r].turn, choices |-> choices] \in Answers
    BY <1>3, <2>1 DEF Answers
  <2>3. answer' \in [RunIds -> Answers] /\ answer'[r].choices \in Rankings
        /\ \A s \in RunIds \ {r} : answer'[s] = answer[s]
    BY <2>1, <2>2 DEF Typed
  <2> QED
    BY <1>2, <1>4, <2>3
<1>5. CASE /\ answer[r].turn = step[r].turn
           /\ At(r, "settle") /\ UNCHANGED <<answer, row, stop, unsaved, faults>>
  <2>1. answer[r].choices \in Rankings
    BY <1>3, <1>5 DEF Answers, NoAnswer
  <2> QED
    BY <1>2, <1>5, <2>1 DEF Typed
<1> QED
  BY <1>1, <1>4, <1>5 DEF TryJuxtaposition
-----------------------------------------------------------------------------
\* A chunk turn's answers and drawings leave it fewer requests.
LEMMA AgainLeaves ==
  ASSUME NEW s \in ChunkTurns, NEW stage \in {"choose", "rewrite"}, NEW x \in AgainOrSkip(s, stage)
  PROVE  /\ x \in ChunkTurns /\ x.stage \in {"choose", "rewrite", "skip"}
         /\ Left(x) <= IF s.tries = 1 THEN 0 ELSE IF stage = "choose" THEN 3 ELSE 1
<1>0. s.tries \in {0, 1} /\ s.via \in {"none", "choose", "rewrite"}
  BY DEF ChunkTurns
<1>1. \A y \in ChunkTurns : Skipped(y) \in ChunkTurns /\ Skipped(y).stage = "skip"
  BY DEF Skipped, ChunkTurns
<1>2. CASE s.tries = 1
  <2>1. x = Skipped(s)
    BY <1>2 DEF AgainOrSkip
  <2> QED
    BY <1>1, <1>2, <2>1 DEF Left
<1>3. CASE s.tries = 0
  <2> DEFINE again == [stage |-> stage, tries |-> 1, via |-> "none"]
  <2>1. again \in ChunkTurns /\ again.stage = stage /\ again.tries = 1
    BY DEF ChunkTurns
  <2>2. x = again \/ (stage = "rewrite" /\ x = Skipped([s EXCEPT !.tries = 1]))
    BY <1>3 DEF AgainOrSkip
  <2>3. [s EXCEPT !.tries = 1] \in ChunkTurns
    BY DEF ChunkTurns
  <2> HIDE DEF again
  <2> QED
    BY <1>1, <1>3, <2>1, <2>2, <2>3 DEF Left
<1> QED
  BY <1>0, <1>2, <1>3

LEMMA AnsweredLeaves ==
  ASSUME NEW s \in ChunkTurns, s.stage \in {"choose", "rewrite"}, NEW x \in Answered(s)
  PROVE  /\ x \in ChunkTurns /\ x.stage \in {"choose", "rewrite", "draw", "skip"}
         /\ x.stage = "draw" => x.via # "none"
         /\ Left(x) \in Nat /\ Left(x) + 1 <= Left(s)
<1>0. s.tries \in {0, 1}
  BY DEF ChunkTurns
<1>1. CASE x \in AgainOrSkip(s, s.stage)
  BY <1>0, <1>1, AgainLeaves DEF Left
<1>2. CASE x = ToDraw(s)
  <2>1. x \in ChunkTurns /\ x.stage = "draw" /\ x.via = s.stage /\ x.tries = s.tries
    BY <1>2 DEF ToDraw, ChunkTurns
  <2> QED
    BY <1>0, <2>1 DEF Left
<1>3. CASE s.stage = "choose" /\ x \in {Rewriting(s), Skipped(Rewriting(s))}
  <2>1. /\ Rewriting(s) \in ChunkTurns /\ Rewriting(s).stage = "rewrite" /\ Rewriting(s).tries = 0
        /\ Skipped(Rewriting(s)) \in ChunkTurns /\ Skipped(Rewriting(s)).stage = "skip"
    BY DEF Rewriting, Skipped, ChunkTurns
  <2> QED
    BY <1>0, <1>3, <2>1 DEF Left
<1> QED
  BY <1>1, <1>2, <1>3 DEF Answered

LEMMA NotDrawnLeaves ==
  ASSUME NEW s \in ChunkTurns, s.stage = "draw", s.via # "none", NEW x \in NotDrawn(s)
  PROVE  /\ x \in ChunkTurns /\ x.stage \in {"choose", "rewrite", "skip"}
         /\ Left(x) \in Nat /\ Left(x) <= Left(s)
<1>0. s.tries \in {0, 1} /\ s.via \in {"choose", "rewrite"}
  BY DEF ChunkTurns
<1>1. x \in AgainOrSkip(s, s.via)
  BY DEF NotDrawn
<1> QED
  BY <1>0, <1>1, AgainLeaves DEF Left

LEMMA TryChunksStep ==
  ASSUME Typed, NEW r \in RunIds, RunOK(r), TryChunks(r)
  PROVE  Preserves(r)
<1>0. pc[r] = "try" /\ step[r].to = "chunks" /\ up
      /\ UNCHANGED <<asked, up, closing, works, parent, step, answer>>
      /\ sent' = [sent EXCEPT ![r] = 0] /\ sent'[r] = 0 /\ StepFits(r)
  BY DEF TryChunks, RunOK, Typed
<1>1. CASE Gives(r, "unavailable", NoSentence) /\ UNCHANGED chunk
  <2>1. Goes(r, Added(r, Attempt(r, "unavailable", NoSentence, 0)), {"look"})
    BY <1>0, <1>1, GivesGoes DEF Trying, Outcomes
  <2>2. Typed' /\ Frame(r)
    BY <1>0, <1>1, <2>1, GoesTyped DEF Typed, Frame, Places
  <2> QED
    BY <1>0, <1>1, <2>2, GivesOK DEF Preserves, Outcomes
<1>2. CASE At(r, "turn") /\ chunk' = [chunk EXCEPT ![r] = ChunkStart] /\ UNCHANGED <<row, stop, unsaved, faults>>
  <2>1. Goes(r, row[r], {"turn"})
    BY <1>2, StaysGoes DEF Places
  <2>2. ChunkStart \in ChunkTurns /\ ChunkStart.stage = "choose" /\ Left(ChunkStart) = 4
    BY DEF ChunkStart, ChunkTurns, Left
  <2>3. Typed' /\ Frame(r)
    BY <1>0, <1>2, <2>1, <2>2, GoesTyped DEF Typed, Frame, Places
  <2>4. pc'[r] = "turn" /\ row' = row /\ chunk'[r] = ChunkStart /\ pc' = [pc EXCEPT ![r] = "turn"]
    BY <1>2 DEF At, Typed
  <2>5. StepFits(r)' /\ ChunkFits(r)'
    BY <1>0, <2>2, <2>4 DEF RunOK, StepFits, ChunkFits, Trying
  <2>6. ParentFits(r)'
    BY <1>0, <2>4 DEF RunOK, ParentFits, Places
  <2>7. Hangs(r)' /\ Named(r)'
    BY <1>0, <2>4, HangsStays, NamedStays DEF RunOK
  <2>8. Unstarted(r)' /\ (row'[r].state = "running" => row[r].state = "running")
    BY <1>0, <2>1, GoesUnstarted
  <2> QED
    BY <2>3, <2>5, <2>6, <2>7, <2>8 DEF Preserves, RunOK
<1> QED
  BY <1>1, <1>2 DEF TryChunks

LEMMA TurnStep ==
  ASSUME Typed, NEW r \in RunIds, RunOK(r), Turn(r)
  PROVE  Preserves(r)
<1>0. pc[r] = "turn" /\ step[r].to = "chunks" /\ up
      /\ UNCHANGED <<asked, up, closing, works, parent, step, answer, chunk, sent>>
      /\ sent[r] <= 4 /\ StepFits(r) /\ chunk[r].stage \in {"choose", "rewrite", "draw", "skip"}
  BY DEF Turn, RunOK, ChunkFits, StepFits, Trying
<1>1. CASE Gives(r, "failed", NoSentence)
  <2>1. Goes(r, Added(r, Attempt(r, "failed", NoSentence, 0)), {"look"})
    BY <1>0, <1>1, GivesGoes DEF Trying, Outcomes
  <2>2. Typed' /\ Frame(r)
    BY <1>0, <2>1, GoesTyped DEF Typed, Frame, Places
  <2> QED
    BY <1>0, <1>1, <2>2, GivesOK DEF Preserves, Outcomes
<1>2. ASSUME NEW where \in {"settle", "send"}, At(r, where), UNCHANGED <<row, stop, unsaved, faults>>,
             where = "settle" => chunk[r].stage = "draw", where = "send" => chunk[r].stage \in {"choose", "rewrite"}
      PROVE  Preserves(r)
  <2>1. Goes(r, row[r], {where})
    BY <1>2, StaysGoes DEF Places
  <2>2. Typed' /\ Frame(r)
    BY <1>0, <2>1, GoesTyped DEF Typed, Frame, Places
  <2>3. pc'[r] = where /\ row' = row
    BY <1>2 DEF At, Typed
  <2>4. StepFits(r)' /\ ChunkFits(r)'
    BY <1>0, <1>2, <2>3 DEF RunOK, StepFits, ChunkFits, Trying
  <2>5. RunOK(r)'
    BY <1>0, <2>1, <2>2, <2>4, OnlyGoes DEF Places
  <2> QED
    BY <2>2, <2>3, <2>5 DEF Preserves
<1>3. CASE Stops(r)
  <2>1. Goes(r, row[r], {})
    BY <1>3, StopsGoes
  <2>2. Typed' /\ Frame(r)
    BY <1>0, <2>1, GoesTyped DEF Typed, Frame
  <2>3. pc'[r] = "none"
    BY <2>1 DEF Goes
  <2>4. StepFits(r)' /\ ChunkFits(r)'
    BY <1>0, <2>3 DEF StepFits, ChunkFits, Trying
  <2>5. RunOK(r)'
    BY <1>0, <2>1, <2>2, <2>4, OnlyGoes
  <2> QED
    BY <1>0, <2>1, <2>2, <2>5, GoesUnstarted DEF Preserves
<1> QED
  BY <1>0, <1>1, <1>2, <1>3 DEF Turn

LEMMA SendStep ==
  ASSUME Typed, NEW r \in RunIds, RunOK(r), Send(r)
  PROVE  Preserves(r)
<1>0. pc[r] = "send" /\ step[r].to = "chunks" /\ up
      /\ UNCHANGED <<asked, up, closing, works, parent, step, answer>>
      /\ sent' = [sent EXCEPT ![r] = @ + 1] /\ sent'[r] = sent[r] + 1 /\ sent[r] \in Nat
      /\ StepFits(r) /\ chunk[r] \in ChunkTurns /\ chunk[r].stage \in {"choose", "rewrite"}
      /\ sent[r] + Left(chunk[r]) <= 4
  BY DEF Send, RunOK, ChunkFits, StepFits, Trying, Typed
<1>1. Left(chunk[r]) \in 1 .. 4
  BY <1>0 DEF Left
<1>2. sent'[r] <= 4 /\ sent' \in [RunIds -> Nat]
  BY <1>0, <1>1 DEF Typed
<1>3. CASE Gives(r, "failed", NoSentence) /\ UNCHANGED chunk
  <2>1. Goes(r, Added(r, Attempt(r, "failed", NoSentence, 0)), {"look"})
    BY <1>0, <1>3, GivesGoes DEF Trying, Outcomes
  <2>2. Typed' /\ Frame(r)
    BY <1>0, <1>2, <1>3, <2>1, GoesTyped DEF Typed, Frame, Places
  <2> QED
    BY <1>0, <1>2, <1>3, <2>2, GivesOK DEF Preserves, Outcomes
<1>4. CASE Stops(r) /\ UNCHANGED chunk
  <2>1. Goes(r, row[r], {})
    BY <1>4, StopsGoes
  <2>2. Typed' /\ Frame(r)
    BY <1>0, <1>2, <1>4, <2>1, GoesTyped DEF Typed, Frame
  <2>3. pc'[r] = "none" /\ row'[r].turns = row[r].turns
    BY <2>1 DEF Goes
  <2>4. Unstarted(r)' /\ (row'[r].state = "running" => row[r].state = "running")
    BY <1>0, <2>1, GoesUnstarted
  <2>5. Hangs(r)' /\ Named(r)'
    BY <1>0, <2>3, HangsStays, NamedStays DEF RunOK
  <2> QED
    BY <1>2, <2>2, <2>3, <2>4, <2>5, EndedIsOK DEF Preserves
<1>5. CASE /\ \E s \in Answered(chunk[r]) : chunk' = [chunk EXCEPT ![r] = s]
           /\ At(r, "turn") /\ UNCHANGED <<row, stop, unsaved, faults>>
  <2>1. PICK s \in Answered(chunk[r]) : chunk' = [chunk EXCEPT ![r] = s]
    BY <1>5
  <2>2. /\ s \in ChunkTurns /\ s.stage \in {"choose", "rewrite", "draw", "skip"}
        /\ s.stage = "draw" => s.via # "none"
        /\ Left(s) \in Nat /\ Left(s) + 1 <= Left(chunk[r])
    BY <1>0, <2>1, AnsweredLeaves
  <2>3. Goes(r, row[r], {"turn"})
    BY <1>5, StaysGoes DEF Places
  <2>4. Typed' /\ Frame(r)
    BY <1>0, <1>2, <2>1, <2>2, <2>3, GoesTyped DEF Typed, Frame, Places
  <2>5. pc'[r] = "turn" /\ row' = row /\ chunk'[r] = s
    BY <1>5, <2>1 DEF At, Typed
  <2>6. sent'[r] + Left(s) <= 4
    BY <1>0, <1>1, <2>2
  <2>7. StepFits(r)' /\ ChunkFits(r)'
    BY <1>0, <1>2, <2>2, <2>5, <2>6 DEF RunOK, StepFits, ChunkFits, Trying
  <2>8. ParentFits(r)'
    BY <1>0, <2>5 DEF RunOK, ParentFits, Places
  <2>9. Hangs(r)' /\ Named(r)'
    BY <1>0, <2>5, HangsStays, NamedStays DEF RunOK
  <2>10. Unstarted(r)' /\ (row'[r].state = "running" => row[r].state = "running")
    BY <1>0, <2>3, GoesUnstarted
  <2> QED
    BY <2>4, <2>7, <2>8, <2>9, <2>10 DEF Preserves, RunOK
<1> QED
  BY <1>3, <1>4, <1>5 DEF Send
-----------------------------------------------------------------------------
\* A child that reaches the history hangs on the last one kept.
LEMMA SavedChild ==
  ASSUME Typed, NEW r \in RunIds, RunOK(r), pc[r] = "settle", Saved(r)
  PROVE  /\ works' \in [RunIds -> Seq(Children)] /\ \A s \in RunIds \ {r} : works'[s] = works[s]
         /\ works'[r] # <<>> /\ Len(works'[r]) = Len(works[r]) + 1
         /\ works'[r][Len(works'[r])] = Child(r)
         /\ \A k \in 1 .. Len(works[r]) : works'[r][k] = works[r][k]
         /\ Hangs(r)' /\ TriesName(row[r].turns, works'[r], Len(works[r]))
<1> DEFINE n == Len(works[r])
           child == Child(r)
<1>0. works[r] \in Seq(Children) /\ n \in Nat
  BY DEF Typed
<1>1. child \in Children
  <2>1. step[r].to \in MoveKinds /\ step[r] \in Steps /\ parent[r] \in Parents
    BY DEF RunOK, StepFits, Trying, Typed
  <2> QED
    BY <2>1 DEF Child, Children, Steps, Parents
<1>2. child.from = parent[r].child /\ child.kind = step[r].to
  BY DEF Child
<1> HIDE DEF child
<1>3. works'[r] = Append(works[r], child)
  BY DEF Saved, Typed, child
<1>4. works' \in [RunIds -> Seq(Children)] /\ \A s \in RunIds \ {r} : works'[s] = works[s]
  BY <1>1, <1>3 DEF Saved, Typed
<1>5. /\ works'[r] # <<>> /\ Len(works'[r]) = n + 1 /\ works'[r][n + 1] = child
      /\ \A k \in 1 .. n : works'[r][k] = works[r][k]
  BY <1>0, <1>1, <1>3
<1>6. IsLastKept(works[r], n, parent[r].child)
  BY DEF RunOK, ParentFits, Places
<1>7. child.kind = "juxtaposition" /\ child.from # 0 => works[r][parent[r].child].kind = "juxtaposition"
  BY <1>2 DEF RunOK, ParentFits, StepFits, Trying
<1>8. Hangs(r)'
  <2> DEFINE before == works[r]
             after == works'[r]
  <2> HIDE DEF before, after
  <2>1. \A k \in 1 .. n : after[k] = before[k]
    BY <1>5 DEF before, after
  <2>2. ASSUME NEW m \in 0 .. n, NEW c, IsLastKept(before, m, c)
        PROVE  IsLastKept(after, m, c)
    BY <1>0, <2>1, <2>2 DEF IsLastKept
  <2>3. ASSUME NEW c \in 1 .. n + 1
        PROVE  /\ IsLastKept(after, c - 1, after[c].from)
               /\ after[c].kind = "juxtaposition" /\ after[c].from # 0 =>
                    after[after[c].from].kind = "juxtaposition"
    <3>1. CASE c = n + 1
      <4>1. after[c] = child /\ child.from \in 0 .. n /\ c - 1 = n
        BY <1>0, <1>2, <1>5, <1>6, <3>1 DEF after, IsLastKept
      <4>2. IsLastKept(after, n, child.from)
        BY <1>0, <1>2, <1>6, <2>2 DEF before
      <4>3. child.from # 0 => after[child.from] = before[child.from]
        BY <1>0, <2>1, <4>1
      <4> QED
        BY <1>2, <1>7, <4>1, <4>2, <4>3 DEF before
    <3>2. CASE c \in 1 .. n
      <4>1. after[c] = before[c] /\ c - 1 \in 0 .. n
        BY <1>0, <2>1, <3>2
      <4>2. /\ IsLastKept(before, c - 1, before[c].from)
            /\ before[c].kind = "juxtaposition" /\ before[c].from # 0 =>
                 before[before[c].from].kind = "juxtaposition"
        BY <1>0, <3>2 DEF RunOK, Hangs, before
      <4>3. before[c].from \in 0 .. c - 1
        BY <4>2 DEF IsLastKept
      <4>4. before[c].from # 0 => after[before[c].from] = before[before[c].from]
        BY <1>0, <2>1, <3>2, <4>3
      <4> QED
        BY <2>2, <4>1, <4>2, <4>4
    <3> QED
      BY <1>0, <2>3, <3>1, <3>2
  <2>4. DOMAIN after = 1 .. n + 1
    BY <1>4, <1>5 DEF after
  <2> QED
    BY <2>3, <2>4 DEF Hangs, after
<1>9. TriesName(row[r].turns, works'[r], n)
  <2>1. TriesName(row[r].turns, works[r], n)
    BY DEF RunOK, Named
  <2>2. row[r].turns \in Seq(Seq(Tried))
    BY DEF Typed, Rows
  <2> QED
    BY <1>0, <1>5, <2>1, <2>2, NamedSame
<1> QED
  BY <1>4, <1>5, <1>8, <1>9 DEF child

LEMMA SettleStep ==
  ASSUME Typed, NEW r \in RunIds, RunOK(r), Settle(r)
  PROVE  Preserves(r)
<1>0. /\ pc[r] = "settle" /\ up /\ UNCHANGED <<asked, up, closing, parent, step, answer, sent>>
      /\ sent' \in [RunIds -> Nat] /\ sent[r] <= 4 /\ StepFits(r) /\ step[r].to \in MoveKinds
      /\ step[r].rank \in Nat
  BY DEF Settle, RunOK, ChunkFits, StepFits, Trying, Typed, Steps
<1>1. CASE Saved(r) /\ At(r, "drawn") /\ UNCHANGED <<row, stop, unsaved, faults, chunk>>
  <2>1. /\ works' \in [RunIds -> Seq(Children)] /\ \A s \in RunIds \ {r} : works'[s] = works[s]
        /\ works'[r] # <<>> /\ Len(works'[r]) = Len(works[r]) + 1
        /\ works'[r][Len(works'[r])] = Child(r)
        /\ \A k \in 1 .. Len(works[r]) : works'[r][k] = works[r][k]
        /\ Hangs(r)' /\ TriesName(row[r].turns, works'[r], Len(works[r]))
    BY <1>0, <1>1, SavedChild
  <2>2. Goes(r, row[r], {"drawn"})
    BY <1>1, StaysGoes DEF Places
  <2>3. Typed' /\ Frame(r)
    BY <1>0, <1>1, <2>1, <2>2, GoesTyped DEF Typed, Frame, Places
  <2>4. pc'[r] = "drawn" /\ row' = row /\ chunk' = chunk /\ Len(works[r]) \in Nat
    BY <1>1 DEF At, Typed
  <2>5. StepFits(r)' /\ ChunkFits(r)'
    BY <1>0, <2>4 DEF RunOK, StepFits, ChunkFits, Trying
  <2>6. Named(r)'
    BY <2>1, <2>4 DEF Named
  <2>7. Unstarted(r)' /\ (row'[r].state = "running" => row[r].state = "running")
    BY <1>0, <2>2, GoesUnstarted
  <2>8. ParentFits(r)'
    <3>1. IsLastKept(works[r], Len(works[r]), parent[r].child)
      BY <1>0 DEF RunOK, ParentFits, Places
    <3>2. works'[r][Len(works'[r])].move = "none" /\ parent'[r] = parent[r]
      BY <1>0, <2>1 DEF Child
    <3>3. IsLastKept(works'[r], Len(works'[r]), parent'[r].child)
      <4> DEFINE n == Len(works[r])
                 c == parent[r].child
                 after == works'[r]
      <4>1. c \in 0 .. n /\ (c # 0 => works[r][c].move = "kept") /\ \A k \in c + 1 .. n : works[r][k].move # "kept"
        BY <3>1 DEF IsLastKept
      <4>2. n \in Nat /\ Len(after) = n + 1 /\ after[n + 1].move = "none" /\ \A k \in 1 .. n : after[k] = works[r][k]
        BY <2>1, <2>4, <3>2
      <4> HIDE DEF n, c, after
      <4>3. c \in 0 .. n + 1 /\ (c # 0 => after[c].move = "kept")
        BY <4>1, <4>2
      <4>4. \A k \in c + 1 .. n + 1 : after[k].move # "kept"
        BY <4>1, <4>2
      <4> QED
        BY <3>2, <4>2, <4>3, <4>4 DEF IsLastKept, n, c, after
    <3>4. parent[r].child # 0 => works'[r][parent[r].child] = works[r][parent[r].child]
      BY <2>1, <2>4, <3>1 DEF IsLastKept
    <3>5. parent[r].child # 0 /\ parent[r].described => works[r][parent[r].child].kind = "juxtaposition"
      BY <1>0 DEF RunOK, ParentFits
    <3>6. LET last == works'[r][Len(works'[r])] IN
          last.turn = step[r].turn /\ last.attempt = step[r].attempt /\ last.kind = step[r].to
      BY <2>1 DEF Child
    <3> QED
      BY <1>0, <2>1, <2>4, <3>2, <3>3, <3>4, <3>5, <3>6 DEF ParentFits
  <2> QED
    BY <2>1, <2>3, <2>5, <2>6, <2>7, <2>8 DEF Preserves, RunOK
<1>2. ASSUME NEW outcome \in Outcomes, NEW sentence \in Sentences \cup {NoSentence},
             Gives(r, outcome, sentence), UNCHANGED <<works, chunk>>
      PROVE  Preserves(r)
  <2>1. Goes(r, Added(r, Attempt(r, outcome, sentence, 0)), {"look"})
    BY <1>0, <1>2, GivesGoes DEF Trying
  <2>2. Typed' /\ Frame(r)
    BY <1>0, <1>2, <2>1, GoesTyped DEF Typed, Frame, Places
  <2> QED
    BY <1>0, <1>2, <2>2, GivesOK DEF Preserves
<1>3. CASE step[r].to # "chunks" /\ Gives(r, "failed", Sentence(r)) /\ UNCHANGED <<works, chunk>>
  <2>1. Sentence(r) \in Sentences \cup {NoSentence}
    <3>1. CASE step[r].to = "juxtaposition"
      <4>1. step[r].rank \in 1 .. Choices /\ answer[r].choices \in Rankings
        BY <1>0, <3>1 DEF StepFits, Trying
      <4> QED
        BY <3>1, <4>1 DEF Sentence, Rankings
    <3>2. CASE step[r].to # "juxtaposition"
      BY <3>2 DEF Sentence
    <3> QED
      BY <3>1, <3>2
  <2> QED
    BY <1>2, <1>3, <2>1 DEF Outcomes
<1>4. CASE step[r].to = "laws" /\ Gives(r, "unavailable", NoSentence) /\ UNCHANGED <<works, chunk>>
  BY <1>2, <1>4 DEF Outcomes
<1>5. CASE /\ step[r].to = "chunks" /\ UNCHANGED <<works, row, stop, unsaved, faults>>
           /\ \E s \in NotDrawn(chunk[r]) : chunk' = [chunk EXCEPT ![r] = s]
           /\ At(r, "turn")
  <2>1. PICK s \in NotDrawn(chunk[r]) : chunk' = [chunk EXCEPT ![r] = s]
    BY <1>5
  <2>2. /\ chunk[r] \in ChunkTurns /\ chunk[r].stage = "draw" /\ chunk[r].via # "none"
        /\ sent[r] + Left(chunk[r]) <= 4 /\ sent[r] \in Nat /\ Left(chunk[r]) \in Nat
    BY <1>0, <1>5 DEF RunOK, ChunkFits, Typed, Left
  <2>3. /\ s \in ChunkTurns /\ s.stage \in {"choose", "rewrite", "skip"}
        /\ Left(s) \in Nat /\ Left(s) <= Left(chunk[r])
    BY <2>1, <2>2, NotDrawnLeaves
  <2>4. Goes(r, row[r], {"turn"})
    BY <1>5, StaysGoes DEF Places
  <2>5. Typed' /\ Frame(r)
    BY <1>0, <1>5, <2>1, <2>3, <2>4, GoesTyped DEF Typed, Frame, Places
  <2>6. pc'[r] = "turn" /\ row' = row /\ chunk'[r] = s /\ sent'[r] = sent[r]
    BY <1>0, <1>5, <2>1 DEF At, Typed
  <2>7. StepFits(r)' /\ ChunkFits(r)'
    BY <1>0, <1>5, <2>2, <2>3, <2>6 DEF StepFits, ChunkFits, Trying
  <2>8. RunOK(r)'
    BY <1>0, <1>5, <2>4, <2>5, <2>7, OnlyGoes DEF Places
  <2> QED
    BY <2>5, <2>6, <2>8 DEF Preserves
<1>6. CASE Stops(r) /\ (Saved(r) \/ UNCHANGED works) /\ UNCHANGED chunk
  <2>1. Goes(r, row[r], {})
    BY <1>6, StopsGoes
  <2>2. pc'[r] = "none" /\ row'[r].turns = row[r].turns
    BY <2>1 DEF Goes
  <2>3. Unstarted(r)' /\ (row'[r].state = "running" => row[r].state = "running")
    BY <1>0, <2>1, GoesUnstarted
  <2>4. CASE UNCHANGED works
    <3>1. Typed' /\ Frame(r)
      BY <1>0, <1>6, <2>1, <2>4, GoesTyped DEF Typed, Frame
    <3>2. Hangs(r)' /\ Named(r)'
      BY <2>2, <2>4, HangsStays, NamedStays DEF RunOK
    <3> QED
      BY <1>0, <2>2, <2>3, <3>1, <3>2, EndedIsOK DEF Preserves
  <2>5. CASE Saved(r)
    <3>1. /\ works' \in [RunIds -> Seq(Children)] /\ \A s \in RunIds \ {r} : works'[s] = works[s]
          /\ Len(works'[r]) = Len(works[r]) + 1
          /\ Hangs(r)' /\ TriesName(row[r].turns, works'[r], Len(works[r]))
      BY <1>0, <2>5, SavedChild
    <3>2. Typed' /\ Frame(r)
      BY <1>0, <1>6, <2>1, <3>1, GoesTyped DEF Typed, Frame
    <3>3. Len(works[r]) \in Nat /\ row[r].turns \in Seq(Seq(Tried))
      BY DEF Typed, Rows
    <3>4. TriesName(row[r].turns, works'[r], Len(works'[r]))
      BY <3>1, <3>3, NamedMore
    <3>5. Named(r)'
      BY <2>2, <3>4 DEF Named
    <3> QED
      BY <1>0, <2>2, <2>3, <3>1, <3>2, <3>5, EndedIsOK DEF Preserves
  <2> QED
    BY <1>6, <2>4, <2>5
<1> QED
  BY <1>1, <1>3, <1>4, <1>5, <1>6 DEF Settle
-----------------------------------------------------------------------------
\* A record on the last child's edge.
LEMMA RecordedChild ==
  ASSUME Typed, NEW r \in RunIds, RunOK(r), pc[r] = "drawn", NEW outcome \in Outcomes, Recorded(r, outcome)
  PROVE  /\ works' \in [RunIds -> Seq(Children)] /\ \A s \in RunIds \ {r} : works'[s] = works[s]
         /\ works'[r] # <<>> /\ Len(works'[r]) = Len(works[r]) /\ Len(works[r]) \in Nat \ {0}
         /\ \A k \in 1 .. Len(works[r]) - 1 : works'[r][k] = works[r][k]
         /\ LET last == works'[r][Len(works'[r])] IN
            /\ last.turn = step[r].turn /\ last.attempt = step[r].attempt /\ last.kind = step[r].to
            /\ last.move = outcome
         /\ \A k \in 1 .. Len(works[r]) :
              works'[r][k].from = works[r][k].from /\ works'[r][k].kind = works[r][k].kind
         /\ Hangs(r)' /\ TriesName(row[r].turns, works'[r], Len(works[r]) - 1)
<1> DEFINE n == Len(works[r])
           before == works[r]
           last == works[r][n]
           marked == [last EXCEPT !.move = outcome]
           after == [before EXCEPT ![n] = marked]
<1>0. /\ before \in Seq(Children) /\ n \in Nat \ {0} /\ last \in Children
      /\ last.turn = step[r].turn /\ last.attempt = step[r].attempt /\ last.kind = step[r].to
  BY DEF RunOK, ParentFits, Typed
<1>1. works' = [works EXCEPT ![r] = after]
  BY DEF Recorded
<1>2. /\ marked \in Children /\ marked.turn = last.turn /\ marked.attempt = last.attempt
      /\ marked.kind = last.kind /\ marked.from = last.from /\ marked.move = outcome
  BY <1>0 DEF Children
<1> HIDE DEF marked, last
<1>3. after \in Seq(Children) /\ Len(after) = n /\ after[n] = marked /\ \A k \in 1 .. n - 1 : after[k] = before[k]
  BY <1>0, <1>2
<1> HIDE DEF after
<1>4. works'[r] = after /\ works' \in [RunIds -> Seq(Children)] /\ \A s \in RunIds \ {r} : works'[s] = works[s]
  BY <1>1, <1>3 DEF Typed
<1>5. ASSUME NEW c \in 1 .. n
      PROVE  /\ IsLastKept(after, c - 1, after[c].from)
             /\ after[c].kind = "juxtaposition" /\ after[c].from # 0 =>
                  after[after[c].from].kind = "juxtaposition"
  <2>1. after[c].from = before[c].from /\ after[c].kind = before[c].kind
    BY <1>0, <1>2, <1>3 DEF last
  <2>2. /\ IsLastKept(before, c - 1, before[c].from)
        /\ before[c].kind = "juxtaposition" /\ before[c].from # 0 =>
             before[before[c].from].kind = "juxtaposition"
    BY <1>0 DEF RunOK, Hangs
  <2>3. before[c].from \in 0 .. c - 1 /\ c - 1 <= n - 1 /\ c - 1 \in Nat
    BY <1>0, <2>2 DEF IsLastKept
  <2>4. n \in Nat \ {0} /\ c \in 1 .. n
    BY <1>0
  <2> DEFINE f == before[c].from
  <2>5. f \in 0 .. c - 1 /\ IsLastKept(before, c - 1, f) /\ \A k \in 1 .. n - 1 : after[k] = before[k]
    BY <1>3, <2>2, <2>3
  <2> HIDE DEF before, n, f
  <2>6. f # 0 => after[f] = before[f]
    BY <2>4, <2>5
  <2>7. \A k \in f + 1 .. c - 1 : after[k] = before[k]
    BY <2>4, <2>5
  <2>8. IsLastKept(after, c - 1, f)
    BY <2>5, <2>6, <2>7 DEF IsLastKept
  <2> QED
    BY <2>1, <2>2, <2>6, <2>8 DEF f
<1>6. Hangs(r)'
  <2>1. DOMAIN after = 1 .. n
    BY <1>3
  <2> QED
    BY <1>4, <1>5, <2>1 DEF Hangs
<1>7. TriesName(row[r].turns, after, n - 1)
  <2>1. TriesName(row[r].turns, before, n - 1)
    <3>1. Named(r) /\ pc[r] = "drawn"
      BY DEF RunOK
    <3> QED
      BY <3>1 DEF Named
  <2>2. row[r].turns \in Seq(Seq(Tried)) /\ n - 1 \in Nat
    BY <1>0 DEF Typed, Rows
  <2> QED
    BY <1>3, <2>1, <2>2, NamedSame
<1>8. \A k \in 1 .. n : after[k].from = before[k].from /\ after[k].kind = before[k].kind
  BY <1>0, <1>2, <1>3 DEF last
<1> QED
  BY <1>0, <1>2, <1>3, <1>4, <1>6, <1>7, <1>8

LEMMA MeasuredOK ==
  ASSUME Typed, NEW r \in RunIds, RunOK(r), pc[r] = "drawn", up, NEW outcome \in Outcomes, Recorded(r, outcome),
         At(r, "measured"), UNCHANGED <<asked, up, closing, row, stop, unsaved, faults, parent, step, answer, sent>>,
         chunk' \in [RunIds -> ChunkTurns], \A s \in RunIds \ {r} : chunk'[s] = chunk[s]
  PROVE  Preserves(r)
<1>1. /\ works' \in [RunIds -> Seq(Children)] /\ \A s \in RunIds \ {r} : works'[s] = works[s]
      /\ works'[r] # <<>> /\ Len(works'[r]) = Len(works[r]) /\ Len(works[r]) \in Nat \ {0}
      /\ \A k \in 1 .. Len(works[r]) - 1 : works'[r][k] = works[r][k]
      /\ LET last == works'[r][Len(works'[r])] IN
         /\ last.turn = step[r].turn /\ last.attempt = step[r].attempt /\ last.kind = step[r].to
         /\ last.move = outcome
      /\ Hangs(r)' /\ TriesName(row[r].turns, works'[r], Len(works[r]) - 1)
  BY RecordedChild
<1>2. Goes(r, row[r], {"measured"})
  BY StaysGoes DEF Places
<1>3. Typed' /\ Frame(r)
  BY <1>1, <1>2, GoesTyped DEF Typed, Frame, Places
<1>4. pc'[r] = "measured" /\ row' = row
  BY DEF At, Typed
<1>5. StepFits(r)' /\ ChunkFits(r)'
  BY <1>4 DEF RunOK, StepFits, ChunkFits, Trying
<1>6. Named(r)'
  BY <1>1, <1>4 DEF Named
<1>7. Unstarted(r)' /\ (row'[r].state = "running" => row[r].state = "running")
  BY <1>2, GoesUnstarted
<1>8. ParentFits(r)'
  <2> DEFINE n == Len(works[r])
             c == parent[r].child
             after == works'[r]
  <2>1. IsLastKept(works[r], n, c)
    BY DEF RunOK, ParentFits, Places
  <2>2. c \in 0 .. n /\ (c # 0 => works[r][c].move = "kept") /\ \A k \in c + 1 .. n : works[r][k].move # "kept"
    BY <2>1 DEF IsLastKept
  <2>3. works[r][n].move = "none"
    BY DEF RunOK, ParentFits
  <2>4. parent[r].described /\ c # 0 => works[r][c].kind = "juxtaposition"
    BY DEF RunOK, ParentFits
  <2>5. n \in Nat \ {0} /\ Len(after) = n /\ \A k \in 1 .. n - 1 : after[k] = works[r][k]
    BY <1>1
  <2> HIDE DEF n, c, after
  <2>6. c \in 0 .. n - 1
    BY <2>2, <2>3, <2>5
  <2>7. c # 0 => after[c] = works[r][c]
    BY <2>5, <2>6
  <2>8. \A k \in c + 1 .. n - 1 : after[k].move # "kept"
    BY <2>2, <2>5, <2>6
  <2>9. IsLastKept(works'[r], Len(works'[r]) - 1, parent'[r].child)
    BY <2>2, <2>5, <2>6, <2>7, <2>8 DEF IsLastKept, after, c
  <2>10. parent'[r].child # 0 /\ parent'[r].described => works'[r][parent'[r].child].kind = "juxtaposition"
    BY <2>4, <2>7 DEF after, c
  <2> QED
    BY <1>1, <1>4, <2>9, <2>10 DEF ParentFits, Places
<1> QED
  BY <1>1, <1>3, <1>5, <1>6, <1>7, <1>8 DEF Preserves, RunOK

\* An error of a run leaves it ended, with what it has drawn.
LEMMA BreaksOK ==
  ASSUME Typed, NEW r \in RunIds, RunOK(r), pc[r] # "none", up, NEW new \in Rows, Goes(r, new, {}),
         row'[r].turns = row[r].turns,
         UNCHANGED <<asked, up, closing, works, parent, step, answer, chunk, sent>>
  PROVE  Preserves(r)
<1>1. Typed' /\ Frame(r)
  BY GoesTyped DEF Typed, Frame
<1>2. pc'[r] = "none" /\ sent'[r] <= 4
  BY DEF Goes, RunOK, ChunkFits
<1>3. Unstarted(r)' /\ (row'[r].state = "running" => row[r].state = "running")
  BY GoesUnstarted
<1>4. Hangs(r)' /\ Named(r)'
  BY <1>2, HangsStays, NamedStays DEF RunOK
<1> QED
  BY <1>1, <1>2, <1>3, <1>4, EndedIsOK DEF Preserves

LEMMA MeasureStep ==
  ASSUME Typed, NEW r \in RunIds, RunOK(r), Measure(r)
  PROVE  Preserves(r)
<1>0. pc[r] = "drawn" /\ up /\ UNCHANGED <<asked, up, closing, parent, step, answer, chunk, sent>>
  BY DEF Measure
<1>1. CASE /\ \E outcome \in {"kept", "not_visible"} : Recorded(r, outcome)
           /\ At(r, "measured") /\ UNCHANGED <<row, stop, unsaved, faults>>
  <2>1. PICK outcome \in Outcomes : Recorded(r, outcome)
    BY <1>1 DEF Outcomes
  <2> QED
    BY <1>0, <1>1, <2>1, MeasuredOK DEF Typed
<1>2. CASE Breaks(r) /\ UNCHANGED works
  <2>1. Goes(r, row[r], {}) /\ row[r] \in Rows
    BY <1>2, StopsGoes DEF Typed
  <2>2. row'[r].turns = row[r].turns
    BY <2>1 DEF Goes
  <2> QED
    BY <1>0, <1>2, <2>1, <2>2, BreaksOK
<1> QED
  BY <1>1, <1>2 DEF Measure

LEMMA MeasureChunkStep ==
  ASSUME Typed, NEW r \in RunIds, RunOK(r), MeasureChunk(r)
  PROVE  Preserves(r)
<1>0. /\ pc[r] = "drawn" /\ step[r].to = "chunks" /\ up /\ UNCHANGED <<asked, up, closing, parent, step, answer, sent>>
      /\ chunk[r] \in ChunkTurns /\ chunk[r].stage = "draw" /\ chunk[r].via # "none"
      /\ sent[r] <= 4 /\ sent[r] + Left(chunk[r]) <= 4 /\ sent[r] \in Nat /\ Left(chunk[r]) \in Nat
      /\ StepFits(r) /\ Hangs(r) /\ Named(r)
  BY DEF MeasureChunk, RunOK, ChunkFits, Typed, Left
<1>1. ASSUME NEW s \in Drawn(chunk[r]), chunk' = [chunk EXCEPT ![r] = s], s.stage = "keep",
             Recorded(r, "kept"), At(r, "measured"), UNCHANGED <<row, stop, unsaved, faults>>
      PROVE  Preserves(r)
  <2>1. s \in ChunkTurns
    <3>1. CASE s \in NotDrawn(chunk[r])
      BY <1>0, <3>1, NotDrawnLeaves
    <3>2. CASE s = [chunk[r] EXCEPT !.stage = "keep"]
      BY <1>0, <3>2 DEF ChunkTurns
    <3> QED
      BY <3>1, <3>2 DEF Drawn
  <2>2. chunk' \in [RunIds -> ChunkTurns] /\ \A q \in RunIds \ {r} : chunk'[q] = chunk[q]
    BY <1>1, <2>1 DEF Typed
  <2> QED
    BY <1>0, <1>1, <2>2, MeasuredOK DEF Outcomes
<1>2. ASSUME NEW s \in Drawn(chunk[r]), chunk' = [chunk EXCEPT ![r] = s], s.stage # "keep",
             At(r, "turn"), UNCHANGED <<works, row, stop, unsaved, faults>>
      PROVE  Preserves(r)
  <2>1. s \in NotDrawn(chunk[r])
    <3>1. [chunk[r] EXCEPT !.stage = "keep"].stage = "keep"
      BY <1>0 DEF ChunkTurns
    <3> QED
      BY <1>2, <3>1 DEF Drawn
  <2>2. /\ s \in ChunkTurns /\ s.stage \in {"choose", "rewrite", "skip"}
        /\ Left(s) \in Nat /\ Left(s) <= Left(chunk[r])
    BY <1>0, <2>1, NotDrawnLeaves
  <2>3. Goes(r, row[r], {"turn"})
    BY <1>2, StaysGoes DEF Places
  <2>4. Typed' /\ Frame(r)
    BY <1>0, <1>2, <2>2, <2>3, GoesTyped DEF Typed, Frame, Places
  <2>5. pc'[r] = "turn" /\ row' = row /\ chunk'[r] = s
    BY <1>2 DEF At, Typed
  <2>6. StepFits(r)' /\ ChunkFits(r)'
    BY <1>0, <2>2, <2>5 DEF StepFits, ChunkFits, Trying
  <2>7. ParentFits(r)'
    BY <1>0, <1>2, <2>5 DEF RunOK, ParentFits, Places
  <2>8. Hangs(r)' /\ Named(r)'
    BY <1>0, <1>2, <2>5, HangsStays, NamedStays
  <2>9. Unstarted(r)' /\ (row'[r].state = "running" => row[r].state = "running")
    BY <1>0, <2>3, GoesUnstarted
  <2> QED
    BY <2>4, <2>6, <2>7, <2>8, <2>9 DEF Preserves, RunOK
<1>3. CASE Breaks(r) /\ UNCHANGED <<works, chunk>>
  <2>1. Goes(r, row[r], {}) /\ row[r] \in Rows
    BY <1>3, StopsGoes DEF Typed
  <2>2. row'[r].turns = row[r].turns
    BY <2>1 DEF Goes
  <2> QED
    BY <1>0, <1>3, <2>1, <2>2, BreaksOK
<1> QED
  BY <1>1, <1>2, <1>3 DEF MeasureChunk

\* The try of a measured child is added, and names it.
LEMMA KeepStep ==
  ASSUME Typed, NEW r \in RunIds, RunOK(r), Keep(r)
  PROVE  Preserves(r)
<1> DEFINE n == Len(works[r])
           last == works[r][n]
           kept == IsKept(r)
           taken == Attempt(r, last.move, Sentence(r), n)
           added == Added(r, taken)
           new == WithChild(r)
<1>0. /\ pc[r] = "measured" /\ up /\ UNCHANGED <<asked, up, closing, works, step, answer, chunk, sent>>
      /\ works[r] \in Seq(Children) /\ n \in Nat \ {0} /\ sent[r] <= 4
      /\ StepFits(r) /\ Hangs(r) /\ Named(r)
      /\ step[r].to \in MoveKinds /\ step[r].rank \in Nat
      /\ last.turn = step[r].turn /\ last.attempt = step[r].attempt /\ last.kind = step[r].to
      /\ last.move \in Outcomes
  <2>1. pc[r] = "measured" /\ StepFits(r) /\ Hangs(r) /\ Named(r) /\ ParentFits(r) /\ ChunkFits(r)
    BY DEF Keep, RunOK
  <2>2. works[r] # <<>> /\ works[r] \in Seq(Children) /\ step[r] \in Steps
    BY <2>1 DEF ParentFits, Typed
  <2>3. step[r].to \in MoveKinds /\ step[r].rank \in Nat /\ sent[r] <= 4
    BY <2>1, <2>2 DEF StepFits, ChunkFits, Trying, Steps
  <2>4. /\ last.turn = step[r].turn /\ last.attempt = step[r].attempt /\ last.kind = step[r].to
        /\ last.move \in Outcomes
    BY <2>1 DEF ParentFits
  <2> QED
    BY <2>1, <2>2, <2>3, <2>4 DEF Keep
<1>1. Sentence(r) \in Sentences \cup {NoSentence}
  <2>1. CASE step[r].to = "juxtaposition"
    <3>1. step[r].rank \in 1 .. Choices /\ answer[r].choices \in Rankings
      BY <1>0, <2>1 DEF StepFits, Trying
    <3> QED
      BY <2>1, <3>1 DEF Sentence, Rankings
  <2>2. CASE step[r].to # "juxtaposition"
    BY <2>2 DEF Sentence
  <2> QED
    BY <2>1, <2>2
<1>2. taken \in Tried /\ taken.child = n /\ taken.kind = step[r].to /\ taken.outcome = last.move
  BY <1>0, <1>1 DEF Attempt, Tried
<1> HIDE DEF taken
<1>3. /\ added \in Rows /\ added.state = row[r].state
      /\ \A i \in DOMAIN added.turns : \A j \in DOMAIN added.turns[i] :
           \/ i = step[r].turn /\ j = step[r].attempt /\ added.turns[i][j] = taken
           \/ /\ i \in DOMAIN row[r].turns /\ j \in DOMAIN row[r].turns[i]
              /\ added.turns[i][j] = row[r].turns[i][j]
  BY <1>0, <1>2, AddedTyped DEF Trying
<1>3a. new = IF kept THEN [added EXCEPT !.kept = n] ELSE added
  BY DEF WithChild, added, taken
<1> HIDE DEF added, new
<1>4. new \in Rows /\ new.turns = added.turns /\ new.state = row[r].state
  BY <1>0, <1>3, <1>3a DEF Rows
<1>5. \/ Saves(r, new, "look") /\ parent' = (IF kept THEN [parent EXCEPT ![r] = ParentOf(r)] ELSE parent)
      \/ Finishes(r, new, "failed", 0) /\ UNCHANGED parent
  BY DEF Keep, new
<1>6. Goes(r, new, {"look"}) /\ (pc'[r] = "look" => parent' = (IF kept THEN [parent EXCEPT ![r] = ParentOf(r)] ELSE parent))
  <2>1. CASE Saves(r, new, "look") /\ parent' = (IF kept THEN [parent EXCEPT ![r] = ParentOf(r)] ELSE parent)
    BY <1>4, <2>1, SavesGoes DEF Places
  <2>2. CASE Finishes(r, new, "failed", 0)
    <3>1. Goes(r, new, {})
      BY <1>4, <2>2, FinishesGoes DEF Over
    <3> QED
      BY <3>1, GoesWider DEF Goes
  <2> QED
    BY <1>5, <2>1, <2>2
<1>7. ParentOf(r) \in Parents
  BY <1>0 DEF ParentOf, Parents
<1>8. parent' \in [RunIds -> Parents] /\ \A s \in RunIds \ {r} : parent'[s] = parent[s]
  BY <1>5, <1>7 DEF Typed
<1>9. Typed' /\ Frame(r)
  BY <1>0, <1>6, <1>8, GoesTyped DEF Typed, Frame, Places
<1>10. pc'[r] \in {"look", "none"} /\ row'[r].turns \in {row[r].turns, added.turns}
  BY <1>4, <1>6 DEF Goes
<1>11. StepFits(r)' /\ ChunkFits(r)'
  BY <1>0, <1>10 DEF StepFits, ChunkFits, Trying
<1>12. Unstarted(r)' /\ (row'[r].state = "running" => row[r].state = "running")
  BY <1>0, <1>6, GoesUnstarted
<1>13. Hangs(r)'
  BY <1>0, HangsStays
<1>14. Named(r)'
  <2>1. TriesName(row[r].turns, works[r], n - 1) /\ row[r].turns \in Seq(Seq(Tried))
    BY <1>0 DEF Named, Typed, Rows
  <2>2. TriesName(row[r].turns, works[r], n)
    BY <1>0, <2>1, NamedMore
  <2>3. TriesName(added.turns, works[r], n)
    <3>1. ASSUME NEW i \in DOMAIN added.turns, NEW j \in DOMAIN added.turns[i], added.turns[i][j].child # 0
          PROVE  LET a == added.turns[i][j] IN
                 /\ a.child <= n
                 /\ works[r][a.child].turn = i /\ works[r][a.child].attempt = j
                 /\ works[r][a.child].kind = a.kind /\ works[r][a.child].move = a.outcome
      <4>1. CASE i = step[r].turn /\ j = step[r].attempt /\ added.turns[i][j] = taken
        <5>1. added.turns[i][j].child = n /\ n <= n /\ works[r][n] = last
          BY <1>0, <1>2, <4>1
        <5> HIDE DEF n, last
        <5> QED
          BY <1>0, <1>2, <4>1, <5>1
      <4>2. CASE i \in DOMAIN row[r].turns /\ j \in DOMAIN row[r].turns[i] /\ added.turns[i][j] = row[r].turns[i][j]
        <5> DEFINE b == row[r].turns[i][j]
        <5>1. b.child # 0 => /\ b.child <= n
                             /\ works[r][b.child].turn = i /\ works[r][b.child].attempt = j
                             /\ works[r][b.child].kind = b.kind /\ works[r][b.child].move = b.outcome
          BY <2>2, <4>2 DEF TriesName
        <5> HIDE DEF b
        <5>2. added.turns[i][j] = b
          BY <4>2 DEF b
        <5> QED
          BY <3>1, <5>1, <5>2
      <4> QED
        BY <1>3, <4>1, <4>2
    <3> QED
      BY <3>1 DEF TriesName
  <2>4. works'[r] = works[r]
    BY <1>0
  <2> QED
    BY <1>10, <2>2, <2>3, <2>4 DEF Named
<1>15. ParentFits(r)'
  <2>1. CASE pc'[r] = "none"
    BY <2>1 DEF ParentFits
  <2>2. CASE pc'[r] = "look" /\ kept
    <3>0. last.move = "kept"
      BY <2>2 DEF IsKept
    <3>1. parent'[r] = ParentOf(r) /\ works' = works
      BY <1>0, <1>6, <2>2 DEF Typed
    <3>2. parent'[r].child = n /\ parent'[r].described = (step[r].to = "juxtaposition")
      <4>1. ParentOf(r).child = n
        BY DEF ParentOf
      <4>2. ParentOf(r).described = (step[r].to = "juxtaposition")
        BY Zenon DEF ParentOf
      <4> QED
        BY <3>1, <4>1, <4>2
    <3>3. IsLastKept(works[r], n, n)
      BY <1>0, <3>0 DEF IsLastKept
    <3> QED
      BY <1>0, <2>2, <3>1, <3>2, <3>3 DEF ParentFits
  <2>3. CASE pc'[r] = "look" /\ ~kept
    <3>1. parent' = parent /\ works' = works
      BY <1>0, <1>6, <2>3
    <3>2. IsLastKept(works[r], n - 1, parent[r].child)
      BY <1>0 DEF RunOK, ParentFits
    <3>3. IsLastKept(works[r], n, parent[r].child)
      BY <1>0, <2>3, <3>2 DEF IsLastKept, IsKept
    <3>4. parent[r].child # 0 /\ parent[r].described => works[r][parent[r].child].kind = "juxtaposition"
      BY <1>0 DEF RunOK, ParentFits
    <3> QED
      BY <2>3, <3>1, <3>3, <3>4 DEF ParentFits
  <2> QED
    BY <1>10, <2>1, <2>2, <2>3
<1> QED
  BY <1>9, <1>11, <1>12, <1>13, <1>14, <1>15 DEF Preserves, RunOK
-----------------------------------------------------------------------------
\* The steps of a run's thread, and those of the author and the server.
LEMMA ThreadStep ==
  ASSUME Inductive, NEW r \in RunIds, Thread(r)
  PROVE  Inductive'
<1>1. Typed /\ RunOK(r)
  BY DEF Inductive
<1>2. Preserves(r)
  BY <1>1, SubmitStep, TakeStep, LookStep, TryLawsStep, TryJuxtapositionStep, TryChunksStep,
     TurnStep, SendStep, SettleStep, MeasureStep, MeasureChunkStep, KeepStep DEF Thread
<1>3. \A s \in RunIds : RunOK(s)'
  BY <1>2, OthersStay DEF Inductive, Preserves
<1>4. \A s \in RunIds : row'[s].state = "running" => row[s].state = "running"
  BY <1>2 DEF Preserves, Frame
<1>5. OneRunPerOwner'
  BY <1>4 DEF Inductive, OneRunPerOwner
<1> QED
  BY <1>2, <1>3, <1>5 DEF Inductive, Preserves

LEMMA StartStep ==
  ASSUME Inductive, NEW r \in RunIds, Start(r)
  PROVE  Inductive'
<1> DEFINE start == [NoRow EXCEPT !.state = "running", !.moves = asked[r].moves, !.kinds = asked[r].kinds]
           from == [described |-> asked[r].described, chunked |-> asked[r].chunked, child |-> 0]
<1>0. /\ Typed /\ RunOK(r) /\ up /\ row[r].state = "none"
      /\ row' = [row EXCEPT ![r] = start] /\ parent' = [parent EXCEPT ![r] = from]
      /\ pc' = [pc EXCEPT ![r] = "starting"]
      /\ UNCHANGED <<asked, up, closing, works, stop, step, answer, chunk, sent, unsaved, faults>>
      /\ ~Running(OwnerOf[r])
  BY DEF Inductive, Start, At
<1>1. /\ asked[r].moves \in Nat /\ asked[r].kinds \in SUBSET MoveKinds
      /\ asked[r].described \in BOOLEAN /\ asked[r].chunked \in BOOLEAN
  <2>1. asked \in Requests
    BY <1>0 DEF Typed
  <2>2. asked[r] \in [moves : 0 .. 10,
                      kinds : {{"laws"}, {"juxtaposition"}, {"laws", "juxtaposition"}, {"chunks"}},
                      described : BOOLEAN, chunked : BOOLEAN]
    BY <2>1, RunsAssumption
  <2> QED
    BY <2>2 DEF MoveKinds
<1>2. start \in Rows /\ start.state = "running" /\ start.turns = <<>>
  <2> DEFINE running == [NoRow EXCEPT !.state = "running"]
             counted == [running EXCEPT !.moves = asked[r].moves]
  <2>1. NoRow \in Rows /\ NoRow.turns = <<>>
    <3>1. <<>> \in Seq(Seq(Tried))
      OBVIOUS
    <3> QED
      BY <3>1 DEF NoRow, Rows, RunStates
  <2>2. running \in Rows /\ running.turns = <<>> /\ running.state = "running"
    BY <2>1 DEF Rows, RunStates
  <2> HIDE DEF running
  <2>3. counted \in Rows /\ counted.turns = <<>> /\ counted.state = "running"
    BY <1>1, <2>2 DEF Rows
  <2>4. start = [counted EXCEPT !.kinds = asked[r].kinds]
    BY DEF running
  <2> HIDE DEF counted, start
  <2> QED
    BY <1>1, <2>3, <2>4 DEF Rows
<1>3. from \in Parents /\ from.child = 0
  BY <1>1 DEF Parents
<1> HIDE DEF start, from
<1>4. /\ row'[r] = start /\ parent'[r] = from /\ pc'[r] = "starting"
      /\ \A s \in RunIds \ {r} : row'[s] = row[s] /\ parent'[s] = parent[s] /\ pc'[s] = pc[s]
  BY <1>0 DEF Typed
<1>5. Typed'
  BY <1>0, <1>2, <1>3 DEF Typed, Places
<1>6. works[r] = <<>> /\ sent[r] <= 4
  BY <1>0 DEF RunOK, Unstarted, ChunkFits
<1>7. RunOK(r)'
  <2>1. Unstarted(r)'
    BY <1>0, <1>2, <1>4 DEF Unstarted
  <2>2. StepFits(r)' /\ ChunkFits(r)'
    BY <1>0, <1>4, <1>6 DEF StepFits, ChunkFits, Trying
  <2>3. ParentFits(r)'
    BY <1>0, <1>3, <1>4, <1>6 DEF ParentFits, IsLastKept, Places
  <2>4. Hangs(r)' /\ Named(r)'
    BY <1>0, <1>2, <1>4, <1>6 DEF Hangs, Named, TriesName
  <2> QED
    BY <2>1, <2>2, <2>3, <2>4 DEF RunOK
<1>8. \A s \in RunIds \ {r} : RunOK(s)'
  BY <1>0, <1>4, OthersStay DEF Inductive, Frame
<1>9. OneRunPerOwner'
  BY <1>0, <1>4 DEF Inductive, OneRunPerOwner, Running
<1> QED
  BY <1>5, <1>7, <1>8, <1>9 DEF Inductive

LEMMA StopStep ==
  ASSUME Inductive, NEW r \in RunIds, Stop(r)
  PROVE  Inductive'
<1>1. UNCHANGED <<asked, up, closing, row, works, pc, parent, step, answer, chunk, sent, unsaved, faults>>
      /\ stop' = [stop EXCEPT ![r] = "set"] /\ Typed
  BY DEF Inductive, Stop
<1>2. Typed'
  BY <1>1 DEF Typed
<1>3. \A s \in RunIds : RunOK(s)'
  BY <1>1 DEF Inductive, RunOK, Unstarted, StepFits, ChunkFits, ParentFits, Hangs, Named
<1> QED
  BY <1>1, <1>2, <1>3 DEF Inductive, OneRunPerOwner

LEMMA CloseStep ==
  ASSUME Inductive, Close
  PROVE  Inductive'
<1>1. /\ UNCHANGED <<asked, up, row, works, parent, step, answer, chunk, sent, unsaved, faults>>
      /\ stop' = [r \in RunIds |-> IF stop[r] = "none" THEN "none" ELSE "set"]
      /\ pc' = [r \in RunIds |-> IF pc[r] = "queued" THEN "none" ELSE pc[r]]
      /\ closing' = TRUE /\ up /\ Typed
  BY DEF Inductive, Close
<1>2. Typed'
  BY <1>1 DEF Typed, Places
<1>3. ASSUME NEW s \in RunIds
      PROVE  RunOK(s)'
  <2>1. RunOK(s) /\ pc'[s] \in {pc[s], "none"} /\ (pc'[s] = "none" => pc[s] \in {"none", "queued"})
    BY <1>1 DEF Inductive
  <2>2. Unstarted(s)'
    BY <1>1, <2>1 DEF RunOK, Unstarted
  <2>3. StepFits(s)' /\ ChunkFits(s)'
    BY <1>1, <2>1 DEF RunOK, StepFits, ChunkFits, Trying
  <2>4. ParentFits(s)'
    BY <1>1, <2>1 DEF RunOK, ParentFits, Places
  <2>5. Hangs(s)' /\ Named(s)'
    BY <1>1, <2>1 DEF RunOK, Hangs, Named
  <2> QED
    BY <2>2, <2>3, <2>4, <2>5 DEF RunOK
<1> QED
  BY <1>1, <1>2, <1>3 DEF Inductive, OneRunPerOwner

LEMMA GoneStep ==
  ASSUME Inductive, Gone, faults' \in Nat
  PROVE  Inductive'
<1>1. /\ UNCHANGED <<asked, closing, row, works, unsaved>> /\ up' = FALSE /\ Typed
      /\ \A r \in RunIds : pc'[r] = "none" /\ sent'[r] = 0
  BY DEF Inductive, Gone
<1>2. Typed'
  <2>1. /\ pc' \in [RunIds -> Places] /\ stop' \in [RunIds -> {"none", "clear", "set"}]
        /\ sent' \in [RunIds -> Nat] /\ answer' \in [RunIds -> Answers]
    BY DEF Gone, Places, Answers
  <2>2. parent' \in [RunIds -> Parents] /\ step' \in [RunIds -> Steps] /\ chunk' \in [RunIds -> ChunkTurns]
    BY DEF Gone, NoParent, Parents, NoStep, Steps, NoChunkTurn, ChunkTurns
  <2> QED
    BY <1>1, <2>1, <2>2 DEF Typed
<1>3. ASSUME NEW s \in RunIds
      PROVE  RunOK(s)'
  <2>1. RunOK(s) /\ Typed
    BY DEF Inductive
  <2>2. Unstarted(s)'
    BY <1>1, <2>1 DEF RunOK, Unstarted
  <2>3. Hangs(s)' /\ Named(s)'
    BY <1>1, <2>1, HangsStays, NamedStays DEF RunOK
  <2> QED
    BY <1>1, <2>2, <2>3, EndedIsOK
<1> QED
  BY <1>1, <1>2, <1>3 DEF Inductive, OneRunPerOwner

LEMMA RestartStep ==
  ASSUME Inductive, Restart
  PROVE  Inductive'
<1> DEFINE marked(r) == [row[r] EXCEPT !.state = "interrupted", !.current = "none"]
<1>1. /\ UNCHANGED <<asked, works, pc, stop, parent, step, answer, chunk, sent, faults>> /\ ~up /\ up' = TRUE
      /\ closing' = FALSE /\ unsaved' = {} /\ Typed
      /\ row' = [r \in RunIds |-> IF row[r].state = "running" THEN marked(r) ELSE row[r]]
  BY DEF Inductive, Restart, memory
<1>2. \A r \in RunIds : marked(r) \in Rows /\ marked(r).state = "interrupted" /\ marked(r).turns = row[r].turns
  <2>1. ASSUME NEW r \in RunIds
        PROVE  marked(r) \in Rows /\ marked(r).state = "interrupted" /\ marked(r).turns = row[r].turns
    <3> DEFINE mid == [row[r] EXCEPT !.state = "interrupted"]
    <3>1. row[r] \in Rows
      BY <1>1 DEF Typed
    <3>2. mid \in Rows /\ mid.state = "interrupted" /\ mid.turns = row[r].turns
      BY <3>1 DEF Rows, RunStates
    <3>3. marked(r) = [mid EXCEPT !.current = "none"]
      OBVIOUS
    <3> HIDE DEF mid, marked
    <3> QED
      BY <3>2, <3>3 DEF Rows
  <2> QED
    BY <2>1
<1> HIDE DEF marked
<1>3. \A r \in RunIds : /\ row'[r] \in Rows /\ row'[r].turns = row[r].turns /\ row'[r].state # "running"
                        /\ row'[r].state = "none" => row[r].state = "none"
  BY <1>1, <1>2 DEF Typed
<1>4. Typed'
  BY <1>1, <1>3 DEF Typed
<1>5. ASSUME NEW s \in RunIds
      PROVE  RunOK(s)'
  <2>1. RunOK(s) /\ pc[s] = "none" /\ sent[s] <= 4
    BY <1>1 DEF Inductive, RunOK, Unstarted, ChunkFits
  <2>2. Unstarted(s)'
    BY <1>1, <1>3, <2>1 DEF RunOK, Unstarted
  <2>3. Hangs(s)' /\ Named(s)'
    BY <1>1, <1>3, <2>1, HangsStays, NamedStays DEF RunOK
  <2> QED
    BY <1>1, <2>1, <2>2, <2>3, EndedIsOK
<1>6. OneRunPerOwner'
  BY <1>3 DEF OneRunPerOwner
<1> QED
  BY <1>4, <1>5, <1>6 DEF Inductive

\* What a run reads of the work it starts from holds for as long as it draws
\* from it.
LEMMA BegunNext ==
  ASSUME Inductive, NEW r \in RunIds, Begun(r), [Next]_vars
  PROVE  Begun(r)'
<1>0. /\ Typed /\ RunOK(r) /\ works[r] \in Seq(Children) /\ Len(works[r]) \in Nat /\ asked' = asked
  <2>1. asked' = asked
    BY DEF Next, Thread, Start, Stop, Submit, Take, Look, TryLaws, TryJuxtaposition, TryChunks, Turn, Send,
       Settle, Measure, MeasureChunk, Keep, Close, Exit, Crash, Gone, Restart, vars
  <2> QED
    BY <2>1 DEF Inductive, Typed
<1>1. ASSUME works'[r] = works[r], pc'[r] # "none" => pc[r] # "none" /\ parent'[r] = parent[r]
      PROVE  Begun(r)'
  BY <1>0, <1>1 DEF Begun
<1>2. CASE Thread(r)
  <2>1. pc[r] # "none"
    BY <1>2 DEF Thread, Submit, Take, Look, TryLaws, TryJuxtaposition, TryChunks, Turn, Send,
       Settle, Measure, MeasureChunk, Keep
  <2>2. CASE Submit(r) \/ Take(r) \/ Look(r) \/ TryLaws(r) \/ TryJuxtaposition(r) \/ TryChunks(r)
             \/ Turn(r) \/ Send(r)
    <3>1. UNCHANGED <<works, parent>>
      BY <2>2 DEF Submit, Take, Look, TryLaws, TryJuxtaposition, TryChunks, Turn, Send
    <3> QED
      BY <1>1, <2>1, <3>1
  <2>3. CASE Settle(r)
    <3>1. parent' = parent /\ pc[r] = "settle" /\ (Saved(r) \/ works' = works)
      BY <2>3 DEF Settle
    <3>2. ASSUME Saved(r), NEW c \in DOMAIN works'[r], works'[r][c].kind = "juxtaposition", works'[r][c].from = 0
          PROVE  asked[r].described
      <4>1. /\ works'[r] \in Seq(Children) /\ Len(works'[r]) = Len(works[r]) + 1
            /\ works'[r][Len(works[r]) + 1] = Child(r)
            /\ \A k \in 1 .. Len(works[r]) : works'[r][k] = works[r][k]
        BY <1>0, <3>1, <3>2, SavedChild
      <4>2. c \in 1 .. Len(works[r]) \/ c = Len(works[r]) + 1
        BY <1>0, <4>1
      <4>3. CASE c \in 1 .. Len(works[r])
        BY <1>0, <3>2, <4>1, <4>3 DEF Begun
      <4>4. CASE c = Len(works[r]) + 1
        <5>1. step[r].to = "juxtaposition" /\ parent[r].child = 0
          BY <3>2, <4>1, <4>4 DEF Child
        <5>2. parent[r].described
          BY <1>0, <3>1, <5>1 DEF RunOK, StepFits, Trying
        <5> QED
          BY <3>1, <5>1, <5>2 DEF Begun
      <4> QED
        BY <4>2, <4>3, <4>4
    <3> QED
      BY <1>0, <1>1, <2>1, <3>1, <3>2 DEF Begun
  <2>4. CASE Measure(r) \/ MeasureChunk(r)
    <3>1. /\ parent' = parent /\ pc[r] = "drawn"
          /\ works' = works \/ \E outcome \in Outcomes : Recorded(r, outcome)
      BY <2>4 DEF Measure, MeasureChunk, Outcomes
    <3>2. ASSUME NEW outcome \in Outcomes, Recorded(r, outcome)
          PROVE  Begun(r)'
      <4>1. /\ works'[r] \in Seq(Children) /\ Len(works'[r]) = Len(works[r])
            /\ \A k \in 1 .. Len(works[r]) :
                 works'[r][k].from = works[r][k].from /\ works'[r][k].kind = works[r][k].kind
        BY <1>0, <3>1, <3>2, RecordedChild
      <4>2. DOMAIN works'[r] = DOMAIN works[r] /\ DOMAIN works[r] = 1 .. Len(works[r])
        BY <1>0, <4>1
      <4> QED
        BY <1>0, <2>1, <3>1, <4>1, <4>2 DEF Begun
    <3> QED
      BY <1>1, <2>1, <3>1, <3>2
  <2>5. CASE Keep(r)
    <3>1. works' = works /\ pc[r] = "measured"
          /\ (parent' = parent \/ parent' = [parent EXCEPT ![r] = ParentOf(r)])
      BY <2>5 DEF Keep
    <3>2. CASE parent' = [parent EXCEPT ![r] = ParentOf(r)]
      <4>1. works[r] # <<>>
        BY <1>0, <3>1 DEF RunOK, ParentFits
      <4>2. parent'[r].child # 0
        BY <1>0, <3>2, <4>1 DEF ParentOf, Typed
      <4> QED
        BY <1>0, <3>1, <4>2 DEF Begun
    <3> QED
      BY <1>1, <2>1, <3>1, <3>2
  <2> QED
    BY <1>2, <2>2, <2>3, <2>4, <2>5 DEF Thread
<1>3. ASSUME NEW s \in RunIds \ {r}, Thread(s)
      PROVE  Begun(r)'
  <2>1. Preserves(s)
    BY <1>3, SubmitStep, TakeStep, LookStep, TryLawsStep, TryJuxtapositionStep, TryChunksStep,
       TurnStep, SendStep, SettleStep, MeasureStep, MeasureChunkStep, KeepStep DEF Thread, Inductive
  <2> QED
    BY <1>1, <2>1 DEF Preserves, Frame
<1>4. CASE Start(r)
  <2>1. works[r] = <<>> /\ works' = works
    BY <1>0, <1>4 DEF Start, RunOK, Unstarted
  <2>2. parent'[r].described = asked[r].described
    BY <1>0, <1>4 DEF Start, Typed
  <2> QED
    BY <1>0, <2>1, <2>2 DEF Begun
<1>5. ASSUME NEW s \in RunIds \ {r}, Start(s)
      PROVE  Begun(r)'
  <2>1. works' = works /\ pc'[r] = pc[r] /\ parent'[r] = parent[r]
    BY <1>0, <1>5 DEF Start, At, Typed
  <2> QED
    BY <1>1, <2>1
<1>6. CASE (\E s \in RunIds : Stop(s)) \/ Close \/ Exit \/ Crash \/ Restart \/ UNCHANGED vars
  <2>1. works' = works
    BY <1>6 DEF Stop, Close, Exit, Crash, Gone, Restart, vars
  <2>2. pc'[r] # "none" => pc[r] # "none" /\ parent'[r] = parent[r]
    BY <1>6 DEF Stop, Close, Exit, Crash, Gone, Restart, memory, vars
  <2> QED
    BY <1>1, <2>1, <2>2
<1> QED
  BY <1>2, <1>3, <1>4, <1>5, <1>6 DEF Next

LEMMA InitInductive == Init => Inductive
<1> SUFFICES ASSUME Init PROVE Inductive
  OBVIOUS
<1>1. NoRow \in Rows /\ NoRow.state = "none" /\ NoRow.turns = <<>>
  <2>1. <<>> \in Seq(Seq(Tried))
    OBVIOUS
  <2> QED
    BY <2>1 DEF NoRow, Rows, RunStates
<1>2. NoParent \in Parents /\ NoStep \in Steps /\ NoAnswer \in Answers /\ NoChunkTurn \in ChunkTurns
  BY DEF NoParent, Parents, NoStep, Steps, Answers, NoChunkTurn, ChunkTurns
<1>3. Typed
  <2>1. /\ row \in [RunIds -> Rows] /\ works \in [RunIds -> Seq(Children)]
        /\ pc \in [RunIds -> Places] /\ stop \in [RunIds -> {"none", "clear", "set"}]
    BY <1>1 DEF Init, Places
  <2>2. /\ parent \in [RunIds -> Parents] /\ step \in [RunIds -> Steps] /\ answer \in [RunIds -> Answers]
        /\ chunk \in [RunIds -> ChunkTurns] /\ sent \in [RunIds -> Nat]
    BY <1>2 DEF Init
  <2> QED
    BY <2>1, <2>2 DEF Init, Typed
<1>4. ASSUME NEW r \in RunIds
      PROVE  RunOK(r)
  <2>1. row[r] = NoRow /\ works[r] = <<>> /\ pc[r] = "none" /\ sent[r] = 0 /\ up
    BY DEF Init
  <2>2. Unstarted(r) /\ StepFits(r) /\ ChunkFits(r) /\ ParentFits(r)
    BY <1>1, <2>1 DEF Unstarted, StepFits, ChunkFits, ParentFits, Trying
  <2>3. Hangs(r) /\ Named(r)
    BY <1>1, <2>1 DEF Hangs, Named, TriesName
  <2> QED
    BY <2>2, <2>3 DEF RunOK
<1>5. OneRunPerOwner
  BY <1>1 DEF Init, OneRunPerOwner
<1> QED
  BY <1>3, <1>4, <1>5 DEF Inductive

LEMMA NextInductive ==
  ASSUME Inductive, [Next]_vars
  PROVE  Inductive'
<1>1. CASE \E r \in RunIds : Start(r) \/ Stop(r) \/ Thread(r)
  BY <1>1, StartStep, StopStep, ThreadStep
<1>2. CASE Close
  BY <1>2, CloseStep
<1>3. CASE Exit \/ Crash
  <2>1. Gone /\ faults' \in Nat
    BY <1>3 DEF Exit, Crash, Inductive, Typed
  <2> QED
    BY <2>1, GoneStep
<1>4. CASE Restart
  BY <1>4, RestartStep
<1>5. CASE UNCHANGED vars
  BY <1>5 DEF vars, memory, Inductive, Typed, OneRunPerOwner, RunOK, Unstarted, StepFits, ChunkFits,
     ParentFits, Hangs, Named
<1> QED
  BY <1>1, <1>2, <1>3, <1>4, <1>5 DEF Next
-----------------------------------------------------------------------------
\* The invariant of all runs, from which the rest follows.
THEOREM InductiveInvariant == Spec => []Inductive
<1>1. Inductive /\ [Next]_vars => Inductive'
  BY NextInductive
<1> QED
  BY InitInductive, <1>1, PTL DEF Spec

\* An owner has one run going at a time, however runs are started, stopped,
\* broken, closed and restarted (start's check and first save under the lock).
THEOREM OwnersHaveOneRun == Spec => []OneRunPerOwner
<1>1. Inductive => OneRunPerOwner
  BY DEF Inductive
<1> QED
  BY <1>1, InductiveInvariant, PTL

\* A row that says running has a thread or will have one, unless the server
\* closed or went down, or its end could not be saved.
THEOREM RunningHasThread == Spec => []RunningIsTaken
<1>1. Inductive => RunningIsTaken
  BY DEF Inductive, RunOK, Unstarted, RunningIsTaken
<1> QED
  BY <1>1, InductiveInvariant, PTL

\* A chunk turn sends four requests at most, whatever is answered and drawn.
THEOREM FourRequests == Spec => []RequestsAreBounded
<1>1. Inductive => RequestsAreBounded
  BY DEF Inductive, RunOK, ChunkFits, RequestsAreBounded
<1> QED
  BY <1>1, InductiveInvariant, PTL

\* Every child hangs on the last child kept before it, also when its run is
\* stopped, broken or cut off between the child, its record and its try.
THEOREM OneBranch == Spec => []GrowsFromLastKept
<1>1. ASSUME Inductive, NEW r \in RunIds, NEW c \in DOMAIN works[r]
      PROVE  LET before == {k \in 1 .. c - 1 : works[r][k].move = "kept"} IN
             IF before = {} THEN works[r][c].from = 0
             ELSE works[r][c].from \in before /\ \A k \in before : k <= works[r][c].from
  <2> DEFINE from == works[r][c].from
             before == {k \in 1 .. c - 1 : works[r][k].move = "kept"}
  <2>1. IsLastKept(works[r], c - 1, from) /\ c \in Nat
    BY <1>1 DEF Inductive, RunOK, Hangs, Typed
  <2>2. from \in 0 .. c - 1 /\ (from # 0 => from \in before)
    BY <2>1 DEF IsLastKept
  <2>3. \A k \in before : k <= from
    BY <2>1, <2>2 DEF IsLastKept
  <2>4. before = {} => from = 0
    BY <2>2
  <2>5. before # {} => from \in before
    BY <2>2, <2>3
  <2> QED
    BY <2>3, <2>4, <2>5
<1>2. Inductive => GrowsFromLastKept
  BY <1>1 DEF GrowsFromLastKept
<1> QED
  BY <1>2, InductiveInvariant, PTL

\* No sentence is added to a work that is held by its DDL: neither to the one
\* the run starts from, as its start read it, nor to one it kept, which the
\* thread reads before its next try.
THEOREM HeldIsLeft == Spec => []HeldTakesNoSentence
<1> DEFINE AllBegun == \A r \in RunIds : Begun(r)
<1>1. Init => AllBegun
  <2> SUFFICES ASSUME Init, NEW r \in RunIds PROVE Begun(r)
    OBVIOUS
  <2> QED
    BY DEF Init, Begun
<1>2. Inductive /\ AllBegun /\ [Next]_vars => AllBegun'
  BY BegunNext
<1>3. Inductive /\ AllBegun => HeldTakesNoSentence
  BY DEF Inductive, RunOK, Hangs, Begun, HeldTakesNoSentence
<1> HIDE DEF AllBegun
<1> QED
  BY <1>1, <1>2, <1>3, InductiveInvariant, PTL DEF Spec

\* A try that names a child agrees with the record on that child's edge,
\* though rows and edges are saved in two databases.
THEOREM RecordsAgree == Spec => []TriesAreRecorded
<1>1. ASSUME Inductive, NEW r \in RunIds
      PROVE  TriesName(row[r].turns, works[r], Len(works[r]))
  <2>1. Named(r) /\ Len(works[r]) \in Nat /\ row[r].turns \in Seq(Seq(Tried))
    BY <1>1 DEF Inductive, RunOK, Typed, Rows
  <2>2. TriesName(row[r].turns, works[r], Len(works[r]) - 1) => TriesName(row[r].turns, works[r], Len(works[r]))
    BY <2>1, NamedAll
  <2> QED
    BY <2>1, <2>2 DEF Named
<1>2. Inductive => TriesAreRecorded
  BY <1>1 DEF TriesName, TriesAreRecorded
<1> QED
  BY <1>2, InductiveInvariant, PTL
=============================================================================
