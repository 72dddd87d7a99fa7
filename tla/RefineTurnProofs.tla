-------------------------- MODULE RefineTurnProofs --------------------------
(***************************************************************************)
(* Proofs that the turns a runner builds are turns the shared core reads:  *)
(* for any runs, requests, sentences, ranks and faults, every try is added *)
(* where the core puts it, its child's record names a place it may name,   *)
(* the server counts the turns as the core does, and no sentence is added  *)
(* to a run twice.  The invariant TurnsOK goes with the one of             *)
(* RefineProofs: while a try is taken, its step is still what the core     *)
(* answers for the turns so far.                                           *)
(***************************************************************************)
EXTENDS RefineProofs

\* A run asks for chunks alone, or for some of the two other moves.
Mixed(kinds) == kinds \subseteq {"laws", "juxtaposition"} \/ kinds = {"chunks"}

SaidOnce(turns) ==
  \A i, k \in DOMAIN turns : \A j \in DOMAIN turns[i], l \in DOMAIN turns[k] :
    turns[i][j].sentence # NoSentence /\ turns[i][j].sentence = turns[k][l].sentence
      => i = k /\ j = l

SaysNothing(turns) ==
  \A i \in DOMAIN turns : \A j \in DOMAIN turns[i] :
    turns[i][j].outcome = "unavailable" => turns[i][j].sentence = NoSentence

RowOK(run, n) ==
  /\ Mixed(run.kinds) /\ Accepts(run.moves, run.kinds, run.turns)
  /\ SaidOnce(run.turns) /\ SaysNothing(run.turns) /\ run.kept <= n

\* The sentence of that rank was said in that turn.
IsOfTurn(sentence, rank, turn, turns) ==
  /\ turn \in DOMAIN turns
  /\ \E j \in DOMAIN turns[turn] :
       turns[turn][j].sentence = sentence /\ turns[turn][j].rank = rank

\* What an answer offered has been said in its own turn, at its own rank, or
\* not at all; what is being added has not been said.
AnswerOK(r) ==
  LET turns   == row[r].turns
      choices == answer[r].choices
  IN  /\ \A i, j \in DOMAIN choices : choices[i] = choices[j] => i = j
      /\ pc[r] # "none" =>
           \A k \in DOMAIN choices :
             choices[k] \in Said(turns) => IsOfTurn(choices[k], k, answer[r].turn, turns)
      /\ pc[r] \in {"settle", "drawn", "measured"} /\ step[r].to = "juxtaposition" =>
           answer[r].turn = step[r].turn /\ choices[step[r].rank] \notin Said(turns)

\* A child that was measured was started, and its record says what came of it.
OutcomeOK(r) ==
  pc[r] = "measured" => works[r][Len(works[r])].move \in {"kept", "not_visible"}

TurnsOK(r) ==
  /\ RowOK(row[r], Len(works[r])) /\ parent[r].child <= Len(works[r])
  /\ pc[r] \in Trying => step[r] = Answer(r)
  /\ AnswerOK(r) /\ OutcomeOK(r)

Turned == faults <= MaxFaults /\ \A r \in RunIds : TurnsOK(r)
-----------------------------------------------------------------------------
\* The turns the core reads, and the try it answers.

LEMMA OpenCases ==
  ASSUME NEW m, NEW k, NEW t \in Seq(Seq(Tried)), Accepts(m, k, t)
  PROVE  \/ /\ t # <<>> /\ ~Finished(t[Len(t)], k) /\ TurnsDone(k, t) = Len(t) - 1
            /\ Open(k, t) = t[Len(t)] /\ t[Len(t)] # <<>> /\ InOrder(t[Len(t)], k)
         \/ /\ TurnsDone(k, t) = Len(t) /\ Open(k, t) = <<>>
            /\ t # <<>> => Finished(t[Len(t)], k)
<1>1. Len(t) \in Nat /\ (t # <<>> => Len(t) \in DOMAIN t)
  OBVIOUS
<1>2. CASE t # <<>> /\ ~Finished(t[Len(t)], k)
  <2>1. TurnsDone(k, t) = Len(t) - 1 /\ Open(k, t) = t[Len(t)]
    BY <1>1, <1>2 DEF TurnsDone, Open
  <2>2. InOrder(t[Len(t)], k) /\ t[Len(t)] # <<>>
    BY <1>1, <1>2 DEF Accepts, InOrder
  <2> QED BY <1>2, <2>1, <2>2
<1>3. CASE t # <<>> => Finished(t[Len(t)], k)
  <2>1. TurnsDone(k, t) = Len(t)
    BY <1>3 DEF TurnsDone
  <2> QED BY <1>1, <1>3, <2>1 DEF Open
<1> QED BY <1>2, <1>3

\* What is tried next is the next place of the turns, by a move that is asked
\* for and was not unavailable in its turn.
LEMMA TryIsNext ==
  ASSUME NEW m, NEW k, NEW p, NEW t, NextTry(m, k, p, t).to \notin {"refused", "stop"}
  PROVE  LET next == NextTry(m, k, p, t)
             turn == Open(k, t)
         IN  /\ Accepts(m, k, t) /\ next.to \in k
             /\ next.turn = TurnsDone(k, t) + 1 /\ next.attempt = Len(turn) + 1
             /\ turn = <<>> => TurnsDone(k, t) # m
             /\ next.to = "juxtaposition" =>
                  next.rank = Rank(turn) /\ (next.reuse <=> Rank(turn) > 1)
             /\ \A i \in DOMAIN turn : turn[i].kind = next.to => turn[i].outcome # "unavailable"
<1> DEFINE turn == Open(k, t)
           next == NextTry(m, k, p, t)
           Try(kind) == [to |-> kind, turn |-> TurnsDone(k, t) + 1, attempt |-> Len(turn) + 1,
                         rank |-> IF kind = "juxtaposition" THEN Rank(turn) ELSE 0,
                         reuse |-> kind = "juxtaposition" /\ Rank(turn) > 1]
<1>1. /\ Accepts(m, k, t) /\ (turn = <<>> => TurnsDone(k, t) # m)
      /\ \E kind : ~Blocked(kind, k, p, turn) /\ next = Try(kind)
  BY DEF NextTry
<1>2. PICK kind : ~Blocked(kind, k, p, turn) /\ next = Try(kind)
  BY <1>1
<1>3. /\ kind \in k
      /\ \A i \in DOMAIN turn : turn[i].kind = kind => turn[i].outcome # "unavailable"
  BY <1>2 DEF Blocked
<1>4. /\ next.to = kind /\ next.turn = TurnsDone(k, t) + 1 /\ next.attempt = Len(turn) + 1
      /\ next.rank = IF kind = "juxtaposition" THEN Rank(turn) ELSE 0
      /\ next.reuse = (kind = "juxtaposition" /\ Rank(turn) > 1)
  BY <1>2
<1>5. kind = "juxtaposition" => next.rank = Rank(turn) /\ (next.reuse <=> Rank(turn) > 1)
  BY <1>4
<1> HIDE DEF next, turn
<1> QED BY <1>1, <1>3, <1>4, <1>5 DEF next, turn

\* The core refuses no turns it accepts.
LEMMA NotRefused ==
  ASSUME NEW m, NEW k \in SUBSET MoveKinds, NEW p, NEW t, Accepts(m, k, t)
  PROVE  NextTry(m, k, p, t).to # "refused"
<1> DEFINE turn == Open(k, t)
           Try(kind) == [to |-> kind, turn |-> TurnsDone(k, t) + 1, attempt |-> Len(turn) + 1,
                         rank |-> IF kind = "juxtaposition" THEN Rank(turn) ELSE 0,
                         reuse |-> kind = "juxtaposition" /\ Rank(turn) > 1]
<1>1. \/ NextTry(m, k, p, t).to = "stop"
      \/ \E kind : ~Blocked(kind, k, p, turn) /\ NextTry(m, k, p, t) = Try(kind)
  BY DEF NextTry
<1>2. ASSUME NEW kind, ~Blocked(kind, k, p, turn), NextTry(m, k, p, t) = Try(kind)
      PROVE  NextTry(m, k, p, t).to # "refused"
  <2>1. kind \in MoveKinds
    BY <1>2 DEF Blocked
  <2> QED BY <1>2, <2>1 DEF MoveKinds
<1> QED BY <1>1, <1>2

\* Two places that count are two tries.
LEMMA TwoCounted ==
  ASSUME NEW turn \in Seq(Tried), NEW i \in Counted(turn), NEW j \in Counted(turn), i # j
  PROVE  Cardinality(Counted(turn)) >= 2
<1>1. IsFiniteSet(Counted(turn)) /\ Cardinality(Counted(turn)) \in Nat
  BY CountedIsFinite
<1>2. Cardinality(Counted(turn)) # 0
  BY <1>1, FS_EmptySet
<1>3. Cardinality(Counted(turn)) # 1
  <2> SUFFICES ASSUME Cardinality(Counted(turn)) = 1 PROVE FALSE
    OBVIOUS
  <2>1. PICK x : Counted(turn) = {x}
    BY <1>1, FS_Singleton
  <2> QED BY <2>1
<1> QED BY <1>1, <1>2, <1>3

\* A child's record may name the place of the try that drew it: a turn holds no
\* more than its tries and one that could not start.
LEMMA TryIsRecordable ==
  ASSUME NEW m \in Nat, NEW k, Mixed(k), NEW p, NEW t \in Seq(Seq(Tried)),
         NextTry(m, k, p, t).to \notin {"refused", "stop"}
  PROVE  Records(m, NextTry(m, k, p, t).turn, NextTry(m, k, p, t).attempt)
<1>1. PICK next : next = NextTry(m, k, p, t)
  OBVIOUS
<1>2. PICK turn : turn = Open(k, t)
  OBVIOUS
<1>3. /\ Accepts(m, k, t) /\ next.to \in k
      /\ next.turn = TurnsDone(k, t) + 1 /\ next.attempt = Len(turn) + 1
      /\ turn = <<>> => TurnsDone(k, t) # m
      /\ \A i \in DOMAIN turn : turn[i].kind = next.to => turn[i].outcome # "unavailable"
  BY <1>1, <1>2, TryIsNext
<1>4. turn \in Seq(Tried) /\ Cardinality(Counted(turn)) < Tries(k)
  BY <1>2, <1>3, OpenTurn
<1>5. next.turn \in 1 .. m
  <2>1. Len(t) <= m /\ Len(t) \in Nat
    BY <1>3 DEF Accepts
  <2>2. CASE TurnsDone(k, t) = Len(t) - 1 /\ t # <<>>
    BY <1>3, <2>1, <2>2
  <2>3. CASE TurnsDone(k, t) = Len(t) /\ Open(k, t) = <<>>
    BY <1>2, <1>3, <2>1, <2>3
  <2> QED BY <1>3, <2>2, <2>3, OpenCases
<1>6. Len(turn) <= 2
  <2> SUFFICES ASSUME Len(turn) > 2 PROVE FALSE
    BY <1>4
  <2>1. /\ 1 \in DOMAIN turn /\ 2 \in DOMAIN turn /\ 3 \in DOMAIN turn
        /\ DOMAIN turn = 1 .. Len(turn) /\ Len(turn) \in Nat
    BY <1>4
  <2>2. InOrder(turn, k)
    <3>1. turn # <<>>
      BY <2>1
    <3> QED BY <1>2, <1>3, <3>1, OpenCases
  <2>3. ASSUME NEW i \in 1 .. 3, NEW j \in 1 .. 3, i < j
        PROVE  i \in Counted(turn) \/ j \in Counted(turn)
    <3> SUFFICES ASSUME turn[i].outcome = "unavailable", turn[j].outcome = "unavailable"
                 PROVE  FALSE
      BY <2>1, <2>3 DEF Counted
    <3>1. i \in DOMAIN turn /\ j \in DOMAIN turn /\ j \in i + 1 .. Len(turn)
      BY <2>1, <2>3
    <3>2. turn[i].kind \in k /\ turn[j].kind \in k /\ turn[j].kind # turn[i].kind
      BY <2>2, <3>1 DEF InOrder
    <3>3. turn[i].kind # next.to /\ turn[j].kind # next.to
      BY <1>3, <3>1
    <3> QED BY <1>3, <3>2, <3>3 DEF Mixed
  <2>4. \E i, j \in Counted(turn) : i # j
    BY <2>3
  <2>5. Cardinality(Counted(turn)) >= 2 /\ Cardinality(Counted(turn)) \in Nat
    BY <1>4, <2>4, TwoCounted, CountedIsFinite
  <2> QED BY <1>4, <2>5 DEF Tries, TriesPerTurn
<1> QED BY <1>1, <1>3, <1>4, <1>5, <1>6 DEF Records, TriesPerTurn
-----------------------------------------------------------------------------
\* The turns with one more try.

Longer(t, turn, taken) ==
  IF turn > Len(t) THEN Append(t, <<taken>>) ELSE [t EXCEPT ![turn] = Append(@, taken)]

\* The tries of a turn, which may be still to come.
TriesOf(t, turn) == IF turn > Len(t) THEN <<>> ELSE t[turn]

LEMMA LongerTurns ==
  ASSUME NEW t \in Seq(Seq(Tried)), NEW turn, NEW attempt, Fits(t, turn, attempt),
         NEW taken \in Tried
  PROVE  LET u == Longer(t, turn, taken)
             old == TriesOf(t, turn)
         IN  /\ u \in Seq(Seq(Tried)) /\ Len(u) = turn /\ turn \in Nat
             /\ \A i \in DOMAIN u : i # turn => i \in DOMAIN t /\ u[i] = t[i]
             /\ DOMAIN t \subseteq DOMAIN u
             /\ old \in Seq(Tried) /\ attempt = Len(old) + 1 /\ u[turn] = Append(old, taken)
<1>1. CASE turn = Len(t) + 1 /\ attempt = 1
  <2>1. Longer(t, turn, taken) = Append(t, <<taken>>) /\ TriesOf(t, turn) = <<>>
    BY <1>1 DEF Longer, TriesOf
  <2>2. /\ <<taken>> \in Seq(Tried) /\ Append(<<>>, taken) = <<taken>>
        /\ <<>> \in Seq(Tried) /\ Len(<<>>) = 0 /\ Len(t) \in Nat
    OBVIOUS
  <2>3. PICK one \in Seq(Tried) : one = <<taken>>
    BY <2>2
  <2>4. PICK u : u = Append(t, one)
    OBVIOUS
  <2>5. /\ u \in Seq(Seq(Tried)) /\ Len(u) = Len(t) + 1
        /\ DOMAIN u = 1 .. Len(t) + 1 /\ DOMAIN t = 1 .. Len(t)
        /\ \A i \in 1 .. Len(t) : u[i] = t[i]
        /\ u[Len(t) + 1] = one
    BY <2>4
  <2>6. Longer(t, turn, taken) = u /\ TriesOf(t, turn) = <<>>
    BY <2>1, <2>3, <2>4
  <2>7. \A i \in DOMAIN u : i # turn => i \in DOMAIN t /\ u[i] = t[i]
    BY <1>1, <2>2, <2>5
  <2>8. DOMAIN t \subseteq DOMAIN u /\ turn \in Nat /\ u[turn] = one
    BY <1>1, <2>2, <2>5
  <2>9. TriesOf(t, turn) \in Seq(Tried) /\ attempt = Len(TriesOf(t, turn)) + 1
        /\ one = Append(TriesOf(t, turn), taken)
    <3>1. TriesOf(t, turn) = <<>> /\ one = Append(<<>>, taken) /\ attempt = Len(<<>>) + 1
      BY <1>1, <2>2, <2>3, <2>6
    <3> QED BY <2>2, <3>1, Zenon
  <2>10. Longer(t, turn, taken) \in Seq(Seq(Tried)) /\ Len(Longer(t, turn, taken)) = turn
    BY <1>1, <2>5, <2>6
  <2>11. Longer(t, turn, taken)[turn] = Append(TriesOf(t, turn), taken)
    BY <2>6, <2>8, <2>9
  <2> HIDE DEF Longer, TriesOf
  <2> QED BY <2>6, <2>7, <2>8, <2>9, <2>10, <2>11
<1>2. CASE turn = Len(t) /\ turn > 0 /\ attempt = Len(t[turn]) + 1
  <2>1. /\ Longer(t, turn, taken) = [t EXCEPT ![turn] = Append(t[turn], taken)]
        /\ TriesOf(t, turn) = t[turn] /\ t[turn] \in Seq(Tried)
    BY <1>2 DEF Longer, TriesOf
  <2>2. Append(t[turn], taken) \in Seq(Tried)
    BY <2>1
  <2> QED BY <1>2, <2>1, <2>2
<1> QED BY <1>1, <1>2 DEF Fits

LEMMA AddedIs ==
  ASSUME Typed, NEW r \in RunIds, NEW taken
  PROVE  LET new == Added(r, taken) IN
         /\ new.turns = Longer(row[r].turns, step[r].turn, taken)
         /\ new.moves = row[r].moves /\ new.kinds = row[r].kinds /\ new.kept = row[r].kept
<1>1. row[r] \in Rows
  BY DEF Typed
<1> DEFINE more == Longer(row[r].turns, step[r].turn, taken)
<1>2. Added(r, taken) = [row[r] EXCEPT !.turns = more, !.current = "none"]
  BY DEF Added, Longer
<1> HIDE DEF more
<1> QED BY <1>1, <1>2 DEF Rows, more

\* One more try counts for one at most.
LEMMA OneMoreCounted ==
  ASSUME NEW turn \in Seq(Tried), NEW taken \in Tried
  PROVE  Cardinality(Counted(Append(turn, taken))) <= Cardinality(Counted(turn)) + 1
<1> DEFINE C == Counted(turn)
           D == Counted(Append(turn, taken))
           next == Len(turn) + 1
           E == C \cup {next}
<1>1. IsFiniteSet(C) /\ Cardinality(C) \in Nat
  BY CountedIsFinite
<1>2. D \subseteq E
  BY DEF Counted
<1>3. /\ IsFiniteSet(E) /\ Cardinality(E) \in Nat
      /\ Cardinality(E) <= Cardinality(C) + 1
  <2> HIDE DEF C, next
  <2>1. /\ IsFiniteSet(E)
        /\ Cardinality(E) = IF next \in C THEN Cardinality(C) ELSE Cardinality(C) + 1
    BY <1>1, FS_AddElement
  <2> HIDE DEF E
  <2> QED BY <1>1, <2>1
<1> HIDE DEF D, E
<1>4. Cardinality(D) <= Cardinality(E) /\ Cardinality(D) \in Nat
  BY <1>2, <1>3, FS_Subset, FS_CardinalityType
<1> QED BY <1>1, <1>3, <1>4 DEF D

LEMMA OneMoreInOrder ==
  ASSUME NEW k, NEW turn \in Seq(Tried), turn = <<>> \/ (InOrder(turn, k) /\ ~Finished(turn, k)),
         Cardinality(Counted(turn)) < Tries(k),
         NEW taken \in Tried, taken.kind \in k, taken.rank <= Choices,
         \A i \in DOMAIN turn : turn[i].kind = taken.kind => turn[i].outcome # "unavailable"
  PROVE  InOrder(Append(turn, taken), k)
<1> DEFINE u == Append(turn, taken)
<1>1. /\ u # <<>> /\ Len(u) = Len(turn) + 1 /\ Len(turn) \in Nat /\ u[Len(u)] = taken
      /\ DOMAIN u = 1 .. Len(turn) + 1
      /\ DOMAIN turn = 1 .. Len(turn) /\ \A i \in DOMAIN turn : u[i] = turn[i]
  OBVIOUS
<1> HIDE DEF u
<1>2. Cardinality(Counted(u)) <= Tries(k)
  <2>1. /\ Cardinality(Counted(turn)) \in Nat /\ Tries(k) \in Nat
        /\ Cardinality(Counted(u)) <= Cardinality(Counted(turn)) + 1
        /\ u \in Seq(Tried)
    BY OneMoreCounted, CountedIsFinite DEF u, Tries, TriesPerTurn
  <2>2. Cardinality(Counted(u)) \in Nat
    BY <2>1, CountedIsFinite
  <2> QED BY <2>1, <2>2
<1>3. taken.rank \in 0 .. Choices
  BY ChoicesAssumption DEF Tried
<1>4. ASSUME NEW i \in DOMAIN turn
      PROVE  /\ u[i].kind \in k /\ u[i].rank \in 0 .. Choices /\ u[i].outcome # "kept"
             /\ u[i].outcome = "unavailable" =>
                  \A j \in i + 1 .. Len(turn) + 1 : u[j].kind # u[i].kind
  <2>1. InOrder(turn, k) /\ ~Finished(turn, k) /\ turn # <<>>
    BY <1>4
  <2>2. turn[i].kind \in k /\ turn[i].rank \in 0 .. Choices
    BY <2>1 DEF InOrder
  <2>3. turn[i].outcome # "kept"
    BY <2>1 DEF InOrder, Finished, Kept
  <2>4. ASSUME turn[i].outcome = "unavailable", NEW j \in i + 1 .. Len(turn) + 1
        PROVE  u[j].kind # turn[i].kind
    <3>1. CASE j = Len(turn) + 1
      BY <1>1, <1>4, <2>4, <3>1
    <3>2. CASE j # Len(turn) + 1
      <4>1. j \in i + 1 .. Len(turn) /\ j \in DOMAIN turn
        BY <1>1, <1>4, <2>4, <3>2
      <4> QED BY <1>1, <2>1, <2>4, <4>1 DEF InOrder
    <3> QED BY <3>1, <3>2
  <2> QED BY <1>1, <1>4, <2>2, <2>3, <2>4
<1>5. ASSUME NEW i \in DOMAIN u
      PROVE  /\ u[i].kind \in k /\ u[i].rank \in 0 .. Choices
             /\ u[i].outcome = "kept" => i = Len(u)
             /\ u[i].outcome = "unavailable" =>
                  \A j \in i + 1 .. Len(u) : u[j].kind # u[i].kind
  <2>1. CASE i \in DOMAIN turn
    BY <1>1, <1>4, <2>1
  <2>2. CASE i = Len(u)
    BY <1>1, <1>3, <2>2
  <2> QED BY <1>1, <2>1, <2>2
<1> QED BY <1>1, <1>2, <1>5 DEF InOrder, u

\* The turns with the next try are turns the core reads.
LEMMA LongerAccepts ==
  ASSUME NEW m \in Nat, NEW k, Mixed(k), NEW p, NEW t \in Seq(Seq(Tried)),
         NEW next, next = NextTry(m, k, p, t), next.to \notin {"refused", "stop"},
         NEW taken \in Tried, taken.kind = next.to, taken.rank <= Choices
  PROVE  /\ Accepts(m, k, Longer(t, next.turn, taken))
         /\ TriesOf(t, next.turn) = Open(k, t) /\ Fits(t, next.turn, next.attempt)
<1> DEFINE old == Open(k, t)
           u == Longer(t, next.turn, taken)
<1>1. /\ Accepts(m, k, t) /\ next.to \in k
      /\ next.turn = TurnsDone(k, t) + 1 /\ next.attempt = Len(old) + 1
      /\ \A i \in DOMAIN old : old[i].kind = next.to => old[i].outcome # "unavailable"
  BY TryIsNext
<1>2. /\ old \in Seq(Tried) /\ Cardinality(Counted(old)) < Tries(k)
      /\ Fits(t, next.turn, next.attempt)
  BY <1>1, OpenTurn
<1>3. \/ /\ t # <<>> /\ ~Finished(t[Len(t)], k) /\ TurnsDone(k, t) = Len(t) - 1
         /\ old = t[Len(t)] /\ old # <<>> /\ InOrder(t[Len(t)], k)
      \/ /\ TurnsDone(k, t) = Len(t) /\ old = <<>>
         /\ t # <<>> => Finished(t[Len(t)], k)
  BY <1>1, OpenCases
<1>4. Len(t) \in Nat /\ (t # <<>> => Len(t) \in DOMAIN t)
  OBVIOUS
<1>5. TriesOf(t, next.turn) = old
  BY <1>1, <1>3, <1>4 DEF TriesOf
<1>6. /\ u \in Seq(Seq(Tried)) /\ Len(u) = next.turn
      /\ \A i \in DOMAIN u : i # next.turn => i \in DOMAIN t /\ u[i] = t[i]
      /\ u[next.turn] = Append(old, taken)
  <2>1. PICK turn : turn = next.turn
    OBVIOUS
  <2>2. PICK attempt : attempt = next.attempt
    OBVIOUS
  <2>3. Fits(t, turn, attempt)
    BY <1>2, <2>1, <2>2
  <2>4. LET v == Longer(t, turn, taken)
        IN  /\ v \in Seq(Seq(Tried)) /\ Len(v) = turn
            /\ \A i \in DOMAIN v : i # turn => i \in DOMAIN t /\ v[i] = t[i]
            /\ v[turn] = Append(TriesOf(t, turn), taken)
    BY <2>3, LongerTurns
  <2> QED BY <1>5, <2>1, <2>4
<1> HIDE DEF u
<1>7. InOrder(Append(old, taken), k)
  <2>1. old = <<>> \/ (InOrder(old, k) /\ ~Finished(old, k))
    BY <1>3
  <2> HIDE DEF old
  <2> QED BY <1>1, <1>2, <2>1, OneMoreInOrder
<1>8. next.turn <= m
  BY TryIsRecordable DEF Records
<1>9. ASSUME NEW i \in DOMAIN u
      PROVE  InOrder(u[i], k) /\ (i < Len(u) => Finished(u[i], k))
  <2>1. CASE i = next.turn
    <3>1. InOrder(u[i], k)
      BY <1>6, <1>7, <2>1
    <3>2. ~(i < Len(u))
      <4>1. Len(u) \in Nat
        BY <1>6
      <4> QED BY <1>6, <2>1, <4>1
    <3> QED BY <3>1, <3>2
  <2>2. CASE i # next.turn
    <3>1. i \in DOMAIN t /\ u[i] = t[i] /\ i \in 1 .. Len(t) /\ i < next.turn
      BY <1>6, <2>2
    <3>2. InOrder(t[i], k)
      BY <1>1, <3>1 DEF Accepts
    <3>3. CASE i < Len(t)
      BY <1>1, <3>1, <3>2, <3>3 DEF Accepts
    <3>4. CASE i = Len(t)
      <4>1. Finished(t[Len(t)], k)
        BY <1>1, <1>3, <3>1, <3>4
      <4> QED BY <3>1, <3>2, <3>4, <4>1
    <3> QED BY <1>4, <3>1, <3>3, <3>4
  <2> QED BY <2>1, <2>2
<1> QED BY <1>2, <1>5, <1>6, <1>8, <1>9 DEF Accepts, u
-----------------------------------------------------------------------------
\* What is said.

LEMMA SaidIs ==
  ASSUME NEW t, NEW x
  PROVE  x \in Said(t) <=>
           /\ x # NoSentence
           /\ \E i \in DOMAIN t : \E j \in DOMAIN t[i] : t[i][j].sentence = x
<1> DEFINE S(i) == {t[i][j].sentence : j \in DOMAIN t[i]}
<1>1. \A i : x \in S(i) <=> \E j \in DOMAIN t[i] : t[i][j].sentence = x
  OBVIOUS
<1>2. x \in Said(t) <=> x # NoSentence /\ \E i \in DOMAIN t : x \in S(i)
  <2>1. PICK U : U = UNION {{t[i][j].sentence : j \in DOMAIN t[i]} : i \in DOMAIN t}
    OBVIOUS
  <2>2. Said(t) = U \ {NoSentence}
    BY <2>1 DEF Said
  <2>3. x \in U <=> \E i \in DOMAIN t : x \in {t[i][j].sentence : j \in DOMAIN t[i]}
    BY <2>1
  <2>4. x \in Said(t) <=> x # NoSentence /\ x \in U
    BY <2>2
  <2> QED BY <2>3, <2>4
<1> HIDE DEF S
<1> QED BY <1>1, <1>2

\* A try that says nothing, or something new.
LEMMA LongerSays ==
  ASSUME NEW t \in Seq(Seq(Tried)), NEW turn, NEW attempt, Fits(t, turn, attempt),
         NEW taken \in Tried, taken.sentence \notin Said(t),
         taken.outcome = "unavailable" => taken.sentence = NoSentence,
         SaidOnce(t), SaysNothing(t)
  PROVE  LET u == Longer(t, turn, taken) IN
         /\ SaidOnce(u) /\ SaysNothing(u)
         /\ \A x \in Said(u) : x \in Said(t) \/ x = taken.sentence
         /\ \A x, rank, s : IsOfTurn(x, rank, s, t) => IsOfTurn(x, rank, s, u)
         /\ IsOfTurn(taken.sentence, taken.rank, turn, u)
<1> DEFINE u == Longer(t, turn, taken)
           old == TriesOf(t, turn)
<1>1. /\ u \in Seq(Seq(Tried)) /\ Len(u) = turn /\ turn \in Nat
      /\ \A i \in DOMAIN u : i # turn => i \in DOMAIN t /\ u[i] = t[i]
      /\ DOMAIN t \subseteq DOMAIN u
      /\ old \in Seq(Tried) /\ attempt = Len(old) + 1 /\ u[turn] = Append(old, taken)
  BY LongerTurns
<1>2. turn \in DOMAIN u /\ attempt \in DOMAIN u[turn] /\ u[turn][attempt] = taken
  <2>1. turn > 0
    BY DEF Fits
  <2> QED BY <1>1, <2>1
<1>3. \A i \in DOMAIN u : \A j \in DOMAIN u[i] :
        \/ i = turn /\ j = attempt /\ u[i][j] = taken
        \/ i \in DOMAIN t /\ j \in DOMAIN t[i] /\ u[i][j] = t[i][j]
  <2> SUFFICES ASSUME NEW i \in DOMAIN u, NEW j \in DOMAIN u[i], i = turn, j # attempt
               PROVE  i \in DOMAIN t /\ j \in DOMAIN t[i] /\ u[i][j] = t[i][j]
    BY <1>1, <1>2
  <2>1. j \in 1 .. Len(old) /\ u[i][j] = old[j]
    BY <1>1
  <2>2. old = t[turn] /\ turn \in DOMAIN t
    BY <1>1, <1>2, <2>1 DEF TriesOf
  <2> QED BY <1>1, <2>1, <2>2
<1>4. \A i \in DOMAIN t : \A j \in DOMAIN t[i] :
        i \in DOMAIN u /\ j \in DOMAIN u[i] /\ u[i][j] = t[i][j]
  <2> SUFFICES ASSUME NEW i \in DOMAIN t, NEW j \in DOMAIN t[i]
               PROVE  i \in DOMAIN u /\ j \in DOMAIN u[i] /\ u[i][j] = t[i][j]
    OBVIOUS
  <2>1. CASE i # turn
    BY <1>1, <2>1
  <2>2. CASE i = turn
    <3>1. old = t[turn]
      BY <2>2 DEF TriesOf
    <3>2. u[i] = Append(t[i], taken) /\ t[i] \in Seq(Tried)
      BY <1>1, <2>2, <3>1
    <3> QED BY <1>1, <3>2
  <2> QED BY <2>1, <2>2
<1> HIDE DEF u, old
<1>5. SaidOnce(u)
  <2> SUFFICES ASSUME NEW i \in DOMAIN u, NEW k \in DOMAIN u,
                      NEW j \in DOMAIN u[i], NEW l \in DOMAIN u[k],
                      u[i][j].sentence # NoSentence, u[i][j].sentence = u[k][l].sentence
               PROVE  i = k /\ j = l
    BY DEF SaidOnce
  <2>1. CASE u[i][j] = taken /\ k \in DOMAIN t /\ l \in DOMAIN t[k] /\ u[k][l] = t[k][l]
    BY <2>1, SaidIs
  <2>2. CASE u[k][l] = taken /\ i \in DOMAIN t /\ j \in DOMAIN t[i] /\ u[i][j] = t[i][j]
    BY <2>2, SaidIs
  <2>3. CASE /\ k \in DOMAIN t /\ l \in DOMAIN t[k] /\ u[k][l] = t[k][l]
             /\ i \in DOMAIN t /\ j \in DOMAIN t[i] /\ u[i][j] = t[i][j]
    BY <2>3 DEF SaidOnce
  <2> QED BY <1>3, <2>1, <2>2, <2>3
<1>6. SaysNothing(u)
  BY <1>3 DEF SaysNothing
<1>7. \A x \in Said(u) : x \in Said(t) \/ x = taken.sentence
  BY <1>3, SaidIs
<1>8. \A x, rank, s : IsOfTurn(x, rank, s, t) => IsOfTurn(x, rank, s, u)
  BY <1>4 DEF IsOfTurn
<1>9. IsOfTurn(taken.sentence, taken.rank, turn, u)
  BY <1>2 DEF IsOfTurn
<1> QED BY <1>5, <1>6, <1>7, <1>8, <1>9 DEF u
-----------------------------------------------------------------------------
\* What a step of its thread does to the turns of a run.

Alike(a, b) == a.moves = b.moves /\ a.kinds = b.kinds /\ a.turns = b.turns /\ a.kept = b.kept

\* Its row keeps its turns or has those of `new', which it has while it goes on.
Takes(r, new) ==
  /\ faults' <= MaxFaults
  /\ Alike(row'[r], row[r]) \/ Alike(row'[r], new)
  /\ pc'[r] # "none" => Alike(row'[r], new)

LEMMA FinishesTakes ==
  ASSUME Typed, faults <= MaxFaults, NEW r \in RunIds, NEW new \in Rows, NEW state, NEW n \in Nat,
         faults + n <= MaxFaults, Finishes(r, new, state, n)
  PROVE  Takes(r, new) /\ pc'[r] = "none"
<1>1. CASE Ends(r, new, state) /\ faults' = faults + n
  <2>1. PICK over : over = [new EXCEPT !.state = state, !.current = "none"]
    OBVIOUS
  <2>2. over.moves = new.moves /\ over.kinds = new.kinds /\ over.turns = new.turns
        /\ over.kept = new.kept
    BY <2>1 DEF Rows
  <2>3. row'[r] = over /\ pc'[r] = "none"
    BY <1>1, <2>1 DEF Ends, At, Typed
  <2> QED BY <1>1, <2>2, <2>3 DEF Takes, Alike
<1>2. CASE faults + n < MaxFaults /\ EndsUnsaved(r) /\ faults' = faults + n + 1
  <2>1. row' = row /\ pc'[r] = "none"
    BY <1>2 DEF EndsUnsaved, At, Typed
  <2>2. MaxFaults \in Nat /\ faults \in Nat
    BY RunsAssumption DEF Typed
  <2> QED BY <1>2, <2>1, <2>2 DEF Takes, Alike
<1> QED BY <1>1, <1>2 DEF Finishes

LEMMA SavesTakes ==
  ASSUME Typed, faults <= MaxFaults, NEW r \in RunIds, NEW new \in Rows, NEW where \in Places,
         Saves(r, new, where)
  PROVE  Takes(r, new) /\ pc'[r] \in {where, "none"}
<1>1. CASE /\ row' = [row EXCEPT ![r] = new] /\ At(r, where)
           /\ UNCHANGED <<stop, unsaved, faults>>
  <2>1. row'[r] = new /\ pc'[r] = where /\ faults' = faults
    BY <1>1 DEF At, Typed
  <2> QED BY <2>1 DEF Takes, Alike
<1>2. CASE faults < MaxFaults /\ Finishes(r, new, "failed", 1)
  <2>1. faults + 1 <= MaxFaults /\ 1 \in Nat
    BY <1>2, RunsAssumption DEF Typed
  <2>2. Takes(r, new) /\ pc'[r] = "none"
    BY <1>2, <2>1, FinishesTakes
  <2> QED BY <2>2
<1> QED BY <1>1, <1>2 DEF Saves

LEMMA StaysTakes ==
  ASSUME Typed, faults <= MaxFaults, NEW r \in RunIds, NEW where \in Places, At(r, where),
         UNCHANGED <<row, stop, unsaved, faults>>
  PROVE  Takes(r, row[r]) /\ pc'[r] = where
<1>1. pc'[r] = where /\ row'[r] = row[r]
  BY DEF At, Typed
<1> QED BY <1>1 DEF Takes, Alike

LEMMA StopsTakes ==
  ASSUME Typed, faults <= MaxFaults, NEW r \in RunIds, Stops(r) \/ Breaks(r)
  PROVE  Takes(r, row[r]) /\ pc'[r] = "none"
<1>1. row[r] \in Rows /\ 0 \in Nat /\ faults + 0 <= MaxFaults
  BY DEF Typed
<1> QED BY <1>1, FinishesTakes DEF Stops, Breaks

\* A step that adds no try leaves the turns as they are read.
LEMMA SameTurns ==
  ASSUME NEW r \in RunIds, TurnsOK(r), Alike(row'[r], row[r]),
         Len(works'[r]) \in Nat, Len(works[r]) \in Nat, Len(works[r]) <= Len(works'[r]),
         row[r].kept \in Nat, parent[r].child \in Nat,
         parent'[r] = parent[r], answer'[r] = answer[r],
         pc'[r] # "none" => pc[r] # "none",
         pc'[r] \in Trying => step'[r] = Answer(r),
         pc'[r] \in {"settle", "drawn", "measured"} =>
           step'[r] = step[r] /\ (step[r].to = "juxtaposition" =>
             pc[r] \in {"settle", "drawn", "measured"}),
         OutcomeOK(r)'
  PROVE  TurnsOK(r)'
<1>1. RowOK(row[r], Len(works[r])) /\ AnswerOK(r)
  BY DEF TurnsOK
<1>2. RowOK(row'[r], Len(works'[r]))
  BY <1>1 DEF RowOK, Alike
<1>3. parent'[r].child <= Len(works'[r])
  BY DEF TurnsOK
<1>4. Answer(r)' = Answer(r)
  BY DEF Answer, Alike
<1>5. AnswerOK(r)'
  BY <1>1 DEF AnswerOK, Alike
<1> QED BY <1>2, <1>3, <1>4, <1>5 DEF TurnsOK

\* What a try says: nothing, or the sentence its answer ranks there, which has
\* not been said.
Says(r, taken) ==
  \/ taken.sentence = NoSentence
  \/ /\ pc[r] \in {"settle", "drawn", "measured"} /\ step[r].to = "juxtaposition"
     /\ taken.sentence = answer[r].choices[step[r].rank] /\ taken.rank = step[r].rank

\* A try added keeps the turns as they are read, and said once.
LEMMA AddedTurns ==
  ASSUME Typed, NEW r \in RunIds, StepFits(r), TurnsOK(r), pc[r] \in Trying,
         NEW taken \in Tried, taken.kind = step[r].to, taken.rank <= Choices, Says(r, taken),
         taken.outcome = "unavailable" => taken.sentence = NoSentence,
         NEW n, row[r].kept <= n
  PROVE  LET new == Added(r, taken) IN
         /\ RowOK(new, n)
         /\ \A k \in DOMAIN answer[r].choices :
              answer[r].choices[k] \in Said(new.turns) =>
                IsOfTurn(answer[r].choices[k], k, answer[r].turn, new.turns)
<1> DEFINE t == row[r].turns
           u == Longer(t, step[r].turn, taken)
<1>1. /\ row[r] \in Rows /\ t \in Seq(Seq(Tried)) /\ row[r].kinds \in SUBSET MoveKinds
      /\ row[r].moves \in Nat
  BY DEF Typed, Rows
<1>2. /\ Mixed(row[r].kinds) /\ SaidOnce(t) /\ SaysNothing(t) /\ AnswerOK(r)
      /\ step[r] = NextTry(row[r].moves, row[r].kinds, parent[r], t)
  BY DEF TurnsOK, RowOK, Answer
<1>3. step[r].to \notin {"refused", "stop"} /\ pc[r] # "none"
  BY DEF StepFits, MoveKinds, Trying
<1>4. Accepts(row[r].moves, row[r].kinds, u) /\ Fits(t, step[r].turn, step[r].attempt)
  <2>1. PICK next : next = step[r]
    OBVIOUS
  <2> HIDE DEF t
  <2>2. Accepts(row[r].moves, row[r].kinds, Longer(t, next.turn, taken))
        /\ Fits(t, next.turn, next.attempt)
    BY <1>1, <1>2, <1>3, <2>1, LongerAccepts
  <2> QED BY <2>1, <2>2
<1>5. taken.sentence \notin Said(t)
  <2>1. CASE taken.sentence = NoSentence
    BY <2>1, SaidIs
  <2>2. CASE taken.sentence # NoSentence
    BY <1>2, <2>2 DEF Says, AnswerOK
  <2> QED BY <2>1, <2>2
<1>6. /\ SaidOnce(u) /\ SaysNothing(u)
      /\ \A x \in Said(u) : x \in Said(t) \/ x = taken.sentence
      /\ \A x, rank, s : IsOfTurn(x, rank, s, t) => IsOfTurn(x, rank, s, u)
      /\ IsOfTurn(taken.sentence, taken.rank, step[r].turn, u)
  <2>1. PICK turn : turn = step[r].turn
    OBVIOUS
  <2>2. PICK attempt : attempt = step[r].attempt
    OBVIOUS
  <2>3. Fits(t, turn, attempt)
    BY <1>4, <2>1, <2>2
  <2> HIDE DEF t
  <2>4. LET v == Longer(t, turn, taken) IN
        /\ SaidOnce(v) /\ SaysNothing(v)
        /\ \A x \in Said(v) : x \in Said(t) \/ x = taken.sentence
        /\ \A x, rank, s : IsOfTurn(x, rank, s, t) => IsOfTurn(x, rank, s, v)
        /\ IsOfTurn(taken.sentence, taken.rank, turn, v)
    BY <1>1, <1>2, <1>5, <2>3, LongerSays
  <2> QED BY <2>1, <2>4
<1>7. PICK new : new = Added(r, taken)
  OBVIOUS
<1>8. new.turns = u /\ new.moves = row[r].moves /\ new.kinds = row[r].kinds /\ new.kept = row[r].kept
  BY <1>7, AddedIs
<1> HIDE DEF u
<1>9. RowOK(new, n)
  BY <1>2, <1>4, <1>6, <1>8 DEF RowOK
<1>10. ASSUME NEW k \in DOMAIN answer[r].choices, answer[r].choices[k] \in Said(u)
       PROVE  IsOfTurn(answer[r].choices[k], k, answer[r].turn, u)
  <2>1. CASE answer[r].choices[k] \in Said(t)
    BY <1>2, <1>3, <1>6, <2>1 DEF AnswerOK
  <2>2. CASE answer[r].choices[k] = taken.sentence
    <3>1. taken.sentence # NoSentence
      BY <1>10, <2>2, SaidIs
    <3>2. /\ pc[r] \in {"settle", "drawn", "measured"} /\ step[r].to = "juxtaposition"
          /\ taken.sentence = answer[r].choices[step[r].rank] /\ taken.rank = step[r].rank
      BY <3>1 DEF Says
    <3>3. step[r].rank \in DOMAIN answer[r].choices
      <4>1. step[r].rank \in 1 .. Choices /\ answer[r].choices \in Rankings
        BY <3>2 DEF StepFits
      <4> QED BY <4>1 DEF Rankings
    <3>4. k = step[r].rank /\ answer[r].turn = step[r].turn
      BY <1>2, <2>2, <3>2, <3>3 DEF AnswerOK
    <3> QED BY <1>6, <2>2, <3>2, <3>4
  <2> QED BY <1>6, <1>10, <2>1, <2>2
<1> QED BY <1>7, <1>8, <1>9, <1>10

\* A step that adds a try and goes on to look, or ends.
LEMMA TakenTurns ==
  ASSUME Typed, NEW r \in RunIds, StepFits(r), TurnsOK(r), pc[r] \in Trying,
         NEW taken \in Tried, taken.kind = step[r].to, taken.rank <= Choices, Says(r, taken),
         taken.outcome = "unavailable" => taken.sentence = NoSentence,
         NEW new, RowOK(Added(r, taken), Len(works[r])) => RowOK(new, Len(works[r])),
         new.turns = Added(r, taken).turns,
         Alike(row'[r], row[r]) \/ Alike(row'[r], new), pc'[r] # "none" => Alike(row'[r], new),
         works' = works, answer' = answer, parent'[r].child <= Len(works[r]),
         pc'[r] \in {"look", "none"}
  PROVE  TurnsOK(r)'
<1>1. /\ RowOK(Added(r, taken), Len(works[r]))
      /\ \A k \in DOMAIN answer[r].choices :
           answer[r].choices[k] \in Said(Added(r, taken).turns) =>
             IsOfTurn(answer[r].choices[k], k, answer[r].turn, Added(r, taken).turns)
  <2>1. PICK n : n = Len(works[r])
    OBVIOUS
  <2>2. row[r].kept <= n
    BY <2>1 DEF TurnsOK, RowOK
  <2> QED BY <2>1, <2>2, AddedTurns
<1>2. RowOK(row[r], Len(works[r])) /\ AnswerOK(r)
  BY DEF TurnsOK
<1>3. RowOK(row'[r], Len(works'[r]))
  BY <1>1, <1>2 DEF RowOK, Alike
<1>4. AnswerOK(r)'
  <2>1. \A i, j \in DOMAIN answer'[r].choices :
          answer'[r].choices[i] = answer'[r].choices[j] => i = j
    BY <1>2 DEF AnswerOK
  <2>2. CASE pc'[r] = "none"
    BY <2>1, <2>2 DEF AnswerOK
  <2>3. CASE pc'[r] = "look"
    <3>1. row'[r].turns = Added(r, taken).turns
      BY <2>3 DEF Alike
    <3> QED BY <1>1, <2>1, <2>3, <3>1 DEF AnswerOK
  <2> QED BY <2>2, <2>3
<1> QED BY <1>3, <1>4 DEF TurnsOK, OutcomeOK, Trying

\* A try that drew nothing to measure.
LEMMA GivesTurns ==
  ASSUME Typed, faults <= MaxFaults, NEW r \in RunIds, StepFits(r), TurnsOK(r), pc[r] \in Trying,
         NEW outcome \in Outcomes, NEW sentence \in Sentences \cup {NoSentence},
         \/ sentence = NoSentence
         \/ pc[r] = "settle" /\ outcome # "unavailable" /\ sentence = Sentence(r),
         Gives(r, outcome, sentence), works' = works, answer' = answer, parent' = parent
  PROVE  TurnsOK(r)' /\ faults' <= MaxFaults
<1> DEFINE taken == Attempt(r, outcome, sentence, 0)
           new == Added(r, taken)
<1>1. taken \in Tried
  BY GivesGoes
<1>2. /\ taken.kind = step[r].to /\ taken.sentence = sentence /\ taken.outcome = outcome
      /\ taken.rank = IF sentence = NoSentence THEN 0 ELSE step[r].rank
  BY DEF Attempt
<1>3. sentence # NoSentence =>
        /\ pc[r] = "settle" /\ step[r].to = "juxtaposition" /\ step[r].rank \in 1 .. Choices
        /\ sentence = answer[r].choices[step[r].rank]
  BY DEF Sentence, StepFits
<1>4. taken.rank <= Choices /\ Says(r, taken)
      /\ (taken.outcome = "unavailable" => taken.sentence = NoSentence)
  BY <1>2, <1>3, ChoicesAssumption DEF Says
<1> HIDE DEF taken
<1>5. new \in Rows
  BY <1>1, AddedTyped
<1>6. Takes(r, new) /\ pc'[r] \in {"look", "none"}
  BY <1>5, SavesTakes DEF Gives, Places, taken
<1>7. parent'[r].child <= Len(works[r])
  BY DEF TurnsOK
<1>8. new.turns = Added(r, taken).turns /\ (RowOK(Added(r, taken), Len(works[r])) => RowOK(new, Len(works[r])))
  OBVIOUS
<1> HIDE DEF new
<1> QED BY <1>1, <1>2, <1>4, <1>6, <1>7, <1>8, TakenTurns DEF Takes
-----------------------------------------------------------------------------
\* One lemma for each step of a thread: what it leaves of its run's turns.

LEMMA Sizes ==
  ASSUME Typed, NEW r \in RunIds
  PROVE  /\ Len(works[r]) \in Nat /\ row[r] \in Rows /\ row[r].kept \in Nat
         /\ row[r].turns \in Seq(Seq(Tried)) /\ parent[r].child \in Nat
BY DEF Typed, Rows, Parents

\* A run that stops, or breaks, or finds that it is over.
LEMMA EndTurns ==
  ASSUME Typed, NEW r \in RunIds, TurnsOK(r), Takes(r, row[r]), pc'[r] = "none",
         works'[r] = works[r] \/ Saved(r), parent' = parent, answer' = answer
  PROVE  TurnsOK(r)' /\ faults' <= MaxFaults
<1>1. Len(works'[r]) \in Nat /\ Len(works[r]) <= Len(works'[r])
  <2>1. CASE works'[r] = works[r]
    BY <2>1, Sizes
  <2>2. CASE Saved(r)
    <3>1. works'[r] = Append(works[r], Child(r)) /\ works[r] \in Seq(Children)
      BY <2>2 DEF Saved, Typed
    <3>2. PICK w \in Seq(Children) : w = works[r]
      BY <3>1
    <3>3. PICK child : child = Child(r)
      OBVIOUS
    <3>4. Len(Append(w, child)) = Len(w) + 1 /\ Len(w) \in Nat
      OBVIOUS
    <3> QED BY <3>1, <3>2, <3>3, <3>4
  <2> QED BY <2>1, <2>2
<1>2. Alike(row'[r], row[r]) /\ OutcomeOK(r)'
  BY DEF Takes, OutcomeOK
<1> QED BY <1>1, <1>2, Sizes, SameTurns DEF Takes, Trying

\* A thread goes on, and its turns, children and answer are as they were.
LEMMA OnTurns ==
  ASSUME Typed, faults <= MaxFaults, NEW r \in RunIds, TurnsOK(r), NEW where \in Places,
         At(r, where), UNCHANGED <<row, stop, unsaved, faults>>, pc[r] # "none",
         where # "measured",
         works' = works, UNCHANGED <<parent, step, answer>>,
         where \in Trying => pc[r] \in Trying,
         where \in {"settle", "drawn"} /\ step[r].to = "juxtaposition" => pc[r] = "settle"
  PROVE  TurnsOK(r)' /\ faults' <= MaxFaults
<1>1. Takes(r, row[r]) /\ pc'[r] = where
  BY StaysTakes
<1>2. Alike(row'[r], row[r]) /\ OutcomeOK(r)'
  BY <1>1 DEF Takes, OutcomeOK, Alike
<1>3. pc'[r] \in Trying => step'[r] = Answer(r)
  BY <1>1 DEF TurnsOK
<1>4. Len(works'[r]) \in Nat /\ Len(works[r]) <= Len(works'[r])
  BY Sizes
<1> QED BY <1>1, <1>2, <1>3, <1>4, Sizes, SameTurns DEF Takes

LEMMA SubmitTurns ==
  ASSUME Typed, faults <= MaxFaults, NEW r \in RunIds, RunOK(r), TurnsOK(r), Submit(r) \/ Take(r)
  PROVE  TurnsOK(r)' /\ faults' <= MaxFaults
<1>1. /\ pc'[r] \in {"queued", "look"} /\ pc[r] # "none" /\ row' = row /\ works' = works
      /\ UNCHANGED <<parent, step, answer, faults>>
  BY DEF Submit, Take, At, Typed
<1>2. OutcomeOK(r)' /\ Alike(row'[r], row[r])
  BY <1>1 DEF OutcomeOK, Alike
<1> QED BY <1>1, <1>2, Sizes, SameTurns DEF Trying

LEMMA LookTurns ==
  ASSUME Typed, faults <= MaxFaults, NEW r \in RunIds, RunOK(r), TurnsOK(r), Look(r)
  PROVE  TurnsOK(r)' /\ faults' <= MaxFaults
<1> DEFINE next == Answer(r)
           new == [row[r] EXCEPT !.current = next.to]
<1>0. /\ row[r] \in Rows /\ row[r].turns \in Seq(Seq(Tried)) /\ row[r].kinds \in SUBSET MoveKinds
      /\ parent[r] \in Parents /\ pc[r] = "look" /\ UNCHANGED <<works, parent, answer>>
  BY DEF Typed, Rows, Look
<1>1. CASE Stops(r) \/ Breaks(r) \/ (faults < MaxFaults /\ Finishes(r, row[r], "failed", 1))
             \/ (Ends(r, row[r], "done") /\ UNCHANGED faults)
  <2>1. Takes(r, row[r]) /\ pc'[r] = "none"
    <3>1. CASE Stops(r) \/ Breaks(r)
      BY <3>1, StopsTakes
    <3>2. CASE faults < MaxFaults /\ Finishes(r, row[r], "failed", 1)
      <4>1. faults + 1 <= MaxFaults /\ 1 \in Nat
        BY <3>2, RunsAssumption DEF Typed
      <4> QED BY <1>0, <3>2, <4>1, FinishesTakes
    <3>3. CASE Ends(r, row[r], "done") /\ UNCHANGED faults
      <4>1. Finishes(r, row[r], "done", 0) /\ 0 \in Nat /\ faults + 0 <= MaxFaults
        BY <3>3 DEF Finishes, Typed
      <4> QED BY <1>0, <4>1, FinishesTakes
    <3> QED BY <1>1, <3>1, <3>2, <3>3
  <2> QED BY <1>0, <2>1, EndTurns
<1>2. CASE /\ next.to \notin {"refused", "stop"}
           /\ step' = [step EXCEPT ![r] = next] /\ Saves(r, new, "try")
  <2>1. next \in Steps /\ next.to \in MoveKinds
    BY <1>0, <1>2, NextTryTyped DEF Answer
  <2> HIDE DEF next
  <2>2. new \in Rows /\ Alike(new, row[r])
    BY <1>0, <2>1 DEF Rows, Alike
  <2> HIDE DEF new
  <2>3. Takes(r, new) /\ pc'[r] \in {"try", "none"}
    BY <1>2, <2>2, SavesTakes DEF Places
  <2>4. Alike(row'[r], row[r]) /\ OutcomeOK(r)' /\ step'[r] = next
    BY <1>2, <2>2, <2>3 DEF Takes, Alike, OutcomeOK, Typed
  <2> QED BY <1>0, <2>3, <2>4, Sizes, SameTurns DEF Takes, next
<1> QED BY <1>1, <1>2 DEF Look

LEMMA TryTurns ==
  ASSUME Typed, faults <= MaxFaults, NEW r \in RunIds, RunOK(r), TurnsOK(r), TryLaws(r) \/ TryChunks(r)
  PROVE  TurnsOK(r)' /\ faults' <= MaxFaults
<1>1. /\ pc[r] = "try" /\ step[r].to # "juxtaposition" /\ StepFits(r) /\ pc[r] \in Trying
      /\ works' = works /\ UNCHANGED <<parent, step, answer>>
  BY DEF TryLaws, TryChunks, RunOK, Trying
<1>2. CASE Gives(r, "unavailable", NoSentence)
  BY <1>1, <1>2, GivesTurns DEF Outcomes
<1>3. ASSUME NEW where \in {"settle", "turn"}, At(r, where), UNCHANGED <<row, stop, unsaved, faults>>
      PROVE  TurnsOK(r)' /\ faults' <= MaxFaults
  BY <1>1, <1>3, OnTurns DEF Places, Trying
<1> QED BY <1>2, <1>3 DEF TryLaws, TryChunks

LEMMA TurnTurns ==
  ASSUME Typed, faults <= MaxFaults, NEW r \in RunIds, RunOK(r), TurnsOK(r), Turn(r) \/ Send(r)
  PROVE  TurnsOK(r)' /\ faults' <= MaxFaults
<1>1. /\ pc[r] \in {"turn", "send"} /\ step[r].to = "chunks" /\ StepFits(r) /\ pc[r] \in Trying
      /\ works' = works /\ UNCHANGED <<parent, step, answer>>
  BY DEF Turn, Send, RunOK, StepFits, Trying
<1>2. CASE Gives(r, "failed", NoSentence)
  BY <1>1, <1>2, GivesTurns DEF Outcomes
<1>3. ASSUME NEW where \in {"settle", "turn", "send"}, At(r, where), UNCHANGED <<row, stop, unsaved, faults>>
      PROVE  TurnsOK(r)' /\ faults' <= MaxFaults
  BY <1>1, <1>3, OnTurns DEF Places, Trying
<1>4. CASE Stops(r)
  BY <1>1, <1>4, StopsTakes, EndTurns
<1> QED BY <1>2, <1>3, <1>4 DEF Turn, Send

LEMMA SentenceTyped ==
  ASSUME NEW r \in RunIds, StepFits(r), pc[r] \in {"settle", "drawn", "measured"}
  PROVE  Sentence(r) \in Sentences \cup {NoSentence}
<1>1. CASE step[r].to = "juxtaposition"
  <2>1. step[r].rank \in 1 .. Choices /\ answer[r].choices \in Rankings
    BY <1>1 DEF StepFits, Trying
  <2> QED BY <1>1, <2>1 DEF Sentence, Rankings
<1>2. CASE step[r].to # "juxtaposition"
  BY <1>2 DEF Sentence
<1> QED BY <1>1, <1>2

LEMMA SettleTurns ==
  ASSUME Typed, faults <= MaxFaults, NEW r \in RunIds, RunOK(r), TurnsOK(r), Settle(r)
  PROVE  TurnsOK(r)' /\ faults' <= MaxFaults
<1>1. /\ pc[r] = "settle" /\ StepFits(r) /\ pc[r] \in Trying /\ UNCHANGED <<parent, step, answer>>
      /\ Sentence(r) \in Sentences \cup {NoSentence}
  BY SentenceTyped DEF Settle, RunOK, Trying
<1>2. CASE Saved(r) /\ At(r, "drawn") /\ UNCHANGED <<row, stop, unsaved, faults, chunk>>
  <2>1. Takes(r, row[r]) /\ pc'[r] = "drawn"
    BY <1>2, StaysTakes DEF Places
  <2>2. Alike(row'[r], row[r]) /\ OutcomeOK(r)'
    BY <2>1 DEF Takes, OutcomeOK
  <2>3. Len(works'[r]) = Len(works[r]) + 1
    <3>1. works'[r] = Append(works[r], Child(r)) /\ works[r] \in Seq(Children)
      BY <1>2 DEF Saved, Typed
    <3>2. PICK w \in Seq(Children) : w = works[r]
      BY <3>1
    <3>3. PICK child : child = Child(r)
      OBVIOUS
    <3>4. Len(Append(w, child)) = Len(w) + 1 /\ Len(w) \in Nat
      OBVIOUS
    <3> QED BY <3>1, <3>2, <3>3, <3>4
  <2>4. Len(works'[r]) \in Nat /\ Len(works[r]) <= Len(works'[r])
    BY <2>3, Sizes
  <2>5. step'[r] = Answer(r)
    BY <1>1 DEF TurnsOK
  <2> QED BY <1>1, <2>1, <2>2, <2>4, <2>5, Sizes, SameTurns DEF Takes
<1>3. CASE Gives(r, "failed", Sentence(r)) /\ works' = works
  BY <1>1, <1>3, GivesTurns DEF Outcomes
<1>4. CASE Gives(r, "unavailable", NoSentence) /\ works' = works
  BY <1>1, <1>4, GivesTurns DEF Outcomes
<1>5. CASE At(r, "turn") /\ UNCHANGED <<works, row, stop, unsaved, faults>>
  BY <1>1, <1>5, OnTurns DEF Places, Trying
<1>6. CASE Stops(r) /\ (Saved(r) \/ UNCHANGED works)
  BY <1>1, <1>6, StopsTakes, EndTurns
<1> QED BY <1>2, <1>3, <1>4, <1>5, <1>6 DEF Settle

\* A juxtaposition that uses its answer again has not added that sentence: the
\* one try of its turn that counts was drawn at the rank before.
LEMMA NextRankIsUnsaid ==
  ASSUME Typed, NEW r \in RunIds, RunOK(r), TurnsOK(r), pc[r] = "try",
         step[r].to = "juxtaposition", step[r].reuse, answer[r].turn = step[r].turn
  PROVE  answer[r].choices[step[r].rank] \notin Said(row[r].turns)
<1> DEFINE t == row[r].turns
           k == row[r].kinds
           rank == step[r].rank
           said == answer[r].choices[rank]
<1> SUFFICES ASSUME said \in Said(t) PROVE FALSE
  OBVIOUS
<1>1. /\ t \in Seq(Seq(Tried)) /\ k \in SUBSET MoveKinds /\ answer[r] \in Answers
      /\ pc[r] \in Trying /\ rank \in 1 .. Choices
  BY DEF Typed, Rows, Trying, RunOK, StepFits
<1>2. step[r] = NextTry(row[r].moves, k, parent[r], t) /\ AnswerOK(r) /\ SaysNothing(t)
  BY <1>1 DEF TurnsOK, RowOK, Answer
<1>3. PICK turn : turn = Open(k, t)
  OBVIOUS
<1>4. /\ Accepts(row[r].moves, k, t) /\ step[r].turn = TurnsDone(k, t) + 1
      /\ rank = Rank(turn) /\ Rank(turn) > 1
  <2>1. PICK next : next = step[r]
    OBVIOUS
  <2>2. next.to \notin {"refused", "stop"}
    BY <2>1
  <2>3. /\ Accepts(row[r].moves, k, t) /\ next.turn = TurnsDone(k, t) + 1
        /\ next.rank = Rank(turn) /\ (next.reuse <=> Rank(turn) > 1)
    BY <1>2, <1>3, <2>1, <2>2, TryIsNext
  <2> QED BY <2>1, <2>3
<1>5. PICK j \in DOMAIN t[step[r].turn] :
        /\ step[r].turn \in DOMAIN t
        /\ t[step[r].turn][j].sentence = said /\ t[step[r].turn][j].rank = rank
  <2>1. rank \in DOMAIN answer[r].choices
    <3>1. step[r].turn # 0
      <4>1. TurnsDone(k, t) \in Nat
        BY <1>1, <1>4, OpenTurn
      <4> QED BY <1>4, <4>1
    <3>2. answer[r] # NoAnswer
      BY <3>1 DEF NoAnswer
    <3> QED BY <1>1, <3>2 DEF Answers, Rankings
  <2>2. IsOfTurn(said, rank, step[r].turn, t)
    BY <1>2, <2>1 DEF AnswerOK
  <2> QED BY <2>2 DEF IsOfTurn
<1>6. t[step[r].turn] = turn
  <2>1. Len(t) \in Nat /\ step[r].turn <= Len(t)
    BY <1>1, <1>5
  <2>2. TurnsDone(k, t) # Len(t)
    BY <1>4, <2>1
  <2>3. TurnsDone(k, t) = Len(t) - 1 /\ Open(k, t) = t[Len(t)]
    BY <1>1, <1>4, <2>2, OpenCases
  <2> QED BY <1>3, <1>4, <2>1, <2>3
<1>7. j \in Counted(turn)
  <2>1. t[step[r].turn][j].sentence # NoSentence
    BY <1>5, SaidIs
  <2>2. t[step[r].turn][j].outcome # "unavailable"
    BY <1>2, <1>5, <2>1 DEF SaysNothing
  <2> QED BY <1>5, <1>6, <2>2 DEF Counted
<1>8. turn \in Seq(Tried) /\ IsFiniteSet(Counted(turn)) /\ Cardinality(Counted(turn)) \in Nat
      /\ Cardinality(Counted(turn)) < 2
  <2>1. turn \in Seq(Tried) /\ Cardinality(Counted(turn)) < Tries(k)
    BY <1>1, <1>3, <1>4, OpenTurn
  <2>2. IsFiniteSet(Counted(turn)) /\ Cardinality(Counted(turn)) \in Nat
    BY <2>1, CountedIsFinite
  <2> QED BY <2>1, <2>2 DEF Tries, TriesPerTurn
<1>9. Counted(turn) = {j}
  <2>1. \A i \in Counted(turn) : i = j
    <3> SUFFICES ASSUME NEW i \in Counted(turn), i # j PROVE FALSE
      OBVIOUS
    <3>1. Cardinality(Counted(turn)) >= 2
      BY <1>7, <1>8, TwoCounted
    <3> QED BY <1>8, <3>1
  <2> QED BY <1>7, <2>1
<1>10. Rank(turn) = turn[j].rank + 1
  <2>1. (CHOOSE i \in Counted(turn) : TRUE) = j
    BY <1>9
  <2>2. Rank(turn) = turn[CHOOSE i \in Counted(turn) : TRUE].rank + 1
    BY <1>4 DEF Rank
  <2> HIDE DEF Counted
  <2> QED BY <2>1, <2>2, Zenon
<1>11. turn[j].rank = rank
  BY <1>5, <1>6
<1> QED BY <1>1, <1>4, <1>10, <1>11

LEMMA JuxtapositionTurns ==
  ASSUME Typed, faults <= MaxFaults, NEW r \in RunIds, RunOK(r), TurnsOK(r), TryJuxtaposition(r)
  PROVE  TurnsOK(r)' /\ faults' <= MaxFaults
<1>1. /\ pc[r] = "try" /\ step[r].to = "juxtaposition" /\ StepFits(r) /\ pc[r] \in Trying
      /\ works' = works /\ UNCHANGED <<parent, step>>
  BY DEF TryJuxtaposition, RunOK, Trying
<1>2. ASSUME NEW outcome \in {"unavailable", "failed"}, Gives(r, outcome, NoSentence), UNCHANGED answer
      PROVE  TurnsOK(r)' /\ faults' <= MaxFaults
  <2>1. outcome \in Outcomes
    BY DEF Outcomes
  <2> QED BY <1>1, <1>2, <2>1, GivesTurns
<1>3. ASSUME At(r, "settle"), UNCHANGED <<row, stop, unsaved, faults>>, AnswerOK(r)'
      PROVE  TurnsOK(r)' /\ faults' <= MaxFaults
  <2>1. pc'[r] = "settle" /\ row' = row
    BY <1>3 DEF At, Typed
  <2>2. Answer(r)' = Answer(r)
    BY <1>1, <2>1 DEF Answer
  <2> QED BY <1>1, <1>3, <2>1, <2>2 DEF TurnsOK, OutcomeOK
<1>4. CASE /\ \E choices \in [1 .. Choices -> Sentences \ Said(row[r].turns)] :
                /\ \A i, j \in 1 .. Choices : choices[i] = choices[j] => i = j
                /\ answer' = [answer EXCEPT ![r] = [turn |-> step[r].turn, choices |-> choices]]
           /\ At(r, "settle") /\ UNCHANGED <<row, stop, unsaved, faults>>
  <2>1. PICK choices \in [1 .. Choices -> Sentences \ Said(row[r].turns)] :
          /\ \A i, j \in 1 .. Choices : choices[i] = choices[j] => i = j
          /\ answer' = [answer EXCEPT ![r] = [turn |-> step[r].turn, choices |-> choices]]
    BY <1>4
  <2>2. answer'[r].turn = step[r].turn /\ answer'[r].choices = choices
    BY <2>1 DEF Typed
  <2>3. \A k \in 1 .. Choices : choices[k] \notin Said(row[r].turns)
    BY <2>1
  <2>4. step[r].rank \in 1 .. Choices /\ DOMAIN choices = 1 .. Choices
    BY <1>1, <2>1 DEF StepFits
  <2>5. row' = row /\ step' = step
    BY <1>1, <1>4
  <2>6. /\ \A i, j \in DOMAIN answer'[r].choices :
             answer'[r].choices[i] = answer'[r].choices[j] => i = j
        /\ \A k \in DOMAIN answer'[r].choices : answer'[r].choices[k] \notin Said(row'[r].turns)
        /\ answer'[r].turn = step'[r].turn
        /\ answer'[r].choices[step'[r].rank] \notin Said(row'[r].turns)
    <3> HIDE DEF Said
    <3>1. Said(row'[r].turns) = Said(row[r].turns)
      BY <2>5
    <3>2. DOMAIN answer'[r].choices = 1 .. Choices /\ step'[r] = step[r]
      BY <2>2, <2>4, <2>5
    <3>3. PICK said : said = Said(row[r].turns)
      OBVIOUS
    <3>4. \A k \in 1 .. Choices : choices[k] \notin said
      BY <2>3, <3>3
    <3>5. Said(row'[r].turns) = said
      BY <3>1, <3>3
    <3>6. \A k \in DOMAIN answer'[r].choices : answer'[r].choices[k] \notin Said(row'[r].turns)
      BY <2>2, <3>2, <3>4, <3>5
    <3>7. answer'[r].choices[step'[r].rank] \notin Said(row'[r].turns)
      BY <2>4, <3>2, <3>6
    <3>8. \A i, j \in DOMAIN answer'[r].choices :
            answer'[r].choices[i] = answer'[r].choices[j] => i = j
      <4>1. \A i, j \in 1 .. Choices : choices[i] = choices[j] => i = j
        BY <2>1
      <4> QED BY <2>2, <3>2, <4>1
    <3> QED BY <2>2, <3>2, <3>6, <3>7, <3>8
  <2>7. AnswerOK(r)'
    BY <2>6 DEF AnswerOK
  <2> QED BY <1>3, <1>4, <2>7
<1>5. CASE /\ step[r].reuse /\ answer[r].turn = step[r].turn
           /\ At(r, "settle") /\ UNCHANGED <<answer, row, stop, unsaved, faults>>
  <2>1. answer[r].choices[step[r].rank] \notin Said(row[r].turns)
    BY <1>1, <1>5, NextRankIsUnsaid
  <2>2. AnswerOK(r) /\ pc[r] # "none"
    BY <1>1 DEF TurnsOK
  <2>3. AnswerOK(r)'
    BY <1>1, <1>5, <2>1, <2>2 DEF AnswerOK
  <2> QED BY <1>3, <1>5, <2>3
<1> QED BY <1>2, <1>4, <1>5 DEF TryJuxtaposition

LEMMA MeasureTurns ==
  ASSUME Typed, faults <= MaxFaults, NEW r \in RunIds, RunOK(r), TurnsOK(r),
         Measure(r) \/ MeasureChunk(r)
  PROVE  TurnsOK(r)' /\ faults' <= MaxFaults
<1>1. /\ pc[r] = "drawn" /\ StepFits(r) /\ pc[r] \in Trying /\ UNCHANGED <<parent, step, answer>>
      /\ step[r] = Answer(r)
  BY DEF Measure, MeasureChunk, RunOK, Trying, TurnsOK
<1>2. ASSUME NEW outcome \in {"kept", "not_visible"}, Recorded(r, outcome),
             At(r, "measured"), UNCHANGED <<row, stop, unsaved, faults>>
      PROVE  TurnsOK(r)' /\ faults' <= MaxFaults
  <2>1. /\ Len(works'[r]) = Len(works[r]) /\ Len(works[r]) \in Nat
        /\ works'[r][Len(works'[r])].move = outcome
    BY <1>1, <1>2, RecordedChild DEF Outcomes
  <2>2. Takes(r, row[r]) /\ pc'[r] = "measured"
    BY <1>2, StaysTakes DEF Places
  <2>3. Alike(row'[r], row[r]) /\ OutcomeOK(r)'
    BY <2>1, <2>2 DEF Takes, OutcomeOK
  <2> QED BY <1>1, <2>1, <2>2, <2>3, Sizes, SameTurns DEF Takes
<1>3. CASE At(r, "turn") /\ UNCHANGED works /\ UNCHANGED <<row, stop, unsaved, faults>>
  BY <1>1, <1>3, OnTurns DEF Places, Trying
<1>4. CASE Breaks(r) /\ UNCHANGED works
  BY <1>1, <1>4, StopsTakes, EndTurns
<1> QED BY <1>2, <1>3, <1>4 DEF Measure, MeasureChunk

LEMMA KeepTurns ==
  ASSUME Typed, faults <= MaxFaults, NEW r \in RunIds, RunOK(r), TurnsOK(r), Keep(r)
  PROVE  TurnsOK(r)' /\ faults' <= MaxFaults
<1> DEFINE n == Len(works[r])
           last == works[r][n]
           taken == Attempt(r, last.move, Sentence(r), n)
           added == Added(r, taken)
           new == WithChild(r)
<1>1. /\ pc[r] = "measured" /\ StepFits(r) /\ pc[r] \in Trying /\ works' = works /\ answer' = answer
      /\ Sentence(r) \in Sentences \cup {NoSentence} /\ last.move \in {"kept", "not_visible"}
      /\ n \in Nat /\ step[r].to \in MoveKinds /\ step[r].rank \in Nat
  <2>1. pc[r] = "measured" /\ StepFits(r) /\ works' = works /\ answer' = answer
    BY DEF Keep, RunOK
  <2> QED BY <2>1, SentenceTyped, Sizes DEF TurnsOK, OutcomeOK, Trying, StepFits, Typed, Steps
<1>2. /\ taken.kind = step[r].to /\ taken.sentence = Sentence(r) /\ taken.outcome = last.move
      /\ taken.rank = IF Sentence(r) = NoSentence THEN 0 ELSE step[r].rank
  BY DEF Attempt
<1>3. taken \in Tried
  BY <1>1 DEF Attempt, Tried, Outcomes
<1>4. Sentence(r) # NoSentence =>
        /\ step[r].to = "juxtaposition" /\ step[r].rank \in 1 .. Choices
        /\ Sentence(r) = answer[r].choices[step[r].rank]
  BY <1>1 DEF Sentence, StepFits
<1>5. /\ taken.rank <= Choices /\ Says(r, taken)
      /\ taken.outcome = "unavailable" => taken.sentence = NoSentence
  BY <1>1, <1>2, <1>4, ChoicesAssumption DEF Says
<1> HIDE DEF taken
<1>6. added \in Rows
  BY <1>1, <1>3, AddedTyped
<1>7. new = IF IsKept(r) THEN [added EXCEPT !.kept = n] ELSE added
  BY DEF WithChild, taken
<1> HIDE DEF added, new
<1>8. /\ new \in Rows /\ new.turns = added.turns /\ new.moves = added.moves /\ new.kinds = added.kinds
      /\ new.kept \in {added.kept, n}
  BY <1>1, <1>6, <1>7 DEF Rows
<1>9. RowOK(added, n) => RowOK(new, n)
  BY <1>1, <1>8 DEF RowOK
<1>10. Takes(r, new) /\ pc'[r] \in {"look", "none"}
  <2>1. CASE Saves(r, new, "look")
    BY <1>8, <2>1, SavesTakes DEF Places
  <2>2. CASE Finishes(r, new, "failed", 0)
    <3>1. 0 \in Nat /\ faults + 0 <= MaxFaults
      BY DEF Typed
    <3> QED BY <1>8, <2>2, <3>1, FinishesTakes
  <2> QED BY <2>1, <2>2 DEF Keep, new
<1>11. parent'[r].child <= n
  <2>1. parent' = parent \/ parent' = [parent EXCEPT ![r] = ParentOf(r)]
    BY DEF Keep
  <2>2. parent[r].child <= n
    BY DEF TurnsOK
  <2>3. parent'[r] = parent[r] \/ parent'[r] = ParentOf(r)
    BY <2>1 DEF Typed
  <2>4. ParentOf(r).child = n
    BY DEF ParentOf
  <2> QED BY <1>1, <2>2, <2>3, <2>4
<1> QED BY <1>1, <1>2, <1>3, <1>5, <1>8, <1>9, <1>10, <1>11, TakenTurns DEF Takes, added
-----------------------------------------------------------------------------
\* The steps of a run's thread, and those of the author and the server.

LEMMA ThreadTurns ==
  ASSUME Inductive, Turned, NEW r \in RunIds, Thread(r)
  PROVE  Turned'
<1>1. Typed /\ RunOK(r) /\ TurnsOK(r) /\ faults <= MaxFaults
  BY DEF Inductive, Turned
<1>2. TurnsOK(r)' /\ faults' <= MaxFaults
  BY <1>1, SubmitTurns, LookTurns, TryTurns, JuxtapositionTurns, TurnTurns, SettleTurns,
     MeasureTurns, KeepTurns DEF Thread
<1>3. Frame(r)
  BY <1>1, SubmitStep, TakeStep, LookStep, TryLawsStep, TryJuxtapositionStep, TryChunksStep,
     TurnStep, SendStep, SettleStep, MeasureStep, MeasureChunkStep, KeepStep DEF Thread, Preserves
<1>4. ASSUME NEW s \in RunIds \ {r}
      PROVE  TurnsOK(s)'
  <2>1. TurnsOK(s)
    BY DEF Turned
  <2>2. /\ row'[s] = row[s] /\ works'[s] = works[s] /\ pc'[s] = pc[s] /\ parent'[s] = parent[s]
        /\ step'[s] = step[s] /\ answer'[s] = answer[s]
    BY <1>3 DEF Frame
  <2> QED BY <2>1, <2>2 DEF TurnsOK, AnswerOK, OutcomeOK, Answer
<1> QED BY <1>2, <1>4 DEF Turned

LEMMA StartTurns ==
  ASSUME Inductive, Turned, NEW r \in RunIds, Start(r)
  PROVE  Turned'
<1>1. /\ Typed /\ RunOK(r) /\ TurnsOK(r) /\ row[r].state = "none"
      /\ UNCHANGED <<works, step, answer, faults>>
  BY DEF Inductive, Turned, Start
<1>2. /\ row'[r].turns = <<>> /\ row'[r].kinds = asked[r].kinds /\ row'[r].moves = asked[r].moves
      /\ row'[r].kept = 0 /\ parent'[r].child = 0 /\ pc'[r] = "starting"
      /\ \A s \in RunIds \ {r} : row'[s] = row[s] /\ parent'[s] = parent[s] /\ pc'[s] = pc[s]
  <2>1. PICK start : start =
          [NoRow EXCEPT !.state = "running", !.moves = asked[r].moves, !.kinds = asked[r].kinds]
    OBVIOUS
  <2>2. start.turns = <<>> /\ start.kinds = asked[r].kinds /\ start.moves = asked[r].moves /\ start.kept = 0
    BY <2>1 DEF NoRow
  <2>3. row' = [row EXCEPT ![r] = start]
    BY <2>1 DEF Start
  <2>4. PICK from : from = [described |-> asked[r].described, chunked |-> asked[r].chunked, child |-> 0]
    OBVIOUS
  <2>5. from.child = 0 /\ parent' = [parent EXCEPT ![r] = from] /\ pc' = [pc EXCEPT ![r] = "starting"]
    BY <2>4 DEF Start, At
  <2> QED BY <1>1, <2>2, <2>3, <2>5 DEF Typed
<1>3. Mixed(asked[r].kinds) /\ asked[r].moves \in Nat
  <2>1. asked \in Requests
    BY <1>1 DEF Typed
  <2>2. asked[r] \in [moves : 0 .. 10,
                      kinds : {{"laws"}, {"juxtaposition"}, {"laws", "juxtaposition"}, {"chunks"}},
                      described : BOOLEAN, chunked : BOOLEAN]
    BY <2>1, RunsAssumption
  <2> QED BY <2>2 DEF Mixed
<1>4. works[r] = <<>> /\ works' = works /\ Len(<<>>) = 0
  BY <1>1 DEF RunOK, Unstarted
<1>5. RowOK(row'[r], 0)
  BY <1>2, <1>3 DEF RowOK, Accepts, SaidOnce, SaysNothing
<1>6. TurnsOK(r)'
  <2>1. Said(row'[r].turns) = {}
    BY <1>2, SaidIs
  <2>2. AnswerOK(r)'
    BY <1>1, <1>2, <2>1 DEF TurnsOK, AnswerOK
  <2>3. RowOK(row'[r], Len(works'[r])) /\ parent'[r].child <= Len(works'[r])
    BY <1>2, <1>4, <1>5
  <2> QED BY <1>2, <2>2, <2>3 DEF TurnsOK, OutcomeOK, Trying
<1>7. ASSUME NEW s \in RunIds \ {r}
      PROVE  TurnsOK(s)'
  <2>1. TurnsOK(s)
    BY DEF Turned
  <2> QED BY <1>1, <1>2, <2>1 DEF TurnsOK, AnswerOK, OutcomeOK, Answer
<1> QED BY <1>1, <1>6, <1>7 DEF Turned

LEMMA InitTurns == Init => Turned
<1>0. Init => faults <= MaxFaults
  BY RunsAssumption DEF Init
<1> SUFFICES ASSUME Init, NEW r \in RunIds PROVE TurnsOK(r)
  BY <1>0 DEF Turned
<1>1. /\ row[r] = NoRow /\ works[r] = <<>> /\ pc[r] = "none" /\ parent[r] = NoParent
      /\ answer[r] = NoAnswer /\ faults = 0 /\ Len(<<>>) = 0
  BY DEF Init
<1>2. RowOK(NoRow, 0)
  BY DEF RowOK, NoRow, Mixed, Accepts, SaidOnce, SaysNothing
<1>3. AnswerOK(r) /\ OutcomeOK(r) /\ parent[r].child = 0
  BY <1>1 DEF AnswerOK, OutcomeOK, NoAnswer, NoParent
<1> QED BY <1>1, <1>2, <1>3, RunsAssumption DEF TurnsOK, Trying

LEMMA NextTurned ==
  ASSUME Inductive, Turned, [Next]_vars
  PROVE  Turned'
<1>0. Typed /\ \A r \in RunIds : TurnsOK(r) /\ RunOK(r)
  BY DEF Inductive, Turned
<1>1. CASE \E r \in RunIds : Start(r) \/ Thread(r)
  BY <1>1, StartTurns, ThreadTurns
<1>2. CASE Close \/ (\E r \in RunIds : Stop(r)) \/ UNCHANGED vars
  <2>1. UNCHANGED <<row, works, parent, step, answer, faults>>
    BY <1>2 DEF Close, Stop, vars, memory
  <2>2. \A r \in RunIds : pc'[r] \in {pc[r], "none"}
    BY <1>0, <1>2 DEF Close, Stop, vars, memory, Typed
  <2>3. ASSUME NEW r \in RunIds PROVE TurnsOK(r)'
    BY <1>0, <2>1, <2>2 DEF TurnsOK, AnswerOK, OutcomeOK, Answer, Trying
  <2> QED BY <2>1, <2>3 DEF Turned
<1>3. CASE Exit \/ Crash
  <2>1. /\ UNCHANGED <<row, works>> /\ faults' <= MaxFaults
        /\ \A r \in RunIds : pc'[r] = "none" /\ parent'[r] = NoParent /\ answer'[r] = NoAnswer
    BY <1>0, <1>3, RunsAssumption DEF Exit, Crash, Gone, Typed, Turned
  <2>2. ASSUME NEW r \in RunIds PROVE TurnsOK(r)'
    <3>1. parent'[r].child <= Len(works'[r])
      BY <1>0, <2>1, Sizes DEF NoParent
    <3>2. AnswerOK(r)' /\ OutcomeOK(r)'
      BY <2>1 DEF AnswerOK, OutcomeOK, NoAnswer
    <3>3. RowOK(row'[r], Len(works'[r]))
      BY <1>0, <2>1 DEF TurnsOK
    <3> QED BY <2>1, <3>1, <3>2, <3>3 DEF TurnsOK, Trying
  <2> QED BY <2>1, <2>2 DEF Turned
<1>4. CASE Restart
  <2>1. /\ UNCHANGED <<works, pc, parent, step, answer, faults>> /\ ~up
        /\ row' = [r \in RunIds |-> IF row[r].state = "running"
                                    THEN [row[r] EXCEPT !.state = "interrupted", !.current = "none"]
                                    ELSE row[r]]
    BY <1>4 DEF Restart, memory
  <2>2. ASSUME NEW r \in RunIds PROVE TurnsOK(r)'
    <3>1. Alike(row'[r], row[r])
      <4>1. PICK marked : marked = [row[r] EXCEPT !.state = "interrupted", !.current = "none"]
        OBVIOUS
      <4>2. Alike(marked, row[r])
        BY <1>0, <4>1, Sizes DEF Alike, Rows
      <4>3. row'[r] = marked \/ row'[r] = row[r]
        BY <2>1, <4>1
      <4> QED BY <4>2, <4>3 DEF Alike
    <3>2. pc[r] = "none"
      BY <1>0, <2>1 DEF RunOK, Unstarted
    <3> QED BY <1>0, <2>1, <3>1, <3>2 DEF TurnsOK, RowOK, AnswerOK, OutcomeOK, Alike, Trying
  <2> QED BY <2>1, <2>2 DEF Turned
<1> QED BY <1>1, <1>2, <1>3, <1>4 DEF Next
-----------------------------------------------------------------------------
\* Every turn a run has built is one the core reads, and every try it takes is
\* the one the core answers.
THEOREM TurnsAreRead == Spec => []Turned
<1>1. Inductive /\ Turned /\ [Next]_vars => Turned'
  BY NextTurned
<1> QED BY InitTurns, <1>1, InductiveInvariant, PTL DEF Spec

\* The types of the variables: a run keeps no child it has not drawn, its
\* ranks stay within an answer, and there are no more faults than are made.
THEOREM TypeCorrect == Spec => []TypeOK
<1> SUFFICES ASSUME Inductive, Turned PROVE TypeOK
  BY InductiveInvariant, TurnsAreRead, PTL
<1>0. Typed
  BY DEF Inductive
<1>1. ASSUME NEW r \in RunIds
      PROVE  /\ row[r].state \in RunStates /\ row[r].current \in MoveKinds \cup {"none"}
             /\ row[r].kept \in 0 .. Len(works[r]) /\ parent[r].child \in 0 .. Len(works[r])
             /\ pc[r] \in Places /\ stop[r] \in {"none", "clear", "set"}
             /\ chunk[r].stage \in {"none", "choose", "rewrite", "draw", "keep", "skip"}
  <2>1. row[r].kept <= Len(works[r]) /\ parent[r].child <= Len(works[r])
    BY DEF Turned, TurnsOK, RowOK
  <2> QED BY <1>0, <2>1, Sizes DEF Typed, Rows, ChunkTurns
<1>2. ASSUME NEW r \in RunIds, NEW i \in DOMAIN row[r].turns, NEW j \in DOMAIN row[r].turns[i]
      PROVE  TryOK(row[r].turns[i][j])
  <2>1. Accepts(row[r].moves, row[r].kinds, row[r].turns)
    BY DEF Turned, TurnsOK, RowOK
  <2>2. row[r].turns[i][j].rank \in 0 .. Choices
    BY <1>2, <2>1 DEF Accepts, InOrder
  <2>3. row[r].turns[i][j] \in Tried
    <3>1. row[r].turns \in Seq(Seq(Tried))
      BY <1>0, Sizes
    <3> QED BY <1>2, <3>1, TriesTyped
  <2> QED BY <2>2, <2>3 DEF TryOK, Tried
<1>3. faults \in 0 .. MaxFaults
  BY <1>0, RunsAssumption DEF Typed, Turned
<1> QED BY <1>0, <1>1, <1>2, <1>3 DEF TypeOK, Typed, RunStates, Places

\* The core never refuses what the runner feeds it, and every child drawn has
\* a place its record may name (RecordedMove's attempts are 1 to 3).
THEOREM NeverRefused == Spec => []CoreNeverRefuses
<1>1. ASSUME Inductive, Turned, NEW r \in RunIds
      PROVE  /\ pc[r] = "look" => Answer(r).to # "refused"
             /\ pc[r] = "drawn" => Records(row[r].moves, step[r].turn, step[r].attempt)
  <2>1. /\ row[r].moves \in Nat /\ row[r].kinds \in SUBSET MoveKinds /\ row[r].turns \in Seq(Seq(Tried))
        /\ Mixed(row[r].kinds) /\ Accepts(row[r].moves, row[r].kinds, row[r].turns)
    BY <1>1 DEF Inductive, Typed, Rows, Turned, TurnsOK, RowOK
  <2>2. Answer(r).to # "refused"
    BY <2>1, NotRefused DEF Answer
  <2>3. ASSUME pc[r] = "drawn"
        PROVE  Records(row[r].moves, step[r].turn, step[r].attempt)
    <3>1. /\ step[r] = NextTry(row[r].moves, row[r].kinds, parent[r], row[r].turns)
          /\ step[r].to \in MoveKinds
      BY <1>1, <2>3 DEF Inductive, Turned, TurnsOK, RunOK, StepFits, Trying, Answer
    <3>2. PICK next : next = step[r]
      OBVIOUS
    <3>3. next.to \notin {"refused", "stop"}
      BY <3>1, <3>2 DEF MoveKinds
    <3>4. Records(row[r].moves, next.turn, next.attempt)
      BY <2>1, <3>1, <3>2, <3>3, TryIsRecordable
    <3> QED BY <3>2, <3>4
  <2> QED BY <2>2, <2>3
<1>2. Inductive /\ Turned => CoreNeverRefuses
  BY <1>1 DEF CoreNeverRefuses
<1> QED BY <1>2, InductiveInvariant, TurnsAreRead, PTL

\* The turns that are over, counted over any turns the core reads.
LEMMA TurnsTakenIsDone ==
  ASSUME NEW run, NEW m, run.turns \in Seq(Seq(Tried)), Accepts(m, run.kinds, run.turns)
  PROVE  TurnsTaken(run) = TurnsDone(run.kinds, run.turns)
<1>1. PICK t \in Seq(Seq(Tried)) : t = run.turns
  OBVIOUS
<1>2. PICK k : k = run.kinds
  OBVIOUS
<1>3. PICK done : done = TurnsDone(k, t)
  OBVIOUS
<1>4. Accepts(m, k, t) /\ done \in Nat
  BY <1>1, <1>2, <1>3, OpenTurn
<1>5. PICK S : S = {i \in DOMAIN t : Finished(t[i], k)}
  OBVIOUS
<1>6. ASSUME NEW i \in DOMAIN t
      PROVE  Finished(t[i], k) <=>
               \/ \E j \in DOMAIN t[i] : t[i][j].outcome = "kept"
               \/ Cardinality({j \in DOMAIN t[i] : t[i][j].outcome # "unavailable"})
                    >= IF k = {"chunks"} THEN 1 ELSE 2
  <2>1. InOrder(t[i], k) /\ t[i] \in Seq(Tried)
    BY <1>4 DEF Accepts
  <2>2. Kept(t[i]) <=> \E j \in DOMAIN t[i] : t[i][j].outcome = "kept"
    <3>1. Len(t[i]) \in DOMAIN t[i]
      BY <2>1 DEF InOrder
    <3> QED BY <2>1, <3>1 DEF InOrder, Kept
  <2>3. /\ Cardinality(Counted(t[i])) \in Nat /\ Cardinality(Counted(t[i])) <= Tries(k)
        /\ Tries(k) = IF k = {"chunks"} THEN 1 ELSE 2
    BY <2>1, CountedIsFinite DEF InOrder, Tries, TriesPerTurn
  <2>4. Cardinality(Counted(t[i])) = Tries(k) <=>
          Cardinality(Counted(t[i])) >= IF k = {"chunks"} THEN 1 ELSE 2
    BY <2>3
  <2> QED BY <2>2, <2>4 DEF Finished, Counted
<1>7. TurnsTaken(run) = Cardinality(S)
  <2>1. S = {i \in DOMAIN run.turns :
               \/ \E j \in DOMAIN run.turns[i] : run.turns[i][j].outcome = "kept"
               \/ Cardinality({j \in DOMAIN run.turns[i] : run.turns[i][j].outcome # "unavailable"})
                    >= IF run.kinds = {"chunks"} THEN 1 ELSE 2}
    BY <1>1, <1>2, <1>5, <1>6
  <2> QED BY <2>1 DEF TurnsTaken
<1>8. S = 1 .. done
  <2>1. DOMAIN t = 1 .. Len(t) /\ Len(t) \in Nat /\ (t = <<>> <=> Len(t) = 0)
    OBVIOUS
  <2>2. \A i \in DOMAIN t : i < Len(t) => Finished(t[i], k)
    BY <1>4 DEF Accepts
  <2>3. CASE t # <<>> /\ ~Finished(t[Len(t)], k)
    <3>1. done = Len(t) - 1
      BY <1>3, <2>3 DEF TurnsDone
    <3> QED BY <1>5, <2>1, <2>2, <2>3, <3>1
  <2>4. CASE t # <<>> => Finished(t[Len(t)], k)
    <3>1. done = Len(t)
      BY <1>3, <2>4 DEF TurnsDone
    <3> QED BY <1>5, <2>1, <2>2, <2>4, <3>1
  <2> QED BY <2>3, <2>4
<1>9. Cardinality(1 .. done) = done
  <2>1. 1 \in Int /\ done \in Int /\ ~(1 > done /\ done # 0)
    BY <1>4
  <2>2. Cardinality(1 .. done) = IF 1 > done THEN 0 ELSE done - 1 + 1
    BY <2>1, FS_Interval
  <2> QED BY <1>4, <2>2
<1> QED BY <1>1, <1>2, <1>3, <1>7, <1>8, <1>9

\* The server counts a run's turns for its activity as the core counts them
\* when it stops the run, and never more than it was asked for.
THEOREM ActivityIsOfCore == Spec => []ActivityAgrees
<1>1. ASSUME Inductive, Turned, NEW r \in RunIds
      PROVE  /\ TurnsTaken(row[r]) = TurnsDone(row[r].kinds, row[r].turns)
             /\ TurnsTaken(row[r]) <= row[r].moves
  <2>1. /\ row[r].moves \in Nat /\ row[r].turns \in Seq(Seq(Tried))
        /\ Accepts(row[r].moves, row[r].kinds, row[r].turns)
    BY <1>1 DEF Inductive, Typed, Rows, Turned, TurnsOK, RowOK
  <2>2. TurnsTaken(row[r]) = TurnsDone(row[r].kinds, row[r].turns)
    <3>1. PICK m : m = row[r].moves
      OBVIOUS
    <3>2. PICK run : run = row[r]
      OBVIOUS
    <3>3. TurnsTaken(run) = TurnsDone(run.kinds, run.turns)
      BY <2>1, <3>1, <3>2, TurnsTakenIsDone
    <3> QED BY <3>2, <3>3
  <2>3. Len(row[r].turns) <= row[r].moves /\ Len(row[r].turns) \in Nat
    BY <2>1 DEF Accepts
  <2>4. TurnsDone(row[r].kinds, row[r].turns) \in {Len(row[r].turns), Len(row[r].turns) - 1}
    BY DEF TurnsDone
  <2> QED BY <2>1, <2>2, <2>3, <2>4
<1>2. Inductive /\ Turned => ActivityAgrees
  BY <1>1 DEF ActivityAgrees
<1> QED BY <1>2, InductiveInvariant, TurnsAreRead, PTL

\* No sentence is added to a run twice: not from the same answer, whose next
\* rank is taken, and not from another, which leaves out what was said.
THEOREM SentencesAreNew == Spec => []NoSentenceTwice
<1>1. ASSUME Turned, NEW r \in RunIds,
             NEW p \in (DOMAIN row[r].turns) \X (1 .. TriesPerTurn + 1),
             NEW q \in (DOMAIN row[r].turns) \X (1 .. TriesPerTurn + 1),
             p[2] \in DOMAIN row[r].turns[p[1]], q[2] \in DOMAIN row[r].turns[q[1]],
             row[r].turns[p[1]][p[2]].sentence # NoSentence,
             row[r].turns[p[1]][p[2]].sentence = row[r].turns[q[1]][q[2]].sentence
      PROVE  p = q
  <2>1. SaidOnce(row[r].turns)
    BY <1>1 DEF Turned, TurnsOK, RowOK
  <2>2. p[1] = q[1] /\ p[2] = q[2]
    BY <1>1, <2>1 DEF SaidOnce
  <2>3. p = <<p[1], p[2]>> /\ q = <<q[1], q[2]>>
    BY <1>1
  <2> QED BY <2>2, <2>3
<1>2. Turned => NoSentenceTwice
  BY <1>1 DEF NoSentenceTwice
<1> QED BY <1>2, TurnsAreRead, PTL
=============================================================================
