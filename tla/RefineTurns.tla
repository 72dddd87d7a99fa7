---------------------------- MODULE RefineTurns ----------------------------
(***************************************************************************)
(* The shared core's rules for an autonomous refinement run                *)
(* (autonomous_refine.rs): which try comes next, and when the run stops.   *)
(*                                                                         *)
(* A run has `moves' turns; a turn is the sequence of its tries.  A try    *)
(* that could not start ("unavailable") is not counted and blocks its move *)
(* for the turn.  The core keeps nothing: it reads the turns so far each   *)
(* time, and refuses turns that are out of order.                          *)
(***************************************************************************)
EXTENDS Integers, Sequences, FiniteSets

CONSTANTS
  Sentences,    \* the sentences of the author's other works
  NoSentence,   \* a try that added none
  Choices       \* JUXTAPOSITION_CHOICES: the sentences an answer ranks

ASSUME ChoicesAssumption ==
  Choices \in Nat \ {0} /\ IsFiniteSet(Sentences) /\ NoSentence \notin Sentences

TriesPerTurn == 2
EmptyTurnsToStop == 2

Tries(kinds) == IF kinds = {"chunks"} THEN 1 ELSE TriesPerTurn

Other(kind) ==
  CASE kind = "laws" -> "juxtaposition"
    [] kind = "juxtaposition" -> "laws"
    [] OTHER -> kind
-----------------------------------------------------------------------------
\* The places of a turn's tries that count.
Counted(turn) == {i \in DOMAIN turn : turn[i].outcome # "unavailable"}

Kept(turn) == turn # <<>> /\ turn[Len(turn)].outcome = "kept"

Finished(turn, kinds) == Kept(turn) \/ Cardinality(Counted(turn)) = Tries(kinds)

\* A turn the core reads without a refusal.
InOrder(turn, kinds) ==
  /\ turn # <<>>
  /\ Cardinality(Counted(turn)) <= Tries(kinds)
  /\ \A i \in DOMAIN turn :
       /\ turn[i].kind \in kinds /\ turn[i].rank \in 0 .. Choices
       /\ turn[i].outcome = "kept" => i = Len(turn)
       /\ turn[i].outcome = "unavailable" =>
            \A j \in i + 1 .. Len(turn) : turn[j].kind # turn[i].kind

Accepts(moves, kinds, turns) ==
  /\ Len(turns) <= moves
  /\ \A i \in DOMAIN turns :
       InOrder(turns[i], kinds) /\ (i < Len(turns) => Finished(turns[i], kinds))

\* What a child's record may name: attempts 1 to 3 of turns 1 to moves.
Records(moves, turn, attempt) == turn \in 1 .. moves /\ attempt \in 1 .. TriesPerTurn + 1

\* A bug: only the turn's own sentences are left out.
SaidInTurn(turns) ==
  IF turns = <<>> THEN {}
  ELSE {turns[Len(turns)][j].sentence : j \in DOMAIN turns[Len(turns)]} \ {NoSentence}

\* The sentences the run has added, which are not offered again.
Said(turns) ==
  (UNION {{turns[i][j].sentence : j \in DOMAIN turns[i]} : i \in DOMAIN turns}) \ {NoSentence}
-----------------------------------------------------------------------------
TurnsDone(kinds, turns) ==
  IF turns # <<>> /\ ~Finished(turns[Len(turns)], kinds) THEN Len(turns) - 1 ELSE Len(turns)

\* The tries of the turn that is not finished.
Open(kinds, turns) ==
  IF TurnsDone(kinds, turns) < Len(turns) THEN turns[Len(turns)] ELSE <<>>

\* The last turn that kept a child (0: none).
LastKept(turns) ==
  CHOOSE i \in 0 .. Len(turns) :
    /\ i # 0 => Kept(turns[i])
    /\ \A j \in i + 1 .. Len(turns) : ~Kept(turns[j])

\* A bug: a move that could not start is tried again in its turn.
BlockedByParent(kind, kinds, parent, turn) ==
  \/ kind \notin kinds
  \/ kind = "juxtaposition" /\ ~parent.described
  \/ kind = "chunks" /\ ~parent.chunked

Blocked(kind, kinds, parent, turn) ==
  \/ kind \notin kinds
  \/ kind = "juxtaposition" /\ ~parent.described
  \/ kind = "chunks" /\ ~parent.chunked
  \/ \E i \in DOMAIN turn : turn[i].kind = kind /\ turn[i].outcome = "unavailable"

\* The move a turn would like to take: the other of what was tried in it or,
\* in a new turn, the other of what the last kept child was made by.
Wanted(kinds, turns) ==
  LET turn  == Open(kinds, turns)
      tried == Counted(turn)
      kept  == LastKept(turns)
  IN  IF kinds = {"chunks"} THEN "chunks"
      ELSE IF tried # {} THEN Other(turn[CHOOSE i \in tried : TRUE].kind)
      ELSE IF kept # 0 THEN Other(turns[kept][Len(turns[kept])].kind)
      ELSE "juxtaposition"

\* The rank of the sentence a juxtaposition uses: the next one of the turn's
\* answer, when the one before it was drawn and changed too little to be seen.
Rank(turn) ==
  IF \E i \in Counted(turn) :
       /\ turn[i].kind = "juxtaposition" /\ turn[i].outcome = "not_visible"
       /\ turn[i].rank < Choices
  THEN turn[CHOOSE i \in Counted(turn) : TRUE].rank + 1
  ELSE 1

NextTry(moves, kinds, parent, turns) ==
  LET done == TurnsDone(kinds, turns)
      turn == Open(kinds, turns)
      Stop(reason) == [to |-> "stop", reason |-> reason]
      Try(kind) == [to |-> kind, turn |-> done + 1, attempt |-> Len(turn) + 1,
                    rank |-> IF kind = "juxtaposition" THEN Rank(turn) ELSE 0,
                    reuse |-> kind = "juxtaposition" /\ Rank(turn) > 1]
      wanted == Wanted(kinds, turns)
  IN  IF ~Accepts(moves, kinds, turns) THEN [to |-> "refused"]
      ELSE IF turn = <<>> /\ done = moves THEN Stop("moves_done")
      ELSE IF turn = <<>> /\ done - LastKept(turns) >= EmptyTurnsToStop THEN Stop("stalled")
      ELSE IF ~Blocked(wanted, kinds, parent, turn) THEN Try(wanted)
      ELSE IF ~Blocked(Other(wanted), kinds, parent, turn) THEN Try(Other(wanted))
      ELSE Stop("nothing_available")
=============================================================================
