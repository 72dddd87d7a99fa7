----------------------------- MODULE ChunkTurn -----------------------------
(***************************************************************************)
(* One chunk move (chunk_moves.rs): the requests the core asks its host to *)
(* send, and the drawings it asks for, until the child is kept or the turn *)
(* is given up.  What an answer says, whether it can be applied and how    *)
(* its drawing comes out are choices; each operator gives the states the   *)
(* turn may go to.                                                         *)
(***************************************************************************)
EXTENDS Naturals

\* `tries' counts the asking again at the current request; `via' is the request
\* the child being drawn came from.
ChunkStart == [stage |-> "choose", tries |-> 0, via |-> "none"]

NoChunkTurn == [stage |-> "none", tries |-> 0, via |-> "none"]

Skipped(s) == [s EXCEPT !.stage = "skip"]

\* A bug: the once is not counted.
AgainUncounted(s, stage) == {[s EXCEPT !.stage = stage, !.via = "none"]}

\* Ask again at `stage' once, then give the turn up.  A rewrite that cannot be
\* asked again is given up too.
AgainOrSkip(s, stage) ==
  IF s.tries > 0 THEN {Skipped(s)}
  ELSE {[stage |-> stage, tries |-> 1, via |-> "none"]}
         \cup IF stage = "rewrite" THEN {Skipped([s EXCEPT !.tries = 1])} ELSE {}

ToDraw(s) == [s EXCEPT !.stage = "draw", !.via = s.stage]

\* A chosen move that rewrites its chunk asks once more, with its own once.
Rewriting(s) == [s EXCEPT !.stage = "rewrite", !.tries = 0]

Answered(s) ==
  AgainOrSkip(s, s.stage) \cup {ToDraw(s)}
    \cup IF s.stage = "choose" THEN {Rewriting(s), Skipped(Rewriting(s))} ELSE {}

\* A drawing that has no picture, more diagnostics than the parent or too much
\* in it goes back to the request it came from.
NotDrawn(s) == AgainOrSkip(s, s.via)

Drawn(s) == NotDrawn(s) \cup {[s EXCEPT !.stage = "keep"]}
=============================================================================
