------------------------------ MODULE MCRefine ------------------------------
\* Three sentences and answers of two.  One run of each kind alone, and two
\* short runs together: of one author, and of two with one thread for both.
EXTENDS RefineProperties

CONSTANTS First, Second, Third

Ids == {First, Second, Third}
Owners == [r \in Ids |-> IF r = Third THEN "reader" ELSE "author"]

Ask(moves, kinds, described, chunked) ==
  [moves |-> moves, kinds |-> kinds, described |-> described, chunked |-> chunked]
Both == {"laws", "juxtaposition"}
No == Ask(0, {"laws"}, TRUE, FALSE)
Laws(moves) == Ask(moves, {"laws"}, TRUE, FALSE)
Chunks(moves, chunked) == Ask(moves, {"chunks"}, FALSE, chunked)
Together(a, b, c) == [r \in Ids |-> CASE r = First -> a [] r = Second -> b [] OTHER -> c]
Alone(a) == Together(a, No, No)

Asked ==
  {Alone(Ask(2, Both, described, FALSE)) : described \in BOOLEAN}
    \cup {Alone(Ask(2, {"juxtaposition"}, TRUE, FALSE)), Alone(Laws(3)), Alone(Chunks(2, TRUE)),
          Together(Laws(1), Chunks(1, FALSE), No), Together(Laws(1), No, Chunks(1, FALSE))}
=============================================================================
