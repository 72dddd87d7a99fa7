---------------------------- MODULE BatchProofs ----------------------------
(***************************************************************************)
(* Proofs about a batch, for any pages, lines and bounds: its types, that  *)
(* only the holder of its lease draws, and that its count is never ahead   *)
(* of the works.  Inductive is the invariant that is carried.              *)
(***************************************************************************)
EXTENDS BatchProperties, FiniteSetTheorems, WellFoundedInduction, TLAPS

\* The lines are finitely many, and a part of them has no more of them.
LEMMA PartsOfLines ==
  ASSUME NEW S \in SUBSET Lines
  PROVE  /\ IsFiniteSet(S) /\ Cardinality(S) \in 0 .. Total
         /\ Cardinality(Lines \ S) = Total - Cardinality(S)
         /\ Cardinality(S) = Total => S = Lines
<1> USE BatchAssumption DEF Lines
<1>1. IsFiniteSet(Lines) /\ Cardinality(Lines) = Total
  BY FS_Interval
<1>2. IsFiniteSet(S) /\ Cardinality(S) <= Total /\ (Cardinality(S) = Total => S = Lines)
  BY <1>1, FS_Subset
<1>3. Cardinality(S) \in Nat
  BY <1>2, FS_CardinalityType
<1>4. Cardinality(Lines \ S) = Cardinality(Lines) - Cardinality(Lines \cap S)
  BY <1>1, FS_Difference
<1>5. Lines \cap S = S
  OBVIOUS
<1>6. Cardinality(Lines \ S) = Total - Cardinality(S)
  BY <1>1, <1>4, <1>5
<1>7. Cardinality(S) \in 0 .. Total
  BY <1>2, <1>3
<1> QED
  BY <1>2, <1>6, <1>7

LEMMA LinesHaveAFirst ==
  ASSUME NEW S \in SUBSET Nat, S # {}
  PROVE  \E l \in S : \A m \in S : l <= m
<1> DEFINE Less == {pair \in Nat \X Nat : pair[1] < pair[2]}
<1>1. IsWellFoundedOn(Less, Nat)
  BY NatLessThanWellFounded DEF OpToRel
<1>3. \A x, y \in Nat : y < x => <<y, x>> \in Less
  OBVIOUS
<1> HIDE DEF Less
<1>2. \E x \in S : \A y \in S : ~ (<<y, x>> \in Less)
  BY <1>1, WFMin
<1>4. PICK l \in S : \A y \in S : ~ (<<y, l>> \in Less)
  BY <1>2
<1>5. ASSUME NEW m \in S PROVE l <= m
  <2>1. l \in Nat /\ m \in Nat /\ ~(m < l)
    BY <1>3, <1>4
  <2> QED
    BY <2>1
<1> QED
  BY <1>5

LEMMA CurrentIsLine ==
  ASSUME NEW p \in Pages, todo[p] \in SUBSET Lines, todo[p] # {}
  PROVE  Current(p) \in todo[p]
<1>1. todo[p] \in SUBSET Nat
  BY BatchAssumption DEF Lines
<1> QED
  BY <1>1, LinesHaveAFirst DEF Current
-----------------------------------------------------------------------------
\* The count survives what adds works and leaves the row's count alone.
LEMMA CountSurvives ==
  ASSUME CountIsDrawn, ServerTypeOK, drawn \subseteq drawn', drawn' \subseteq Lines,
         record'.completed = record.completed,
         record'.state \in {record.state, "running"}
  PROVE  CountIsDrawn'
<1>1. Cardinality(drawn) <= Cardinality(drawn')
  <2>1. IsFiniteSet(drawn')
    BY PartsOfLines
  <2> QED
    BY <2>1, FS_Subset
<1>2. Cardinality(drawn) \in Nat /\ Cardinality(drawn') \in Nat
  <2>1. drawn \in SUBSET Lines /\ drawn' \in SUBSET Lines
    BY DEF ServerTypeOK
  <2>2. Cardinality(drawn) \in 0 .. Total /\ Cardinality(drawn') \in 0 .. Total
    BY <2>1, PartsOfLines
  <2> QED
    BY <2>2
<1>3. record.completed \in Nat
  BY BatchAssumption DEF ServerTypeOK
<1>4. record'.completed <= Cardinality(drawn')
  BY <1>1, <1>2, <1>3 DEF CountIsDrawn
<1>5. record'.state = "completed" => drawn' = Lines
  BY DEF CountIsDrawn
<1> QED
  BY <1>4, <1>5 DEF CountIsDrawn

\* What a page reports is no more than the works there are.
LEMMA ReportIsDrawn ==
  ASSUME Inductive, NEW p \in Pages, pc[p] # "idle"
  PROVE  Completed(p) \in 0 .. Total /\ Completed(p) <= Cardinality(drawn)
<1>1. pending[p] \in SUBSET Lines /\ drawn \in SUBSET Lines
  BY DEF Inductive, TypeOK, PageTypeOK, ServerTypeOK
<1>2. Lines \ pending[p] \subseteq drawn
  BY DEF Inductive, PlansKnown
<1>3. Completed(p) = Cardinality(Lines \ pending[p])
  BY <1>1, PartsOfLines DEF Completed
<1>4. IsFiniteSet(drawn)
  BY <1>1, PartsOfLines
<1>5. Cardinality(Lines \ pending[p]) <= Cardinality(drawn)
  BY <1>2, <1>4, FS_Subset
<1>6. Cardinality(Lines \ pending[p]) \in 0 .. Total
  BY PartsOfLines, Lines \ pending[p] \in SUBSET Lines
<1> QED
  BY <1>3, <1>5, <1>6

\* A heartbeat, or the last one.
LEMMA UpdateKeeps ==
  ASSUME Inductive, NEW p \in Pages, pc[p] # "idle", UNCHANGED drawn,
         NEW state \in {"running", "interrupted", "stopped", "completed",
                        "finished_with_failures"},
         state = "completed" => Larger(record.completed, Completed(p)) = Total,
         record' = Updated(Completed(p), state)
  PROVE  /\ record' \in [lease : 0 .. MaxLeases, completed : 0 .. Total,
                          fresh : BOOLEAN,
                          state : {"none", "running", "interrupted", "stopped",
                                   "completed", "finished_with_failures"}]
         /\ record'.lease = record.lease
         /\ CountIsDrawn'
<1>1. record \in [lease : 0 .. MaxLeases, completed : 0 .. Total, fresh : BOOLEAN,
                  state : {"none", "running", "interrupted", "stopped",
                           "completed", "finished_with_failures"}]
  BY DEF Inductive, TypeOK, ServerTypeOK
<1>2. Completed(p) \in 0 .. Total /\ Completed(p) <= Cardinality(drawn)
  BY ReportIsDrawn
<1>3. Larger(record.completed, Completed(p)) \in 0 .. Total
  BY <1>1, <1>2 DEF Larger
<1>4. record.completed <= Cardinality(drawn)
  BY DEF Inductive, CountIsDrawn
<1>5. Larger(record.completed, Completed(p)) <= Cardinality(drawn)
  BY <1>2, <1>4 DEF Larger
<1>6. /\ record'.completed = Larger(record.completed, Completed(p))
      /\ record'.state = state /\ record'.lease = record.lease
  BY <1>1 DEF Updated
<1>7. state = "completed" => drawn = Lines
  <2>1. drawn \in SUBSET Lines
    BY DEF Inductive, TypeOK, ServerTypeOK
  <2>2. Cardinality(drawn) \in 0 .. Total /\ (Cardinality(drawn) = Total => drawn = Lines)
    BY <2>1, PartsOfLines
  <2>3. state = "completed" => Cardinality(drawn) = Total
    BY <1>5, <2>2, BatchAssumption
  <2> QED
    BY <2>2, <2>3
<1>8. CountIsDrawn'
  BY <1>5, <1>6, <1>7 DEF CountIsDrawn
<1>9. record' \in [lease : 0 .. MaxLeases, completed : 0 .. Total, fresh : BOOLEAN,
                   state : {"none", "running", "interrupted", "stopped",
                            "completed", "finished_with_failures"}]
  BY <1>1, <1>3 DEF Updated
<1> QED
  BY <1>6, <1>8, <1>9
-----------------------------------------------------------------------------
\* The pages' part is kept by any step that leaves the pages alone.
LEMMA PagesStand ==
  ASSUME Inductive, UNCHANGED page, drawn \subseteq drawn'
  PROVE  PageTypeOK' /\ PlansKnown'
<1>1. PageTypeOK'
  BY DEF Inductive, TypeOK, PageTypeOK, page, plan, line, ends
<1>2. PlansKnown'
  BY DEF Inductive, PlansKnown, page, plan, line, ends
<1> QED
  BY <1>1, <1>2

AtSet == {"none", "running", "safe", "cancelling", "ended", "rendering", "saved",
          "failed", "gone"}

\* What a drawing's step does: it goes from one place to another, holding the
\* lease where it begins to render, and with its line drawn where it is saved.
LEMMA DrawingMoves ==
  ASSUME Inductive, NEW i \in Sends,
         JobDraws(i) \/ JobEnds(i) \/ Perform(i) \/ Render(i) \/ Leave(i)
  PROVE  /\ UNCHANGED <<up, record, sends>>
         /\ works[i].at # "none"
         /\ drawn' = drawn \/ drawn' = drawn \cup {works[i].line}
         /\ \E at \in AtSet :
              /\ works' = [works EXCEPT ![i].at = at]
              /\ at \in {"running", "safe", "cancelling", "rendering"} =>
                   InFlight(works[i]) \/ works[i].lease = record.lease
              /\ at \in {"safe", "saved"} => works[i].line \in drawn'
<1> USE DEF Reach, InFlight, AtSet
<1>1. CASE JobDraws(i)
  BY <1>1 DEF JobDraws
<1>2. CASE JobEnds(i)
  BY <1>2 DEF JobEnds, Inductive, WorksKnown
<1>3. CASE Perform(i)
  BY <1>3 DEF Perform, Require
<1>4. CASE Render(i)
  BY <1>4 DEF Render
<1>5. CASE Leave(i)
  BY <1>5 DEF Leave
<1> QED
  BY <1>1, <1>2, <1>3, <1>4, <1>5

LEMMA DrawingKeeps ==
  ASSUME Inductive, NEW i \in Sends, UNCHANGED <<page, faults>>,
         JobDraws(i) \/ JobEnds(i) \/ Perform(i) \/ Render(i) \/ Leave(i)
  PROVE  Inductive'
<1>1. /\ UNCHANGED <<up, record, sends>>
      /\ works[i].at # "none"
      /\ drawn' = drawn \/ drawn' = drawn \cup {works[i].line}
  BY DrawingMoves
<1>2. PICK at \in AtSet :
        /\ works' = [works EXCEPT ![i].at = at]
        /\ at \in {"running", "safe", "cancelling", "rendering"} =>
             InFlight(works[i]) \/ works[i].lease = record.lease
        /\ at \in {"safe", "saved"} => works[i].line \in drawn'
  BY DrawingMoves
<1>3. works[i].line \in Lines
  BY <1>1 DEF Inductive, WorksKnown
<1>4. drawn \subseteq drawn' /\ drawn' \subseteq Lines
  BY <1>1, <1>3 DEF Inductive, TypeOK, ServerTypeOK
<1>5. works \in [Sends -> [line : 0 .. Total, lease : 0 .. MaxLeases, at : AtSet]]
  BY DEF Inductive, TypeOK, ServerTypeOK, AtSet
<1>6. /\ works' \in [Sends -> [line : 0 .. Total, lease : 0 .. MaxLeases, at : AtSet]]
      /\ works'[i].at = at /\ works'[i].line = works[i].line
      /\ works'[i].lease = works[i].lease
      /\ \A j \in Sends \ {i} : works'[j] = works[j]
  BY <1>2, <1>5
<1>7. ServerTypeOK'
  BY <1>1, <1>4, <1>6 DEF Inductive, TypeOK, ServerTypeOK, AtSet
<1>8. WorksKnown'
  BY <1>2, <1>3, <1>4, <1>6 DEF Inductive, WorksKnown
<1>9. OneHolderDraws'
  BY <1>1, <1>2, <1>6 DEF Inductive, OneHolderDraws, InFlight
<1>10. CountIsDrawn'
  BY <1>1, <1>4, CountSurvives DEF Inductive, TypeOK
<1>11. PageTypeOK' /\ PlansKnown'
  BY <1>4, PagesStand
<1> QED
  BY <1>7, <1>8, <1>9, <1>10, <1>11 DEF Inductive, TypeOK

LEMMA ServerKeeps ==
  ASSUME Inductive, UNCHANGED page, faults' \in 0 .. MaxFaults,
         Lapse \/ Restart \/ Crash
  PROVE  Inductive'
<1>1. UNCHANGED <<sends, drawn>> /\ up' \in BOOLEAN
  BY DEF Lapse, Restart, Crash, Inductive, TypeOK, ServerTypeOK
<1>2. /\ record' \in [lease : 0 .. MaxLeases, completed : 0 .. Total, fresh : BOOLEAN,
                       state : {"none", "running", "interrupted", "stopped",
                                "completed", "finished_with_failures"}]
      /\ record'.lease = record.lease /\ record'.completed = record.completed
      /\ record'.state = record.state
  BY DEF Lapse, Restart, Crash, Inductive, TypeOK, ServerTypeOK
<1>3. works \in [Sends -> [line : 0 .. Total, lease : 0 .. MaxLeases, at : AtSet]]
  BY DEF Inductive, TypeOK, ServerTypeOK, AtSet
<1>4. /\ works' \in [Sends -> [line : 0 .. Total, lease : 0 .. MaxLeases, at : AtSet]]
      /\ \A j \in Sends :
           /\ works'[j].line = works[j].line /\ works'[j].lease = works[j].lease
           /\ works'[j].at = works[j].at \/ (works'[j].at = "gone" /\ works[j].at # "none")
  <2>1. CASE Lapse \/ Restart
    BY <2>1, <1>3 DEF Lapse, Restart
  <2>2. CASE Crash
    BY <2>2, <1>3 DEF Crash, AtSet
  <2> QED
    BY <2>1, <2>2
<1>5. ServerTypeOK'
  BY <1>1, <1>2, <1>4 DEF Inductive, TypeOK, ServerTypeOK, AtSet
<1>6. WorksKnown'
  BY <1>1, <1>4 DEF Inductive, WorksKnown
<1>7. OneHolderDraws'
  BY <1>2, <1>4 DEF Inductive, OneHolderDraws, InFlight
<1>8. CountIsDrawn'
  BY <1>1, <1>2, CountSurvives DEF Inductive, TypeOK, ServerTypeOK
<1>9. PageTypeOK' /\ PlansKnown'
  BY <1>1, PagesStand
<1> QED
  BY <1>5, <1>6, <1>7, <1>8, <1>9 DEF Inductive, TypeOK
-----------------------------------------------------------------------------
\* The server's part is kept by any step that leaves the server alone.
LEMMA ServerStands ==
  ASSUME Inductive, UNCHANGED server
  PROVE  ServerTypeOK' /\ WorksKnown' /\ OneHolderDraws' /\ CountIsDrawn'
<1>1. ServerTypeOK'
  BY DEF Inductive, TypeOK, ServerTypeOK, server
<1>2. WorksKnown' /\ OneHolderDraws' /\ CountIsDrawn'
  BY DEF Inductive, WorksKnown, OneHolderDraws, CountIsDrawn, server, InFlight
<1> QED
  BY <1>1, <1>2

\* A step of one page leaves the plans of the others alone.
PlanOf(p) == <<pc[p], held[p], todo[p], failed[p], pending[p], kept[p], reading[p]>>

PlanKnown(p) ==
  /\ held[p] # 0 => pc[p] \notin {"idle", "starting"}
  /\ pc[p] \notin {"idle", "closing"} => todo[p] # {}
  /\ pc[p] = "reading" => reading[p] \in Sends
  /\ pc[p] # "idle" \/ kept[p] \/ failed[p] # {} => Lines \ pending[p] \subseteq drawn

LEMMA OthersStand ==
  ASSUME PlansKnown, NEW p \in Pages, drawn \subseteq drawn', PlanKnown(p)',
         \A q \in Pages \ {p} : UNCHANGED PlanOf(q)
  PROVE  PlansKnown'
<1>1. ASSUME NEW q \in Pages, q # p
      PROVE  PlanKnown(q)'
  <2>1. PlanKnown(q)
    BY DEF PlansKnown, PlanKnown
  <2>2. /\ pc'[q] = pc[q] /\ held'[q] = held[q] /\ todo'[q] = todo[q]
        /\ failed'[q] = failed[q] /\ pending'[q] = pending[q]
        /\ kept'[q] = kept[q] /\ reading'[q] = reading[q]
    BY <1>1 DEF PlanOf
  <2> QED
    BY <2>1, <2>2 DEF PlanKnown
<1> QED
  BY <1>1 DEF PlansKnown, PlanKnown

\* A line that ended with a work leaves the plan only if the work is there.
LEMMA LineEndsKeeps ==
  ASSUME Inductive, NEW p \in Pages, pc[p] \notin {"idle", "starting"},
         NEW l \in Lines, NEW got \in BOOLEAN, got => l \in drawn,
         LineEnds(p, l, got), UNCHANGED drawn
  PROVE  PageTypeOK' /\ PlansKnown'
<1> DEFINE bad   == IF got THEN failed[p] \ {l} ELSE failed[p] \cup {l}
           left  == todo[p] \ {l}
           again == /\ left = {} /\ bad # {} /\ ~quit[p] /\ round[p] < MaxRetries
<1>1. PageTypeOK /\ PlansKnown
  BY DEF Inductive, TypeOK
<1>2. /\ failed' = [failed EXCEPT ![p] = bad]
      /\ todo' = [todo EXCEPT ![p] = IF again THEN bad ELSE left]
      /\ round' = [round EXCEPT ![p] = IF again THEN @ + 1 ELSE @]
      /\ pending' = [pending EXCEPT ![p] = IF got THEN @ \ {l} ELSE @]
      /\ cuts' = [cuts EXCEPT ![p] = 0] /\ reading' = [reading EXCEPT ![p] = 0]
      /\ pc' = [pc EXCEPT ![p] = IF left # {} \/ again THEN "line" ELSE "closing"]
      /\ UNCHANGED <<held, kept, quit, interrupted>>
  BY DEF LineEnds, At, ends
<1>3. bad \in SUBSET Lines /\ left \in SUBSET Lines
  BY <1>1 DEF PageTypeOK
<1>4. again => bad # {}
  OBVIOUS
<1>5. again \in BOOLEAN
  OBVIOUS
<1> HIDE DEF bad, left, again
<1>6. PageTypeOK'
  <2>1. failed' \in [Pages -> SUBSET Lines] /\ todo' \in [Pages -> SUBSET Lines]
    BY <1>1, <1>2, <1>3 DEF PageTypeOK
  <2>2. round' \in [Pages -> Nat] /\ cuts' \in [Pages -> Nat]
    BY <1>1, <1>2 DEF PageTypeOK
  <2>3. pending' \in [Pages -> SUBSET Lines] /\ reading' \in [Pages -> 0 .. MaxSends]
    BY <1>1, <1>2, BatchAssumption DEF PageTypeOK
  <2>4. pc' \in [Pages -> {"idle", "starting", "line", "send", "reading", "waiting",
                           "looking", "closing"}]
    BY <1>1, <1>2 DEF PageTypeOK
  <2> QED
    BY <1>1, <1>2, <2>1, <2>2, <2>3, <2>4 DEF PageTypeOK
<1>7. /\ pc'[p] = (IF left # {} \/ again THEN "line" ELSE "closing")
      /\ todo'[p] = (IF again THEN bad ELSE left)
      /\ pending'[p] = (IF got THEN pending[p] \ {l} ELSE pending[p])
      /\ reading'[p] = 0
  BY <1>1, <1>2 DEF PageTypeOK
<1>8. Lines \ pending'[p] \subseteq drawn'
  <2>1. Lines \ pending[p] \subseteq drawn
    BY <1>1 DEF PlansKnown
  <2> QED
    BY <1>7, <2>1
<1>9. PlanKnown(p)'
  BY <1>4, <1>7, <1>8 DEF PlanKnown
<1>10. \A q \in Pages \ {p} : UNCHANGED PlanOf(q)
  BY <1>1, <1>2 DEF PlanOf, PageTypeOK
<1> QED
  BY <1>1, <1>6, <1>9, <1>10, OthersStand

\* A run left at its line goes on to its end with the plan it has.
LEMMA InterruptsKeeps ==
  ASSUME Inductive, NEW p \in Pages, pc[p] \notin {"idle", "starting"},
         Interrupts(p), UNCHANGED drawn
  PROVE  PageTypeOK' /\ PlansKnown'
<1>1. PageTypeOK /\ PlansKnown
  BY DEF Inductive, TypeOK
<1>2. /\ pc' = [pc EXCEPT ![p] = "closing"]
      /\ interrupted' = [interrupted EXCEPT ![p] = TRUE]
      /\ reading' = [reading EXCEPT ![p] = 0]
      /\ UNCHANGED <<held, todo, failed, pending, kept, round, cuts, quit>>
  BY DEF Interrupts, At, plan
<1>3. PageTypeOK'
  BY <1>1, <1>2, BatchAssumption DEF PageTypeOK
<1>4. PlanKnown(p)'
  BY <1>1, <1>2 DEF PlanKnown, PlansKnown, PageTypeOK
<1>5. \A q \in Pages \ {p} : UNCHANGED PlanOf(q)
  BY <1>1, <1>2 DEF PlanOf, PageTypeOK
<1> QED
  BY <1>1, <1>3, <1>4, <1>5, OthersStand

LEMMA TheLineIsThere ==
  ASSUME Inductive, NEW p \in Pages, pc[p] \notin {"idle", "closing"}
  PROVE  Current(p) \in todo[p] /\ Current(p) \in Lines
<1>1. todo[p] \in SUBSET Lines /\ todo[p] # {}
  BY DEF Inductive, TypeOK, PageTypeOK, PlansKnown
<1> QED
  BY <1>1, CurrentIsLine

LEMMA CutLineKeeps ==
  ASSUME Inductive, NEW p \in Pages, pc[p] \in {"line", "send", "reading"},
         CutLine(p), UNCHANGED drawn
  PROVE  PageTypeOK' /\ PlansKnown'
<1>1. PageTypeOK /\ PlansKnown
  BY DEF Inductive, TypeOK
<1>2. CASE cuts[p] + 1 < MaxCuts
  <2>1. /\ cuts' = [cuts EXCEPT ![p] = @ + 1]
        /\ reading' = [reading EXCEPT ![p] = 0]
        /\ pc' = [pc EXCEPT ![p] = "waiting"]
        /\ UNCHANGED <<held, todo, failed, pending, kept, round, quit, interrupted>>
    BY <1>2 DEF CutLine, At, plan, ends
  <2>2. PageTypeOK'
    BY <1>1, <2>1, BatchAssumption DEF PageTypeOK
  <2>3. PlanKnown(p)'
    BY <1>1, <2>1 DEF PlanKnown, PlansKnown, PageTypeOK
  <2>4. \A q \in Pages \ {p} : UNCHANGED PlanOf(q)
    BY <1>1, <2>1 DEF PlanOf, PageTypeOK
  <2> QED
    BY <1>1, <2>2, <2>3, <2>4, OthersStand
<1>3. CASE ~(cuts[p] + 1 < MaxCuts)
  <2>1. LineEnds(p, Current(p), FALSE)
    BY <1>3 DEF CutLine
  <2> QED
    BY <2>1, TheLineIsThere, LineEndsKeeps
<1> QED
  BY <1>2, <1>3
-----------------------------------------------------------------------------
\* A plan that is begun.
LEMMA PlansKeeps ==
  ASSUME Inductive, NEW p \in Pages, NEW lines \in SUBSET Lines,
         NEW failures \in SUBSET Lines, Plans(p, lines, failures),
         pending' \in [Pages -> SUBSET Lines],
         \A q \in Pages \ {p} : pending'[q] = pending[q],
         Lines \ pending'[p] \subseteq drawn
  PROVE  Inductive'
<1>1. PageTypeOK /\ PlansKnown
  BY DEF Inductive, TypeOK
<1>2. /\ todo' = [todo EXCEPT ![p] = lines] /\ failed' = [failed EXCEPT ![p] = failures]
      /\ kept' = [kept EXCEPT ![p] = TRUE] /\ pc' = [pc EXCEPT ![p] = "starting"]
      /\ UNCHANGED <<server, held, round, cuts, reading, quit, interrupted, faults>>
      /\ lines # {} /\ pc[p] = "idle"
  BY DEF Plans, At, line, ends
<1>3. PageTypeOK'
  BY <1>1, <1>2 DEF PageTypeOK
<1>4. PlanKnown(p)'
  BY <1>1, <1>2 DEF PlanKnown, PlansKnown, PageTypeOK, server
<1>5. \A q \in Pages \ {p} : UNCHANGED PlanOf(q)
  BY <1>1, <1>2 DEF PlanOf, PageTypeOK
<1>6. PlansKnown'
  BY <1>1, <1>2, <1>4, <1>5, OthersStand DEF server
<1>7. faults' \in 0 .. MaxFaults
  BY <1>2 DEF Inductive, TypeOK
<1> QED
  BY <1>2, <1>3, <1>6, <1>7, ServerStands DEF Inductive, TypeOK

LEMMA AuthorBegins ==
  ASSUME Inductive, NEW p \in Pages,
         Begin(p) \/ ResumeSession(p) \/ ResumeHistory(p) \/ RetryFailed(p)
  PROVE  Inductive'
<1>1. /\ pending \in [Pages -> SUBSET Lines] /\ failed \in [Pages -> SUBSET Lines]
      /\ drawn \subseteq Lines
  BY DEF Inductive, TypeOK, PageTypeOK, ServerTypeOK
<1>2. CASE Begin(p)
  <2>1. Plans(p, Lines, {}) /\ pending' = [pending EXCEPT ![p] = Lines]
    BY <1>2 DEF Begin
  <2>2. /\ pending' \in [Pages -> SUBSET Lines] /\ Lines \ pending'[p] \subseteq drawn
        /\ \A q \in Pages \ {p} : pending'[q] = pending[q]
    BY <1>1, <2>1
  <2> QED
    BY <2>1, <2>2, PlansKeeps
<1>3. CASE ResumeSession(p)
  <2>1. Plans(p, pending[p], {}) /\ pending' = pending /\ kept[p]
    BY <1>3 DEF ResumeSession
  <2>2. Lines \ pending[p] \subseteq drawn
    BY <2>1 DEF Inductive, PlansKnown
  <2> QED
    BY <1>1, <2>1, <2>2, PlansKeeps
<1>4. CASE ResumeHistory(p)
  <2>1. /\ Plans(p, Lines \ drawn, {})
        /\ pending' = [pending EXCEPT ![p] = Lines \ drawn]
    BY <1>4 DEF ResumeHistory
  <2>2. /\ pending' \in [Pages -> SUBSET Lines] /\ Lines \ pending'[p] \subseteq drawn
        /\ \A q \in Pages \ {p} : pending'[q] = pending[q]
    BY <1>1, <2>1
  <2> QED
    BY <2>1, <2>2, PlansKeeps
<1>5. CASE RetryFailed(p)
  <2>1. Plans(p, failed[p], failed[p]) /\ pending' = pending
    BY <1>5 DEF RetryFailed
  <2>2. failed[p] # {}
    BY <2>1 DEF Plans
  <2>3. Lines \ pending[p] \subseteq drawn
    BY <2>2 DEF Inductive, PlansKnown
  <2> QED
    BY <1>1, <2>1, <2>3, PlansKeeps
<1> QED
  BY <1>2, <1>3, <1>4, <1>5

LEMMA NotStartedKeeps ==
  ASSUME Inductive, NEW p \in Pages, pc[p] = "starting", NotStarted(p),
         UNCHANGED <<line, drawn>>
  PROVE  PageTypeOK' /\ PlansKnown'
<1>1. PageTypeOK /\ PlansKnown
  BY DEF Inductive, TypeOK
<1>2. /\ pc' = [pc EXCEPT ![p] = "idle"] /\ todo' = [todo EXCEPT ![p] = {}]
      /\ quit' = [quit EXCEPT ![p] = FALSE]
      /\ UNCHANGED <<held, failed, pending, kept, round, cuts, reading, interrupted>>
  BY DEF NotStarted, At, line
<1>3. PageTypeOK'
  BY <1>1, <1>2 DEF PageTypeOK
<1>4. PlanKnown(p)'
  BY <1>1, <1>2 DEF PlanKnown, PlansKnown, PageTypeOK
<1>5. \A q \in Pages \ {p} : UNCHANGED PlanOf(q)
  BY <1>1, <1>2 DEF PlanOf, PageTypeOK
<1> QED
  BY <1>1, <1>3, <1>4, <1>5, OthersStand

\* The lease is given out only when nothing is drawn under another one.
LEMMA StartKeeps ==
  ASSUME Inductive, NEW p \in Pages, Start(p)
  PROVE  Inductive'
<1>1. PageTypeOK /\ PlansKnown /\ ServerTypeOK /\ faults \in 0 .. MaxFaults
  BY DEF Inductive, TypeOK
<1>2. /\ pc[p] = "starting" /\ MayStart /\ record' = Started
      /\ UNCHANGED <<up, works, sends, drawn, line, faults>>
  BY DEF Start
<1>3. record.lease + 1 \in 0 .. MaxLeases
  BY <1>1, <1>2, BatchAssumption DEF ServerTypeOK, MayStart
<1>4. /\ record' \in [lease : 0 .. MaxLeases, completed : 0 .. Total, fresh : BOOLEAN,
                       state : {"none", "running", "interrupted", "stopped",
                                "completed", "finished_with_failures"}]
      /\ record'.completed = record.completed /\ record'.state = "running"
  <2>1. record' = [record EXCEPT !.lease = record.lease + 1, !.state = "running",
                                 !.fresh = TRUE]
    BY <1>2 DEF Started
  <2> QED
    BY <1>1, <1>3, <2>1 DEF ServerTypeOK
<1>5. ServerTypeOK' /\ WorksKnown'
  BY <1>1, <1>2, <1>4 DEF ServerTypeOK, Inductive, WorksKnown
<1>6. OneHolderDraws'
  BY <1>2 DEF MayStart, Active, OneHolderDraws, InFlight
<1>7. CountIsDrawn'
  <2>1. CountIsDrawn /\ drawn \subseteq drawn' /\ drawn' \subseteq Lines
    BY <1>1, <1>2 DEF Inductive, ServerTypeOK
  <2> QED
    BY <1>1, <1>4, <2>1, CountSurvives
<1>8. PageTypeOK' /\ PlansKnown'
  <2>1. CASE NotStarted(p)
    BY <1>2, <2>1, NotStartedKeeps
  <2>2. CASE /\ held' = [held EXCEPT ![p] = record.lease + 1]
             /\ At(p, "line") /\ UNCHANGED <<plan, ends>>
    <3>1. /\ held' = [held EXCEPT ![p] = record.lease + 1]
          /\ pc' = [pc EXCEPT ![p] = "line"]
          /\ UNCHANGED <<todo, failed, pending, kept, round, cuts, reading, quit,
                         interrupted>>
      BY <1>2, <2>2 DEF At, plan, ends, line
    <3>2. PageTypeOK'
      BY <1>1, <1>3, <3>1 DEF PageTypeOK
    <3>3. PlanKnown(p)'
      BY <1>1, <1>2, <3>1 DEF PlanKnown, PlansKnown, PageTypeOK
    <3>4. \A q \in Pages \ {p} : UNCHANGED PlanOf(q)
      BY <1>1, <3>1 DEF PlanOf, PageTypeOK
    <3> QED
      BY <1>1, <1>2, <3>2, <3>3, <3>4, OthersStand
  <2> QED
    BY <2>1, <2>2 DEF Start
<1> QED
  BY <1>1, <1>2, <1>5, <1>6, <1>7, <1>8 DEF Inductive, TypeOK
-----------------------------------------------------------------------------
\* A report to the row, by a page whose run is on.
LEMMA RenewKeeps ==
  ASSUME Inductive, NEW p \in Pages, pc[p] # "idle", Renewed(p),
         UNCHANGED <<up, works, sends, drawn>>
  PROVE  ServerTypeOK' /\ WorksKnown' /\ OneHolderDraws' /\ CountIsDrawn'
<1>1. record' = Updated(Completed(p), "running")
  BY DEF Renewed
<1>2. /\ record' \in [lease : 0 .. MaxLeases, completed : 0 .. Total, fresh : BOOLEAN,
                       state : {"none", "running", "interrupted", "stopped",
                                "completed", "finished_with_failures"}]
      /\ record'.lease = record.lease /\ CountIsDrawn'
  BY <1>1, UpdateKeeps
<1>3. ServerTypeOK'
  BY <1>2 DEF Inductive, TypeOK, ServerTypeOK
<1>4. WorksKnown'
  BY DEF Inductive, WorksKnown
<1>5. OneHolderDraws'
  BY <1>2 DEF Inductive, OneHolderDraws, InFlight
<1> QED
  BY <1>2, <1>3, <1>4, <1>5

\* A page that goes from one place to another with its plan as it is.
LEMMA MovesKeeps ==
  ASSUME Inductive, NEW p \in Pages,
         pc[p] \notin {"idle", "starting", "closing"},
         NEW where \in {"send", "line", "looking"}, At(p, where),
         UNCHANGED <<held, plan, line, ends, drawn>>
  PROVE  PageTypeOK' /\ PlansKnown'
<1>1. PageTypeOK /\ PlansKnown
  BY DEF Inductive, TypeOK
<1>2. /\ pc' = [pc EXCEPT ![p] = where]
      /\ UNCHANGED <<held, todo, failed, pending, kept, round, cuts, reading, quit,
                     interrupted>>
  BY DEF At, plan, line, ends
<1>3. PageTypeOK'
  BY <1>1, <1>2 DEF PageTypeOK
<1>4. PlanKnown(p)'
  BY <1>1, <1>2 DEF PlanKnown, PlansKnown, PageTypeOK
<1>5. \A q \in Pages \ {p} : UNCHANGED PlanOf(q)
  BY <1>1, <1>2 DEF PlanOf, PageTypeOK
<1> QED
  BY <1>1, <1>3, <1>4, <1>5, OthersStand

LEMMA RefreshKeeps ==
  ASSUME Inductive, NEW p \in Pages, Refresh(p)
  PROVE  Inductive'
<1>1. /\ pc[p] = "line" /\ UNCHANGED <<works, sends, drawn, up, faults>>
      /\ PageTypeOK /\ PlansKnown /\ faults \in 0 .. MaxFaults
  BY DEF Refresh, Inductive, TypeOK
<1>2. CASE /\ Renewed(p) /\ At(p, "send") /\ UNCHANGED <<held, plan, line, ends>>
  <2>1. PageTypeOK' /\ PlansKnown'
    BY <1>1, <1>2, MovesKeeps
  <2>2. ServerTypeOK' /\ WorksKnown' /\ OneHolderDraws' /\ CountIsDrawn'
    BY <1>1, <1>2, RenewKeeps
  <2> QED
    BY <1>1, <2>1, <2>2 DEF Inductive, TypeOK
<1>3. ASSUME UNCHANGED record
      PROVE  ServerTypeOK' /\ WorksKnown' /\ OneHolderDraws' /\ CountIsDrawn'
  BY <1>1, <1>3, ServerStands DEF server
<1>4. CASE /\ Loses(p) /\ At(p, "closing")
           /\ interrupted' = [interrupted EXCEPT ![p] = TRUE]
           /\ UNCHANGED <<record, held, plan, line>>
  <2>1. /\ pc' = [pc EXCEPT ![p] = "closing"] /\ quit' = [quit EXCEPT ![p] = TRUE]
        /\ interrupted' = [interrupted EXCEPT ![p] = TRUE]
        /\ UNCHANGED <<held, todo, failed, pending, kept, round, cuts, reading>>
    BY <1>4 DEF Loses, At, plan, line
  <2>2. PageTypeOK'
    BY <1>1, <2>1 DEF PageTypeOK
  <2>3. PlanKnown(p)'
    BY <1>1, <2>1 DEF PlanKnown, PlansKnown, PageTypeOK
  <2>4. \A q \in Pages \ {p} : UNCHANGED PlanOf(q)
    BY <1>1, <2>1 DEF PlanOf, PageTypeOK
  <2>5. PlansKnown'
    BY <1>1, <2>3, <2>4, OthersStand
  <2> QED
    BY <1>1, <1>3, <1>4, <2>2, <2>5 DEF Inductive, TypeOK
<1>5. CASE CutLine(p) /\ UNCHANGED record
  <2>1. PageTypeOK' /\ PlansKnown'
    BY <1>1, <1>5, CutLineKeeps
  <2> QED
    BY <1>1, <1>3, <1>5, <2>1 DEF Inductive, TypeOK
<1> QED
  BY <1>2, <1>4, <1>5 DEF Refresh

\* The execution that begins belongs to the lease that was checked for it.
LEMMA PostKeeps ==
  ASSUME Inductive, NEW p \in Pages, Post(p)
  PROVE  Inductive'
<1>1. /\ pc[p] = "send" /\ UNCHANGED <<up, record, drawn, faults>>
      /\ PageTypeOK /\ PlansKnown /\ faults \in 0 .. MaxFaults /\ ServerTypeOK
  BY DEF Post, Inductive, TypeOK
<1>2. Current(p) \in Lines
  BY <1>1, TheLineIsThere
<1>3. CASE UNCHANGED <<works, sends>>
  <2>1. ServerTypeOK' /\ WorksKnown' /\ OneHolderDraws' /\ CountIsDrawn'
    BY <1>1, <1>3, ServerStands DEF server
  <2>2. PageTypeOK' /\ PlansKnown'
    <3>1. CASE LineEnds(p, Current(p), FALSE)
      BY <1>1, <1>2, <3>1, LineEndsKeeps
    <3>2. CASE CutLine(p)
      BY <1>1, <3>2, CutLineKeeps
    <3>3. sends' # sends + 1
      BY <1>1, <1>3, BatchAssumption DEF ServerTypeOK
    <3> QED
      BY <3>1, <3>2, <3>3 DEF Post
  <2> QED
    BY <1>1, <2>1, <2>2 DEF Inductive, TypeOK
<1>4. CASE /\ Require(held[p]) /\ sends < MaxSends
           /\ sends' = sends + 1
           /\ works' = [works EXCEPT ![sends + 1] =
                          [line |-> Current(p), lease |-> held[p], at |-> "running"]]
           /\ \/ /\ reading' = [reading EXCEPT ![p] = sends + 1] /\ At(p, "reading")
                 /\ UNCHANGED <<held, plan, round, cuts, ends>>
              \/ CutLine(p)
  <2>1. sends + 1 \in Sends /\ sends' \in 0 .. MaxSends
    BY <1>1, <1>4, BatchAssumption DEF Sends, ServerTypeOK
  <2>2. held[p] \in 0 .. MaxLeases /\ held[p] = record.lease
    BY <1>1, <1>4 DEF PageTypeOK, Require
  <2>3. Current(p) \in 0 .. Total
    BY <1>2, BatchAssumption DEF Lines
  <2>4. works \in [Sends -> [line : 0 .. Total, lease : 0 .. MaxLeases, at : AtSet]]
    BY <1>1 DEF ServerTypeOK, AtSet
  <2>5. /\ works' \in [Sends -> [line : 0 .. Total, lease : 0 .. MaxLeases, at : AtSet]]
        /\ works'[sends + 1] = [line |-> Current(p), lease |-> held[p], at |-> "running"]
        /\ \A j \in Sends \ {sends + 1} : works'[j] = works[j]
    BY <1>4, <2>1, <2>2, <2>3, <2>4 DEF AtSet
  <2>6. ServerTypeOK'
    BY <1>1, <2>1, <2>5 DEF ServerTypeOK, AtSet
  <2>7. WorksKnown'
    BY <1>1, <1>2, <2>5 DEF Inductive, WorksKnown
  <2>8. OneHolderDraws'
    BY <1>1, <2>2, <2>5 DEF Inductive, OneHolderDraws, InFlight
  <2>9. CountIsDrawn'
    BY <1>1 DEF Inductive, CountIsDrawn
  <2>10. PageTypeOK' /\ PlansKnown'
    <3>1. CASE CutLine(p)
      BY <1>1, <3>1, CutLineKeeps
    <3>2. CASE /\ reading' = [reading EXCEPT ![p] = sends + 1] /\ At(p, "reading")
               /\ UNCHANGED <<held, plan, round, cuts, ends>>
      <4>1. /\ pc' = [pc EXCEPT ![p] = "reading"]
            /\ reading' = [reading EXCEPT ![p] = sends + 1]
            /\ UNCHANGED <<held, todo, failed, pending, kept, round, cuts, quit,
                           interrupted>>
        BY <3>2 DEF At, plan, ends
      <4>2. sends + 1 \in 0 .. MaxSends
        BY <2>1 DEF Sends
      <4>3. PageTypeOK'
        BY <1>1, <4>1, <4>2 DEF PageTypeOK
      <4>4. PlanKnown(p)'
        BY <1>1, <2>1, <4>1 DEF PlanKnown, PlansKnown, PageTypeOK
      <4>5. \A q \in Pages \ {p} : UNCHANGED PlanOf(q)
        BY <1>1, <4>1 DEF PlanOf, PageTypeOK
      <4> QED
        BY <1>1, <4>3, <4>4, <4>5, OthersStand
    <3> QED
      BY <1>4, <3>1, <3>2
  <2> QED
    BY <1>1, <2>6, <2>7, <2>8, <2>9, <2>10 DEF Inductive, TypeOK
<1> QED
  BY <1>3, <1>4 DEF Post

\* Steps of a run that leave the server alone: a line is counted only where the
\* page saw its work.
LEMMA ReaderKeeps ==
  ASSUME Inductive, NEW p \in Pages, Read(p) \/ Aborted(p) \/ Wait(p) \/ Look(p)
  PROVE  Inductive'
<1>1. UNCHANGED <<server, faults>>
  BY DEF Read, Aborted, Wait, Look
<1>2. UNCHANGED drawn
  BY <1>1 DEF server
<1>3. PageTypeOK' /\ PlansKnown'
  <2>1. CASE Read(p)
    <3> DEFINE w == works[reading[p]]
    <3>1. pc[p] = "reading" /\ reading[p] \in Sends
      BY <2>1 DEF Read, Inductive, PlansKnown
    <3>2. w.at \in {"saved", "failed"} => w.line \in Lines
      BY <3>1 DEF Inductive, WorksKnown
    <3>3. w.at = "saved" => w.line \in drawn
      BY <3>1 DEF Inductive, WorksKnown
    <3>4. CASE w.at = "saved" /\ LineEnds(p, w.line, TRUE)
      BY <1>2, <3>1, <3>2, <3>3, <3>4, LineEndsKeeps
    <3>5. CASE w.at = "failed" /\ LineEnds(p, w.line, FALSE)
      BY <1>2, <3>1, <3>2, <3>5, LineEndsKeeps
    <3>6. CASE CutLine(p)
      BY <1>2, <3>1, <3>6, CutLineKeeps
    <3> QED
      BY <2>1, <3>4, <3>5, <3>6 DEF Read
  <2>2. CASE Aborted(p)
    BY <1>2, <2>2, InterruptsKeeps DEF Aborted
  <2>3. CASE Wait(p)
    <3>1. pc[p] = "waiting"
      BY <2>3 DEF Wait
    <3>2. CASE Interrupts(p)
      BY <1>2, <3>1, <3>2, InterruptsKeeps
    <3>3. CASE At(p, "looking") /\ UNCHANGED <<held, plan, line, ends>>
      BY <1>2, <3>1, <3>3, MovesKeeps
    <3> QED
      BY <2>3, <3>2, <3>3 DEF Wait
  <2>4. CASE Look(p)
    <3>1. pc[p] = "looking" /\ Current(p) \in Lines
      BY <2>4, TheLineIsThere DEF Look
    <3>2. CASE Current(p) \in drawn /\ LineEnds(p, Current(p), TRUE)
      BY <1>2, <3>1, <3>2, LineEndsKeeps
    <3>3. CASE At(p, "line") /\ UNCHANGED <<held, plan, line, ends>>
      BY <1>2, <3>1, <3>3, MovesKeeps
    <3>4. CASE LineEnds(p, Current(p), FALSE)
      BY <1>2, <3>1, <3>4, LineEndsKeeps
    <3> QED
      BY <2>4, <3>2, <3>3, <3>4 DEF Look
  <2> QED
    BY <2>1, <2>2, <2>3, <2>4
<1>4. faults' \in 0 .. MaxFaults
  BY <1>1 DEF Inductive, TypeOK
<1> QED
  BY <1>1, <1>3, <1>4, ServerStands DEF Inductive, TypeOK

LEMMA HeartbeatKeeps ==
  ASSUME Inductive, NEW p \in Pages, Heartbeat(p)
  PROVE  Inductive'
<1>1. /\ held[p] # 0 /\ UNCHANGED <<up, works, sends, drawn, faults>>
      /\ UNCHANGED <<pc, held, todo, failed, pending, kept, round, cuts, reading,
                     interrupted>>
      /\ quit' = quit \/ quit' = [quit EXCEPT ![p] = TRUE]
  BY DEF Heartbeat, Loses, plan, line
<1>2. pc[p] # "idle"
  BY <1>1 DEF Inductive, PlansKnown
<1>3. PageTypeOK'
  BY <1>1 DEF Inductive, TypeOK, PageTypeOK
<1>4. PlansKnown'
  BY <1>1 DEF Inductive, PlansKnown
<1>5. ServerTypeOK' /\ WorksKnown' /\ OneHolderDraws' /\ CountIsDrawn'
  <2>1. CASE Renewed(p)
    BY <1>1, <1>2, <2>1, RenewKeeps
  <2>2. CASE UNCHANGED record
    BY <1>1, <2>2, ServerStands DEF server
  <2> QED
    BY <2>1, <2>2 DEF Heartbeat
<1> QED
  BY <1>1, <1>3, <1>4, <1>5 DEF Inductive, TypeOK

LEMMA CloseKeeps ==
  ASSUME Inductive, NEW p \in Pages, Close(p)
  PROVE  Inductive'
<1>1. /\ pc[p] = "closing" /\ PageTypeOK /\ PlansKnown /\ faults \in 0 .. MaxFaults
      /\ UNCHANGED <<up, works, sends, drawn, failed, pending, reading, faults>>
  BY DEF Close, Inductive, TypeOK
<1>2. /\ pc' = [pc EXCEPT ![p] = "idle"] /\ held' = [held EXCEPT ![p] = 0]
      /\ todo' = [todo EXCEPT ![p] = {}]
      /\ kept' = [kept EXCEPT ![p] = Final(p) \in {"interrupted", "stopped"}]
      /\ round' = [round EXCEPT ![p] = 0] /\ cuts' = [cuts EXCEPT ![p] = 0]
      /\ quit' = [quit EXCEPT ![p] = FALSE]
      /\ interrupted' = [interrupted EXCEPT ![p] = FALSE]
  BY DEF Close, At
<1>3. PageTypeOK'
  BY <1>1, <1>2, BatchAssumption DEF PageTypeOK
<1>4. PlanKnown(p)'
  BY <1>1, <1>2 DEF PlanKnown, PlansKnown, PageTypeOK
<1>5. \A q \in Pages \ {p} : UNCHANGED PlanOf(q)
  BY <1>1, <1>2 DEF PlanOf, PageTypeOK
<1>6. PlansKnown'
  BY <1>1, <1>4, <1>5, OthersStand
<1>7. ServerTypeOK' /\ WorksKnown' /\ OneHolderDraws' /\ CountIsDrawn'
  <2>1. CASE UNCHANGED record
    BY <1>1, <2>1, ServerStands DEF server
  <2>2. CASE /\ MayUpdate(held[p], Completed(p), Final(p))
             /\ record' = Updated(Completed(p), Final(p))
    <3>1. Final(p) \in {"running", "interrupted", "stopped", "completed",
                        "finished_with_failures"}
      BY DEF Final
    <3>2. Final(p) = "completed" => Larger(record.completed, Completed(p)) = Total
      BY <2>2 DEF MayUpdate
    <3>3. /\ record' \in [lease : 0 .. MaxLeases, completed : 0 .. Total,
                           fresh : BOOLEAN,
                           state : {"none", "running", "interrupted", "stopped",
                                    "completed", "finished_with_failures"}]
          /\ record'.lease = record.lease /\ CountIsDrawn'
      BY <1>1, <2>2, <3>1, <3>2, UpdateKeeps
    <3>4. ServerTypeOK'
      BY <1>1, <3>3 DEF Inductive, TypeOK, ServerTypeOK
    <3>5. WorksKnown' /\ OneHolderDraws'
      BY <1>1, <3>3 DEF Inductive, WorksKnown, OneHolderDraws, InFlight
    <3> QED
      BY <3>3, <3>4, <3>5
  <2> QED
    BY <2>1, <2>2 DEF Close
<1> QED
  BY <1>1, <1>3, <1>6, <1>7 DEF Inductive, TypeOK

LEMMA FaultCounts ==
  ASSUME Inductive, Fault
  PROVE  faults' \in 0 .. MaxFaults
BY PageAssumption DEF Fault, Inductive, TypeOK

LEMMA PageLeaves ==
  ASSUME Inductive, NEW p \in Pages, Stop(p) \/ Reload(p)
  PROVE  Inductive'
<1>1. UNCHANGED server /\ faults' \in 0 .. MaxFaults /\ PageTypeOK /\ PlansKnown
  BY FaultCounts DEF Stop, Reload, Inductive, TypeOK
<1>2. PageTypeOK' /\ PlansKnown'
  <2>1. CASE Stop(p)
    <3>1. /\ quit' = [quit EXCEPT ![p] = TRUE]
          /\ UNCHANGED <<pc, held, todo, failed, pending, kept, round, cuts, reading,
                         interrupted, drawn>>
      BY <1>1, <2>1 DEF Stop, Loses, plan, line, server
    <3>2. PageTypeOK'
      BY <1>1, <3>1 DEF PageTypeOK
    <3>3. PlansKnown'
      BY <1>1, <3>1 DEF PlansKnown
    <3> QED
      BY <3>2, <3>3
  <2>2. CASE Reload(p)
    <3>1. /\ pc' = [pc EXCEPT ![p] = "idle"] /\ held' = [held EXCEPT ![p] = 0]
          /\ todo' = [todo EXCEPT ![p] = {}] /\ kept' = [kept EXCEPT ![p] = FALSE]
          /\ round' = [round EXCEPT ![p] = 0] /\ cuts' = [cuts EXCEPT ![p] = 0]
          /\ reading' = [reading EXCEPT ![p] = 0]
          /\ quit' = [quit EXCEPT ![p] = FALSE]
          /\ interrupted' = [interrupted EXCEPT ![p] = FALSE]
          /\ pc[p] # "idle" \/ kept[p]
      BY <2>2 DEF Reload, At
    <3>2. \/ UNCHANGED <<failed, pending>>
          \/ /\ failed' = [failed EXCEPT ![p] = {}]
             /\ pending' = [pending EXCEPT ![p] = {}]
      BY <2>2 DEF Reload
    <3>3. PageTypeOK'
      BY <1>1, <3>1, <3>2, BatchAssumption DEF PageTypeOK
    <3>4. PlanKnown(p)'
      BY <1>1, <3>1, <3>2 DEF PlanKnown, PlansKnown, PageTypeOK, server
    <3>5. \A q \in Pages \ {p} : UNCHANGED PlanOf(q)
      BY <1>1, <3>1, <3>2 DEF PlanOf, PageTypeOK
    <3>6. PlansKnown'
      BY <1>1, <3>4, <3>5, OthersStand DEF server
    <3> QED
      BY <3>3, <3>6
  <2> QED
    BY <2>1, <2>2
<1> QED
  BY <1>1, <1>2, ServerStands DEF Inductive, TypeOK

LEMMA StartFailsKeeps ==
  ASSUME Inductive, NEW p \in Pages, StartFails(p)
  PROVE  Inductive'
<1>1. /\ pc[p] = "starting" /\ NotStarted(p) /\ UNCHANGED <<server, line, faults, drawn>>
  BY DEF StartFails, server
<1>2. PageTypeOK' /\ PlansKnown'
  BY <1>1, NotStartedKeeps
<1> QED
  BY <1>1, <1>2, ServerStands DEF Inductive, TypeOK
-----------------------------------------------------------------------------
LEMMA InitHolds == Init => Inductive
<1> SUFFICES ASSUME Init PROVE Inductive
  OBVIOUS
<1> USE BatchAssumption, PageAssumption
<1>1. ServerTypeOK
  BY DEF Init, LeaseInit, ServerTypeOK, NoWork, Lines
<1>2. PageTypeOK
  BY DEF Init, PageTypeOK
<1>3. WorksKnown /\ OneHolderDraws
  BY DEF Init, LeaseInit, NoWork, WorksKnown, OneHolderDraws, InFlight
<1>4. PlansKnown
  BY DEF Init, PlansKnown
<1>5. CountIsDrawn
  BY FS_EmptySet DEF Init, LeaseInit, CountIsDrawn
<1> QED
  BY <1>1, <1>2, <1>3, <1>4, <1>5 DEF Inductive, TypeOK, Init

LEMMA StepKeeps == Inductive /\ [Next]_vars => Inductive'
<1> SUFFICES ASSUME Inductive, [Next]_vars PROVE Inductive'
  OBVIOUS
<1>1. ASSUME NEW p \in Pages, Run(p)
      PROVE  Inductive'
  BY <1>1, StartKeeps, StartFailsKeeps, RefreshKeeps, PostKeeps, ReaderKeeps, CloseKeeps
     DEF Run
<1>2. ASSUME NEW p \in Pages, Author(p) \/ Heartbeat(p)
      PROVE  Inductive'
  BY <1>2, AuthorBegins, PageLeaves, HeartbeatKeeps DEF Author
<1>3. ASSUME NEW i \in Sends, Work(i) \/ Unread(i)
      PROVE  Inductive'
  BY <1>3, DrawingKeeps DEF Work, Unread
<1>4. CASE (Lapse \/ Restart) /\ UNCHANGED <<page, faults>>
  <2>1. faults' \in 0 .. MaxFaults
    BY <1>4 DEF Inductive, TypeOK
  <2> QED
    BY <1>4, <2>1, ServerKeeps
<1>5. CASE ServerCrash
  BY <1>5, FaultCounts, ServerKeeps DEF ServerCrash
<1>6. CASE UNCHANGED vars
  <2>1. UNCHANGED <<server, page, faults, drawn>>
    BY <1>6 DEF vars, server
  <2> QED
    BY <2>1, ServerStands, PagesStand DEF Inductive, TypeOK
<1> QED
  BY <1>1, <1>2, <1>3, <1>4, <1>5, <1>6 DEF Next

LEMMA AlwaysInductive == Spec => []Inductive
BY InitHolds, StepKeeps, PTL DEF Spec

\* Every variable of a batch keeps its type, whatever pages, faults and bounds
\* there are.
THEOREM TypeCorrect == Spec => []TypeOK
<1>1. Inductive => TypeOK
  BY DEF Inductive
<1> QED
  BY <1>1, AlwaysInductive, PTL

\* Only the run that holds the lease of a batch is ever drawing for it: a lease
\* is never given out while a drawing of another is under way (start against
\* the check of a paint and of a rendering).
THEOREM HolderDraws == Spec => []OneHolderDraws
<1>1. Inductive => OneHolderDraws
  BY DEF Inductive
<1> QED
  BY <1>1, AlwaysInductive, PTL

\* The count of a batch never runs ahead of the works saved for it, and a batch
\* marked completed has a work for every line.
THEOREM CountIsTrue == Spec => []CountIsDrawn
<1>1. Inductive => CountIsDrawn
  BY DEF Inductive
<1> QED
  BY <1>1, AlwaysInductive, PTL
=============================================================================
