-------------------------- MODULE AdmissionProofs --------------------------
(***************************************************************************)
(* Proofs about the requests sent to a provider, for any number of threads, *)
(* slots and requests, any limits and delays: the slots return, pauses are  *)
(* kept, no minute has more requests or uses more tokens than the limits,   *)
(* and a day has no more requests over its limit than the admissions saved  *)
(* past its midnights account for.                                          *)
(*                                                                         *)
(* A minute fits because a request sent in it was admitted at most `Lag'    *)
(* earlier and its event cannot have left the window yet: all of them are   *)
(* still in the row, which never holds more events, or tokens, than the     *)
(* limit.                                                                   *)
(***************************************************************************)
EXTENDS AdmissionProperties, FiniteSetTheorems, WellFoundedInduction, TLAPS

States == {"idle", "queued", "count", "read", "admit", "asleep", "send", "sent", "refused", "settle"}
Events == [id : Nat, at : Nat, tokens : Int]
Rows   == [events : SUBSET Events, day : Int, daily : Nat, notBefore : Nat]
Sends  == [id : Nat, at : Nat, uses : Nat]

Typed ==
  /\ clock \in 0 .. MaxTime /\ requests \in Nat /\ faults \in Nat /\ paused \in Nat /\ free \in Nat
  /\ usage \in Rows
  /\ IsFiniteSet(usage.events)
  /\ pc \in [Workers -> States] /\ id \in [Workers -> Nat] /\ need \in [Workers -> Nat]
  /\ now \in [Workers -> Nat] /\ used \in [Workers -> Int]
  /\ sends \in SUBSET Sends /\ IsFiniteSet(sends)

ReadsAreRecent ==
  \A w \in Workers : pc[w] \in {"admit", "send"} => now[w] <= clock /\ clock <= now[w] + Lag

\* Where a request has not been sent yet.
Unsent == {"queued", "count", "read", "admit", "asleep", "send"}

IdsAreFresh ==
  /\ \A w \in Workers : pc[w] # "idle" => id[w] \in 1 .. requests
  /\ \A w, v \in Workers : pc[w] # "idle" /\ pc[v] # "idle" /\ id[w] = id[v] => w = v
  /\ \A s \in sends : s.id <= requests
  /\ \A s \in sends : \A w \in Workers : pc[w] \in Unsent => s.id # id[w]
  /\ \A s, t \in sends : s.id = t.id => s = t

\* An admitted request is in the row until it is sent; and a sent one, until
\* its minute is over.
AdmittedAreCounted ==
  \A w \in Workers : pc[w] = "send" => \E e \in usage.events : e.id = id[w] /\ e.at = now[w]

SentAreCounted ==
  \A s \in sends : clock + Lag < s.at + Window =>
    \E e \in usage.events : e.id = s.id /\ s.at <= e.at + Lag

RowFits == Rpm # 0 => Cardinality(usage.events) <= Limit(Rpm)

PauseIsSaved == usage.notBefore = paused

Budget == ReadsAreRecent /\ IdsAreFresh /\ AdmittedAreCounted /\ SentAreCounted /\ RowFits

Inductive == Typed /\ SlotsReturn /\ PauseIsSaved /\ Budget /\ RequestsFit

\* What was counted on a day: sent, or about to be.
PendingOn(d) == {w \in Workers : pc[w] = "send" /\ Day(now[w]) = d}

CountOf(d) == days[d] + Cardinality(PendingOn(d))

\* The admissions that the midnight at the beginning of d may have overtaken.
WaitingOn(d) == {w \in Workers : pc[w] = "admit" /\ Day(now[w]) + 1 = d}

\* The row counts the present day, unless an admission that crossed midnight
\* has set it back: what was counted before is then covered by that admission.
DaysAreCounted ==
  /\ days \in [0 .. Day(MaxTime) -> Nat] /\ crossed \in [0 .. Day(MaxTime) + 1 -> Nat]
  /\ usage.day <= Day(clock)
  /\ Rpd # 0 =>
       /\ usage.daily <= Rpd
       /\ \A d \in 0 .. Day(MaxTime) :
            /\ d > Day(clock) => CountOf(d) = 0
            /\ d = Day(clock) =>
                 CountOf(d) <= (IF usage.day = d THEN usage.daily ELSE 0) + Rpd * crossed[d]
            /\ d < Day(clock) => CountOf(d) <= Rpd * (1 + crossed[d]) + crossed[d + 1]

\* Each admission that crosses a midnight holds its slot over it.
CrossersHaveSlots ==
  \A d \in 0 .. Day(MaxTime) + 1 :
    /\ d > Day(clock) => crossed[d] = 0
    /\ crossed[d] + Cardinality(WaitingOn(d)) <= Slots
-----------------------------------------------------------------------------
LEMMA DayGrows ==
  ASSUME NEW a \in Nat, NEW b \in Nat, a <= b
  PROVE  Day(a) \in Nat /\ Day(a) <= Day(b)
<1> USE AdmissionAssumption DEF Day
<1>1. Day(a) \in Nat /\ Day(b) \in Nat
  OBVIOUS
<1>2. a = DayLength * (a \div DayLength) + (a % DayLength) /\ a % DayLength \in 0 .. DayLength - 1
  OBVIOUS
<1>3. b = DayLength * (b \div DayLength) + (b % DayLength) /\ b % DayLength \in 0 .. DayLength - 1
  OBVIOUS
<1>4. ASSUME Day(b) + 1 <= Day(a) PROVE FALSE
  <2> DEFINE p == Day(a)  q == Day(b)
  <2>1. p \in Nat /\ q \in Nat /\ DayLength \in Nat /\ q + 1 <= p /\ DayLength > 0
    BY <1>1, <1>4
  <2>2. a >= DayLength * p /\ b < DayLength * q + DayLength
    BY <1>2, <1>3
  <2> HIDE DEF p, q
  <2>3. PICK k \in Nat : p = q + 1 + k
    <3>1. p - q - 1 \in Nat
      BY <2>1
    <3> QED
      BY <3>1, <2>1
  <2>4. DayLength * p = DayLength * q + DayLength + DayLength * k
    BY <2>1, <2>3
  <2>5. DayLength * k >= 0
    BY <2>1, <2>3
  <2>6. DayLength * p \in Int /\ DayLength * q \in Int
    BY <2>1
  <2> QED
    BY <2>2, <2>4, <2>5, <2>6, <2>1
<1> QED
  BY <1>1, <1>4
-----------------------------------------------------------------------------
\* What the core's operators leave of a row.
LEMMA ReadTyped ==
  ASSUME Typed, NEW t \in Nat
  PROVE  /\ ReadAt(usage, t) \in Rows
         /\ ReadAt(usage, t).events = {e \in usage.events : e.at + Window > t}
         /\ ReadAt(usage, t).day = Day(t)
         /\ ReadAt(usage, t).daily = IF usage.day = Day(t) THEN usage.daily ELSE 0
         /\ ReadAt(usage, t).notBefore = usage.notBefore
         /\ IsFiniteSet(ReadAt(usage, t).events)
         /\ Cardinality(ReadAt(usage, t).events) <= Cardinality(usage.events)
<1>1. ReadAt(usage, t).events = {e \in usage.events : e.at + Window > t}
  BY DEF ReadAt, Typed
<1>2. Day(t) \in Nat
  BY DayGrows
<1>3. ReadAt(usage, t).events \subseteq usage.events
  BY <1>1
<1>4. IsFiniteSet(ReadAt(usage, t).events)
      /\ Cardinality(ReadAt(usage, t).events) <= Cardinality(usage.events)
  BY <1>3, FS_Subset DEF Typed
<1> DEFINE S == {e \in usage.events : e.at + Window > t}
           n == IF usage.day = Day(t) THEN usage.daily ELSE 0
<1>5. usage \in Rows /\ S \in SUBSET Events /\ n \in Nat
  BY DEF Typed, Rows
<1>6. ReadAt(usage, t) = [events |-> S, day |-> Day(t), daily |-> n, notBefore |-> usage.notBefore]
  BY DEF ReadAt
<1>7. usage.notBefore \in Nat
  BY <1>5 DEF Rows
<1>8. ReadAt(usage, t) \in Rows
  <2> HIDE DEF S, n
  <2> QED
    BY <1>2, <1>5, <1>6, <1>7 DEF Rows
<1> QED
  BY <1>1, <1>4, <1>6, <1>8

LEMMA CountedTyped ==
  ASSUME Typed, NEW w \in Workers, NEW t \in Nat
  PROVE  LET read == ReadAt(usage, t)
             new  == Counted(read, id[w], t, need[w])
         IN  /\ new \in Rows
             /\ new.events = read.events \cup {[id |-> id[w], at |-> t, tokens |-> need[w]]}
             /\ new.day = read.day /\ new.daily = read.daily + 1 /\ new.notBefore = read.notBefore
             /\ IsFiniteSet(new.events)
             /\ Cardinality(new.events) <= Cardinality(read.events) + 1
<1> DEFINE read == ReadAt(usage, t)
           event == [id |-> id[w], at |-> t, tokens |-> need[w]]
<1>1. /\ read \in Rows
      /\ IsFiniteSet(read.events)
  BY ReadTyped
<1>2. event \in Events
  BY DEF Typed, Events
<1>3. IsFiniteSet(read.events \cup {event})
      /\ Cardinality(read.events \cup {event}) <= Cardinality(read.events) + 1
  <2> HIDE DEF read, event
  <2>1. IsFiniteSet(read.events \cup {event})
        /\ Cardinality(read.events \cup {event}) =
             IF event \in read.events THEN Cardinality(read.events) ELSE Cardinality(read.events) + 1
    BY <1>1, FS_AddElement
  <2>2. Cardinality(read.events) \in Nat
    BY <1>1, FS_CardinalityType
  <2> QED
    BY <2>1, <2>2
<1> DEFINE fuller == [read EXCEPT !.events = read.events \cup {event}]
<1>4. Counted(read, id[w], t, need[w]) = [fuller EXCEPT !.daily = fuller.daily + 1]
  BY <1>1 DEF Counted, Rows
<1> HIDE DEF read, event
<1>5. fuller \in Rows /\ fuller.events = read.events \cup {event} /\ fuller.day = read.day
      /\ fuller.daily = read.daily /\ fuller.notBefore = read.notBefore
  BY <1>1, <1>2 DEF Rows
<1> HIDE DEF fuller
<1>6. /\ Counted(read, id[w], t, need[w]) \in Rows
      /\ Counted(read, id[w], t, need[w]).events = read.events \cup {event}
      /\ Counted(read, id[w], t, need[w]).day = read.day
      /\ Counted(read, id[w], t, need[w]).daily = read.daily + 1
      /\ Counted(read, id[w], t, need[w]).notBefore = read.notBefore
  BY <1>4, <1>5 DEF Rows
<1> QED
  BY <1>3, <1>6 DEF read, event

LEMMA SettledTyped ==
  ASSUME Typed, NEW i, NEW n \in Int
  PROVE  LET new == SettledAs(usage, i, n) IN
         /\ new \in Rows
         /\ new.day = usage.day /\ new.daily = usage.daily /\ new.notBefore = usage.notBefore
         /\ IsFiniteSet(new.events)
         /\ Cardinality(new.events) <= Cardinality(usage.events)
         /\ \A e \in usage.events : \E f \in new.events : f.id = e.id /\ f.at = e.at
<1> DEFINE S == usage.events
           as(e) == IF e.id = i THEN [e EXCEPT !.tokens = n] ELSE e
           T == {as(e) : e \in S}
           f == [e \in S |-> as(e)]
<1>1. S \in SUBSET Events /\ IsFiniteSet(S)
  BY DEF Typed, Rows
<1>2. \A e \in S : as(e) \in Events /\ as(e).id = e.id /\ as(e).at = e.at
  BY <1>1 DEF Events
<1>3. f \in Surjection(S, T)
  BY DEF Surjection
<1>4. IsFiniteSet(T) /\ Cardinality(T) <= Cardinality(S)
  <2> HIDE DEF S, T, f
  <2> QED
    BY <1>1, <1>3, FS_Surjection
<1>5. SettledAs(usage, i, n) = [usage EXCEPT !.events = T]
  BY DEF SettledAs
<1>6. T \in SUBSET Events /\ \A e \in S : \E g \in T : g.id = e.id /\ g.at = e.at
  BY <1>2
<1>7. usage \in Rows
  BY DEF Typed
<1> HIDE DEF T
<1> QED
  BY <1>4, <1>5, <1>6, <1>7 DEF Rows

LEMMA PausedTyped ==
  ASSUME Typed, NEW until \in Nat, Pauses(until)
  PROVE  /\ usage' \in Rows
         /\ usage'.events = usage.events /\ usage'.day = usage.day /\ usage'.daily = usage.daily
         /\ paused' \in Nat
         /\ usage.notBefore = paused => usage'.notBefore = paused'
BY DEF Typed, Rows, Pauses, Paused, Later
-----------------------------------------------------------------------------
LEMMA TypedNext ==
  ASSUME Typed, [Next]_vars
  PROVE  Typed'
<1> USE ProviderAssumption, AdmissionAssumption
<1>1. ASSUME NEW w \in Workers, Ask(w) PROVE Typed'
  BY <1>1 DEF Ask, At, Typed, States
<1>2. ASSUME NEW w \in Workers, Enter(w) PROVE Typed'
  BY <1>2 DEF Enter, At, Typed, States
<1>3. ASSUME NEW w \in Workers, Expire(w) PROVE Typed'
  BY <1>3 DEF Expire, Leaves, At, Typed, States, Unknown
<1>4. ASSUME NEW w \in Workers, CountRefused(w) PROVE Typed'
  <2>1. CASE \E wait \in Refusals : Pauses(clock + wait) /\ UNCHANGED faults
    <3>1. PICK wait \in Refusals : Pauses(clock + wait) /\ UNCHANGED faults
      BY <2>1
    <3>2. clock + wait \in Nat
      BY DEF Typed
    <3> HIDE DEF Pauses
    <3> QED
      BY <1>4, <3>1, <3>2, PausedTyped DEF CountRefused, Leaves, At, Typed, States, Unknown
  <2>2. CASE Unsaved
    BY <1>4, <2>2 DEF CountRefused, Unsaved, Leaves, At, Typed, States, Unknown
  <2> QED
    BY <1>4, <2>1, <2>2 DEF CountRefused
<1>5. ASSUME NEW w \in Workers, ReadClock(w) PROVE Typed'
  BY <1>5 DEF ReadClock, At, Typed, States
<1>6. ASSUME NEW w \in Workers, Admit(w) PROVE Typed'
  <2> DEFINE read == ReadAt(usage, now[w])
             delay == DelayOf(read, now[w], need[w])
  <2>0. now[w] \in Nat
    BY DEF Typed
  <2>1. CASE DayIsSpent(read) /\ Leaves(w) /\ UNCHANGED <<usage, paused, faults>>
    BY <1>6, <2>1 DEF Admit, Leaves, At, Typed, States, Unknown
  <2>2. CASE /\ usage' = read
             /\ At(w, "asleep") /\ now' = [now EXCEPT ![w] = 0]
             /\ UNCHANGED <<free, id, need, deadline, used, paused, faults>>
    <3> HIDE DEF delay
    <3> QED
      BY <1>6, <2>0, <2>2, ReadTyped DEF Admit, At, Typed, States
  <2>3. CASE /\ usage' = Counted(read, id[w], now[w], need[w])
             /\ At(w, "send")
             /\ UNCHANGED <<free, id, need, deadline, now, wake, used, paused, faults>>
    BY <1>6, <2>0, <2>3, CountedTyped DEF Admit, At, Typed, States
  <2>4. CASE Unsaved /\ Leaves(w)
    BY <1>6, <2>4 DEF Admit, Unsaved, Leaves, At, Typed, States, Unknown
  <2> QED
    BY <1>6, <2>1, <2>2, <2>3, <2>4 DEF Admit
<1>7. ASSUME NEW w \in Workers, Wake(w) PROVE Typed'
  BY <1>7 DEF Wake, At, Typed, States
<1>8. ASSUME NEW w \in Workers, Send(w) PROVE Typed'
  <2>1. pc' \in [Workers -> States] /\ now' \in [Workers -> Nat]
    BY <1>8 DEF Send, At, Typed, States
  <2>2. sends' \in SUBSET Sends /\ IsFiniteSet(sends')
    <3>1. CASE UNCHANGED sends
      BY <3>1 DEF Typed
    <3>2. CASE \E uses \in 1 .. need[w] : sends' = sends \cup {[id |-> id[w], at |-> clock, uses |-> uses]}
      <4>1. PICK uses \in 1 .. need[w] : sends' = sends \cup {[id |-> id[w], at |-> clock, uses |-> uses]}
        BY <3>2
      <4>2. IsFiniteSet(sends')
        BY <4>1, FS_AddElement DEF Typed
      <4> QED
        BY <4>1, <4>2 DEF Typed, Sends
    <3> QED
      BY <1>8, <3>1, <3>2 DEF Send
  <2> QED
    BY <1>8, <2>1, <2>2 DEF Send, Typed
<1>9. ASSUME NEW w \in Workers, Answered(w) PROVE Typed'
  BY <1>9 DEF Answered, At, Typed, States, Sends
<1>10. ASSUME NEW w \in Workers, CoolDown(w) PROVE Typed'
  <2>1. CASE \E wait \in Refusals : Pauses(clock + wait) /\ UNCHANGED faults
    <3>1. PICK wait \in Refusals : Pauses(clock + wait) /\ UNCHANGED faults
      BY <2>1
    <3>2. clock + wait \in Nat
      BY DEF Typed
    <3> QED
      BY <1>10, <3>1, <3>2, PausedTyped DEF CoolDown, At, Typed, States
  <2>2. CASE Unsaved
    BY <1>10, <2>2 DEF CoolDown, Unsaved, At, Typed, States
  <2> QED
    BY <1>10, <2>1, <2>2 DEF CoolDown
<1>11. ASSUME NEW w \in Workers, Settle(w) PROVE Typed'
  <2>1. CASE /\ usage' = SettledAs(usage, id[w], IF used[w] = Unknown THEN 0 ELSE used[w])
             /\ UNCHANGED <<paused, faults>>
    <3>1. (IF used[w] = Unknown THEN 0 ELSE used[w]) \in Int
      BY DEF Typed
    <3> QED
      BY <1>11, <2>1, <3>1, SettledTyped DEF Settle, Leaves, At, Typed, States, Unknown
  <2>2. CASE Pauses(clock + Window) /\ UNCHANGED faults
    <3>1. clock + Window \in Nat
      BY DEF Typed
    <3> QED
      BY <1>11, <2>2, <3>1, PausedTyped DEF Settle, Leaves, At, Typed, States, Unknown
  <2>3. CASE Unsaved
    BY <1>11, <2>3 DEF Settle, Unsaved, Leaves, At, Typed, States, Unknown
  <2> QED
    BY <1>11, <2>1, <2>2, <2>3 DEF Settle
<1>12. CASE Crash
  BY <1>12 DEF Crash, Typed, States, Unknown
<1>13. CASE Tick
  <2>1. sends' \subseteq sends
    BY <1>13 DEF Tick
  <2>2. IsFiniteSet(sends')
    BY <2>1, FS_Subset DEF Typed
  <2> QED
    BY <1>13, <2>1, <2>2 DEF Tick, own, Typed
<1>14. CASE UNCHANGED vars
  BY <1>14 DEF vars, own, Typed
<1> QED
  BY <1>1, <1>2, <1>3, <1>4, <1>5, <1>6, <1>7, <1>8, <1>9, <1>10, <1>11, <1>12, <1>13, <1>14 DEF Next, Work
-----------------------------------------------------------------------------
Using == {w \in Workers : pc[w] \notin {"idle", "queued"}}

\* What a step of one thread does to the threads that hold a slot.
LEMMA UsingMoves ==
  ASSUME Typed, NEW w \in Workers, NEW x \in States, pc' = [pc EXCEPT ![w] = x]
  PROVE  /\ IsFiniteSet(Using) /\ Cardinality(Using) \in Nat /\ Cardinality(Using') \in Nat
         /\ w \in Using /\ x \in {"idle", "queued"} => Cardinality(Using') = Cardinality(Using) - 1
         /\ w \notin Using /\ x \notin {"idle", "queued"} => Cardinality(Using') = Cardinality(Using) + 1
         /\ (w \in Using <=> x \notin {"idle", "queued"}) => Cardinality(Using') = Cardinality(Using)
<1>1. IsFiniteSet(Using)
  <2>1. Using \subseteq Workers
    BY DEF Using
  <2> QED
    BY <2>1, FS_Subset, ProviderAssumption
<1>2. Using' = IF x \in {"idle", "queued"} THEN Using \ {w} ELSE Using \cup {w}
  BY DEF Using, Typed
<1>3. /\ IsFiniteSet(Using \ {w}) /\ IsFiniteSet(Using \cup {w})
      /\ Cardinality(Using \ {w}) = IF w \in Using THEN Cardinality(Using) - 1 ELSE Cardinality(Using)
      /\ Cardinality(Using \cup {w}) = IF w \in Using THEN Cardinality(Using) ELSE Cardinality(Using) + 1
  BY <1>1, FS_AddElement, FS_RemoveElement
<1>4. Cardinality(Using) \in Nat /\ Cardinality(Using') \in Nat
  BY <1>1, <1>2, <1>3, FS_CardinalityType
<1> QED
  BY <1>1, <1>2, <1>3, <1>4

LEMMA SlotsNext ==
  ASSUME Typed, SlotsReturn, [Next]_vars
  PROVE  SlotsReturn'
<1>0. free + Cardinality(Using) = Slots /\ free \in Nat
  BY DEF SlotsReturn, Using, Typed
<1>1. SlotsReturn' <=> free' + Cardinality(Using') = Slots
  BY DEF SlotsReturn, Using
<1>2. ASSUME NEW w \in Workers, NEW x \in States, At(w, x), free' = free,
             w \in Using <=> x \notin {"idle", "queued"}
      PROVE  SlotsReturn'
  BY <1>0, <1>1, <1>2, UsingMoves DEF At
<1>3. ASSUME NEW w \in Workers, Leaves(w), pc[w] # "idle"
      PROVE  SlotsReturn'
  <2>1. pc' = [pc EXCEPT ![w] = "idle"] /\ "idle" \in States
        /\ free' = IF w \in Using THEN free + 1 ELSE free
    BY <1>3 DEF Leaves, At, Using, Typed, States
  <2>2. /\ Cardinality(Using) \in Nat
        /\ Cardinality(Using') = IF w \in Using THEN Cardinality(Using) - 1 ELSE Cardinality(Using)
    BY <2>1, UsingMoves
  <2> QED
    BY <1>0, <1>1, <2>1, <2>2, ProviderAssumption
<1>4. ASSUME NEW w \in Workers, Enter(w) PROVE SlotsReturn'
  <2>1. pc' = [pc EXCEPT ![w] = "count"] /\ "count" \in States /\ w \notin Using /\ free' = free - 1
    BY <1>4 DEF Enter, At, Using, States
  <2>2. Cardinality(Using) \in Nat /\ Cardinality(Using') = Cardinality(Using) + 1
    BY <2>1, UsingMoves
  <2> QED
    BY <1>0, <1>1, <2>1, <2>2, ProviderAssumption
<1>5. ASSUME NEW w \in Workers, Ask(w) PROVE SlotsReturn'
  BY <1>2, <1>5 DEF Ask, Using, States
<1>6. ASSUME NEW w \in Workers, Expire(w) PROVE SlotsReturn'
  BY <1>3, <1>6 DEF Expire
<1>7. ASSUME NEW w \in Workers, CountRefused(w) PROVE SlotsReturn'
  BY <1>3, <1>7 DEF CountRefused
<1>8. ASSUME NEW w \in Workers, ReadClock(w) PROVE SlotsReturn'
  BY <1>2, <1>8 DEF ReadClock, Using, States
<1>9. ASSUME NEW w \in Workers, Admit(w) PROVE SlotsReturn'
  <2>1. CASE Leaves(w)
    BY <1>3, <1>9, <2>1 DEF Admit
  <2>2. CASE (At(w, "asleep") \/ At(w, "send")) /\ free' = free
    BY <1>2, <1>9, <2>2 DEF Admit, Using, States
  <2> QED
    BY <1>9, <2>1, <2>2 DEF Admit
<1>10. ASSUME NEW w \in Workers, Wake(w) PROVE SlotsReturn'
  BY <1>2, <1>10 DEF Wake, Using, States
<1>11. ASSUME NEW w \in Workers, Send(w) PROVE SlotsReturn'
  BY <1>2, <1>11 DEF Send, Using, States
<1>12. ASSUME NEW w \in Workers, Answered(w) PROVE SlotsReturn'
  BY <1>2, <1>12 DEF Answered, Using, States
<1>13. ASSUME NEW w \in Workers, CoolDown(w) PROVE SlotsReturn'
  BY <1>2, <1>13 DEF CoolDown, Using, States
<1>14. ASSUME NEW w \in Workers, Settle(w) PROVE SlotsReturn'
  BY <1>3, <1>14 DEF Settle
<1>15. CASE Crash
  <2>1. free' = Slots /\ Using' = {}
    BY <1>15 DEF Crash, Using
  <2>2. Cardinality({}) = 0
    BY FS_EmptySet
  <2> QED
    BY <1>1, <2>1, <2>2, ProviderAssumption
<1>16. CASE Tick \/ UNCHANGED vars
  BY <1>16 DEF Tick, vars, own, SlotsReturn
<1> QED
  BY <1>4, <1>5, <1>6, <1>7, <1>8, <1>9, <1>10, <1>11, <1>12, <1>13, <1>14, <1>15, <1>16 DEF Next, Work
-----------------------------------------------------------------------------
LEMMA PauseNext ==
  ASSUME Typed, PauseIsSaved, [Next]_vars
  PROVE  PauseIsSaved'
<1>1. ASSUME NEW until \in Nat, Pauses(until) PROVE PauseIsSaved'
  BY <1>1, PausedTyped DEF PauseIsSaved
<1>2. CASE UNCHANGED <<usage, paused>>
  BY <1>2 DEF PauseIsSaved
<1>3. \A wait \in Refusals \cup {Window} : clock + wait \in Nat
  BY ProviderAssumption, AdmissionAssumption DEF Typed
<1>4. ASSUME NEW w \in Workers, Admit(w) PROVE PauseIsSaved'
  <2>1. now[w] \in Nat
    BY DEF Typed
  <2>2. usage' \in {usage, ReadAt(usage, now[w]), Counted(ReadAt(usage, now[w]), id[w], now[w], need[w])}
        /\ paused' = paused
    BY <1>4 DEF Admit, Unsaved
  <2> QED
    BY <2>1, <2>2, ReadTyped, CountedTyped DEF PauseIsSaved
<1>5. ASSUME NEW w \in Workers, Settle(w) PROVE PauseIsSaved'
  <2>1. CASE /\ usage' = SettledAs(usage, id[w], IF used[w] = Unknown THEN 0 ELSE used[w])
             /\ UNCHANGED paused
    <3>1. (IF used[w] = Unknown THEN 0 ELSE used[w]) \in Int
      BY DEF Typed
    <3> QED
      BY <2>1, <3>1, SettledTyped DEF PauseIsSaved
  <2> QED
    BY <1>1, <1>2, <1>3, <1>5, <2>1 DEF Settle, Unsaved
<1>6. ASSUME NEW w \in Workers, CountRefused(w) \/ CoolDown(w) PROVE PauseIsSaved'
  BY <1>1, <1>2, <1>3, <1>6 DEF CountRefused, CoolDown, Unsaved
<1> QED
  BY <1>2, <1>4, <1>5, <1>6 DEF Next, Work, Ask, Enter, Expire, ReadClock, Wake, Send, Answered, Crash, Tick, vars
-----------------------------------------------------------------------------
LEMMA LimitIsPositive ==
  ASSUME NEW n \in Nat
  PROVE  Limit(n) \in Nat /\ (n # 0 => Limit(n) > 0)
BY DEF Limit

LEMMA LeastIsThere ==
  ASSUME NEW S \in SUBSET Nat, S # {}
  PROVE  \E l \in S : \A n \in S : l <= n
<1> DEFINE Less == {pair \in Nat \X Nat : pair[1] < pair[2]}
<1>1. IsWellFoundedOn(Less, Nat)
  BY NatLessThanWellFounded DEF OpToRel
<1>2. \A x, y \in Nat : y < x => <<y, x>> \in Less
  OBVIOUS
<1> HIDE DEF Less
<1>3. PICK l \in S : \A y \in S : ~ (<<y, l>> \in Less)
  BY <1>1, WFMin
<1>4. \A y \in S : ~(y < l)
  BY <1>2, <1>3
<1> QED
  BY <1>4

LEMMA MinIsThere ==
  ASSUME NEW S \in SUBSET Nat, S # {}
  PROVE  Min(S) \in S
BY LeastIsThere DEF Min

\* A request is admitted only when the row has a place for it.
LEMMA AdmittedHasPlace ==
  ASSUME Typed, NEW w \in Workers, Rpm # 0,
         DelayOf(ReadAt(usage, now[w]), now[w], need[w]) = 0
  PROVE  Cardinality(ReadAt(usage, now[w]).events) < Limit(Rpm)
<1> DEFINE read == ReadAt(usage, now[w])
           ends == {e.at : e \in read.events}
           pause == Later(read.notBefore - now[w], 0)
<1>1. /\ now[w] \in Nat
      /\ read \in Rows /\ read.events = {e \in usage.events : e.at + Window > now[w]}
      /\ IsFiniteSet(read.events)
  BY ReadTyped DEF Typed
<1>2. Cardinality(read.events) \in Nat /\ Limit(Rpm) \in Nat /\ Limit(Rpm) > 0
  BY <1>1, FS_CardinalityType, LimitIsPositive, AdmissionAssumption
<1>3. SUFFICES ASSUME Cardinality(read.events) >= Limit(Rpm) PROVE FALSE
  BY <1>2
<1>4. IsFull(read, need[w])
  BY <1>3 DEF IsFull
<1>5. read.events # {}
  BY <1>2, <1>3, FS_EmptySet
<1>6. \A e \in read.events : e.at \in Nat /\ e.at + Window > now[w]
  BY <1>1 DEF Rows, Events
<1>7. ends \in SUBSET Nat /\ ends # {} /\ \A n \in ends : n + Window > now[w]
  BY <1>5, <1>6
<1>8. Min(ends) \in Nat /\ Min(ends) + Window > now[w]
  BY <1>7, MinIsThere
<1>9. pause \in Nat
  BY <1>1 DEF Later, Rows
<1>10. DelayOf(read, now[w], need[w]) = Later(pause, Min(ends) + Window - now[w])
  BY <1>4 DEF DelayOf
<1> HIDE DEF ends, pause, read
<1>11. Later(pause, Min(ends) + Window - now[w]) > 0
  BY <1>1, <1>8, <1>9, AdmissionAssumption DEF Later
<1> QED
  BY <1>10, <1>11 DEF read

\* No step drops an event that is still within the window.
KeepsRecent ==
  \A e \in usage.events : e.at + Window > clock =>
    \E f \in usage'.events : f.id = e.id /\ f.at = e.at

LEMMA RecentAreKept ==
  ASSUME Typed, ReadsAreRecent, [Next]_vars
  PROVE  KeepsRecent
<1>1. CASE UNCHANGED usage
  BY <1>1 DEF KeepsRecent
<1>2. ASSUME NEW until \in Nat, Pauses(until) PROVE KeepsRecent
  BY <1>2, PausedTyped DEF KeepsRecent
<1>3. \A wait \in Refusals \cup {Window} : clock + wait \in Nat
  BY ProviderAssumption, AdmissionAssumption DEF Typed
<1>4. ASSUME NEW w \in Workers, Admit(w) PROVE KeepsRecent
  <2>1. now[w] \in Nat /\ now[w] <= clock /\ clock \in Nat
    BY <1>4 DEF Admit, ReadsAreRecent, Typed
  <2>2. \A e \in usage.events : e.at \in Nat
    BY DEF Typed, Rows, Events
  <2>3. ReadAt(usage, now[w]).events \subseteq usage'.events \/ usage' = usage
    BY <1>4, <2>1, CountedTyped DEF Admit, Unsaved
  <2>4. ReadAt(usage, now[w]).events = {e \in usage.events : e.at + Window > now[w]}
    BY <2>1, ReadTyped
  <2> QED
    BY <2>1, <2>2, <2>3, <2>4, AdmissionAssumption DEF KeepsRecent
<1>5. ASSUME NEW w \in Workers, Settle(w) PROVE KeepsRecent
  <2>1. CASE usage' = SettledAs(usage, id[w], IF used[w] = Unknown THEN 0 ELSE used[w])
    <3>1. (IF used[w] = Unknown THEN 0 ELSE used[w]) \in Int
      BY DEF Typed
    <3> QED
      BY <2>1, <3>1, SettledTyped DEF KeepsRecent
  <2> QED
    BY <1>1, <1>2, <1>3, <1>5, <2>1 DEF Settle, Unsaved
<1>6. ASSUME NEW w \in Workers, CountRefused(w) \/ CoolDown(w) PROVE KeepsRecent
  BY <1>1, <1>2, <1>3, <1>6 DEF CountRefused, CoolDown, Unsaved
<1> QED
  BY <1>1, <1>4, <1>5, <1>6 DEF Next, Work, Ask, Enter, Expire, ReadClock, Wake, Send, Answered, Crash, Tick, vars

LEMMA RowNext ==
  ASSUME Typed, RowFits, [Next]_vars
  PROVE  RowFits'
<1>0. IsFiniteSet(usage.events) /\ Cardinality(usage.events) \in Nat /\ Limit(Rpm) \in Nat
  BY FS_CardinalityType, LimitIsPositive, AdmissionAssumption DEF Typed
<1>1. ASSUME IsFiniteSet(usage'.events), Cardinality(usage'.events) <= Cardinality(usage.events)
      PROVE  RowFits'
  <2>1. Cardinality(usage'.events) \in Nat
    BY <1>1, FS_CardinalityType
  <2> QED
    BY <1>0, <1>1, <2>1 DEF RowFits
<1>2. ASSUME NEW until \in Nat, Pauses(until) PROVE RowFits'
  BY <1>2, PausedTyped DEF RowFits
<1>3. \A wait \in Refusals \cup {Window} : clock + wait \in Nat
  BY ProviderAssumption, AdmissionAssumption DEF Typed
<1>4. ASSUME NEW w \in Workers, Admit(w) PROVE RowFits'
  <2> DEFINE read == ReadAt(usage, now[w])
  <2>1. now[w] \in Nat
    BY DEF Typed
  <2>2. CASE usage' \in {usage, read}
    BY <1>0, <1>1, <2>1, <2>2, ReadTyped
  <2>3. CASE DelayOf(read, now[w], need[w]) = 0 /\ usage' = Counted(read, id[w], now[w], need[w])
    <3>1. /\ IsFiniteSet(read.events) /\ IsFiniteSet(usage'.events)
          /\ Cardinality(usage'.events) <= Cardinality(read.events) + 1
      BY <2>1, <2>3, ReadTyped, CountedTyped
    <3>2. Cardinality(read.events) \in Nat /\ Cardinality(usage'.events) \in Nat
      BY <3>1, FS_CardinalityType
    <3>3. Rpm # 0 => Cardinality(read.events) < Limit(Rpm)
      BY <2>3, AdmittedHasPlace
    <3> QED
      BY <1>0, <3>1, <3>2, <3>3 DEF RowFits
  <2> QED
    BY <1>4, <2>2, <2>3 DEF Admit, Unsaved
<1>5. ASSUME NEW w \in Workers, Settle(w) PROVE RowFits'
  <2>1. CASE usage' = SettledAs(usage, id[w], IF used[w] = Unknown THEN 0 ELSE used[w])
    <3>1. (IF used[w] = Unknown THEN 0 ELSE used[w]) \in Int
      BY DEF Typed
    <3> QED
      BY <1>1, <2>1, <3>1, SettledTyped
  <2>2. CASE UNCHANGED usage
    BY <2>2 DEF RowFits
  <2> QED
    BY <1>2, <1>3, <1>5, <2>1, <2>2 DEF Settle, Unsaved
<1>6. ASSUME NEW w \in Workers, CountRefused(w) \/ CoolDown(w) PROVE RowFits'
  BY <1>2, <1>3, <1>6 DEF CountRefused, CoolDown, Unsaved, RowFits
<1>7. CASE UNCHANGED usage
  BY <1>7 DEF RowFits
<1> QED
  BY <1>4, <1>5, <1>6, <1>7 DEF Next, Work, Ask, Enter, Expire, ReadClock, Wake, Send, Answered, Crash, Tick, vars
-----------------------------------------------------------------------------
LEMMA RecentNext ==
  ASSUME Typed, ReadsAreRecent, [Next]_vars
  PROVE  ReadsAreRecent'
<1>0. Lag \in Nat
  BY ProviderAssumption, AdmissionAssumption
<1>1. ASSUME NEW w \in Workers, NEW x \in States \ {"admit", "send"}, At(w, x), clock' = clock,
             \A v \in Workers \ {w} : now'[v] = now[v]
      PROVE  ReadsAreRecent'
  BY <1>1 DEF At, ReadsAreRecent, Typed
<1>2. ASSUME NEW w \in Workers, Leaves(w), clock' = clock
      PROVE  ReadsAreRecent'
  <2>1. At(w, "idle") /\ \A v \in Workers \ {w} : now'[v] = now[v]
    BY <1>2 DEF Leaves, Typed
  <2> QED
    BY <1>1, <1>2, <2>1 DEF States
<1>3. ASSUME NEW w \in Workers, ReadClock(w) PROVE ReadsAreRecent'
  BY <1>0, <1>3 DEF ReadClock, At, ReadsAreRecent, Typed
<1>4. ASSUME NEW w \in Workers, Admit(w) PROVE ReadsAreRecent'
  <2>1. CASE Leaves(w)
    BY <1>2, <1>4, <2>1 DEF Admit
  <2>2. CASE At(w, "asleep") /\ now' = [now EXCEPT ![w] = 0]
    <3>1. \A v \in Workers \ {w} : now'[v] = now[v]
      BY <2>2 DEF Typed
    <3> QED
      BY <1>1, <1>4, <2>2, <3>1 DEF Admit, States
  <2>3. CASE At(w, "send") /\ UNCHANGED now
    BY <1>4, <2>3 DEF Admit, At, ReadsAreRecent, Typed
  <2> QED
    BY <1>4, <2>1, <2>2, <2>3 DEF Admit
<1>5. ASSUME NEW w \in Workers, Send(w) PROVE ReadsAreRecent'
  <2>1. \A v \in Workers \ {w} : now'[v] = now[v]
    BY <1>5 DEF Send, Typed
  <2> QED
    BY <1>1, <1>5, <2>1 DEF Send, States
<1>6. ASSUME NEW w \in Workers, Ask(w) \/ Enter(w) \/ Wake(w) \/ Answered(w) \/ CoolDown(w)
      PROVE  ReadsAreRecent'
  <2>1. UNCHANGED now /\ clock' = clock
    BY <1>6 DEF Ask, Enter, Wake, Answered, CoolDown
  <2>2. At(w, "queued") \/ At(w, "count") \/ At(w, "read") \/ At(w, "settle") \/ At(w, "refused")
    BY <1>6 DEF Ask, Enter, Wake, Answered, CoolDown
  <2> QED
    BY <1>1, <2>1, <2>2 DEF States
<1>7. ASSUME NEW w \in Workers, Expire(w) \/ CountRefused(w) \/ Settle(w) PROVE ReadsAreRecent'
  BY <1>2, <1>7 DEF Expire, CountRefused, Settle
<1>8. CASE Crash
  BY <1>8 DEF Crash, ReadsAreRecent
<1>9. CASE Tick
  BY <1>0, <1>9 DEF Tick, own, ReadsAreRecent, Typed
<1>10. CASE UNCHANGED vars
  BY <1>10 DEF vars, own, ReadsAreRecent
<1> QED
  BY <1>3, <1>4, <1>5, <1>6, <1>7, <1>8, <1>9, <1>10 DEF Next, Work

LEMMA IdsNext ==
  ASSUME Typed, IdsAreFresh, [Next]_vars
  PROVE  IdsAreFresh'
<1>1. ASSUME NEW w \in Workers, NEW x \in States, At(w, x), UNCHANGED <<id, requests, sends>>,
             pc[w] # "idle", pc[w] \in Unsent \/ x \notin Unsent
      PROVE  IdsAreFresh'
  BY <1>1 DEF At, IdsAreFresh, Typed
<1>2. ASSUME NEW w \in Workers, Leaves(w), UNCHANGED <<requests, sends>>
      PROVE  IdsAreFresh'
  BY <1>2 DEF Leaves, At, IdsAreFresh, Unsent, Typed
<1>3. ASSUME NEW w \in Workers, Ask(w) PROVE IdsAreFresh'
  BY <1>3 DEF Ask, At, IdsAreFresh, Unsent, Typed, Sends
<1>4. ASSUME NEW w \in Workers, Admit(w) PROVE IdsAreFresh'
  <2>1. CASE Leaves(w)
    BY <1>2, <1>4, <2>1 DEF Admit
  <2>2. CASE (At(w, "asleep") \/ At(w, "send")) /\ UNCHANGED id
    BY <1>1, <1>4, <2>2 DEF Admit, States, Unsent
  <2> QED
    BY <1>4, <2>1, <2>2 DEF Admit
<1>5. ASSUME NEW w \in Workers, Send(w) PROVE IdsAreFresh'
  <2>1. CASE UNCHANGED sends
    BY <1>1, <1>5, <2>1 DEF Send, States, Unsent
  <2>2. CASE At(w, "sent") /\ \E uses \in 1 .. need[w] :
               sends' = sends \cup {[id |-> id[w], at |-> clock, uses |-> uses]}
    BY <1>5, <2>2 DEF Send, At, IdsAreFresh, Unsent, Typed, Sends
  <2> QED
    BY <1>5, <2>1, <2>2 DEF Send
<1>6. ASSUME NEW w \in Workers, Enter(w) \/ ReadClock(w) \/ Wake(w) PROVE IdsAreFresh'
  BY <1>1, <1>6 DEF Enter, ReadClock, Wake, States, Unsent
<1>7. ASSUME NEW w \in Workers, Answered(w) \/ CoolDown(w) PROVE IdsAreFresh'
  BY <1>1, <1>7 DEF Answered, CoolDown, States, Unsent
<1>8. ASSUME NEW w \in Workers, Expire(w) \/ CountRefused(w) \/ Settle(w) PROVE IdsAreFresh'
  BY <1>2, <1>8 DEF Expire, CountRefused, Settle
<1>9. CASE Crash
  BY <1>9 DEF Crash, IdsAreFresh, Unsent
<1>10. CASE Tick
  BY <1>10 DEF Tick, own, IdsAreFresh
<1>11. CASE UNCHANGED vars
  BY <1>11 DEF vars, own, IdsAreFresh
<1> QED
  BY <1>3, <1>4, <1>5, <1>6, <1>7, <1>8, <1>9, <1>10, <1>11 DEF Next, Work

LEMMA AdmittedNext ==
  ASSUME Typed, ReadsAreRecent, AdmittedAreCounted, [Next]_vars
  PROVE  AdmittedAreCounted'
<1>1. KeepsRecent
  BY RecentAreKept
<1>2. ASSUME NEW v \in Workers, pc[v] = "send", id'[v] = id[v], now'[v] = now[v]
      PROVE  \E e \in usage'.events : e.id = id'[v] /\ e.at = now'[v]
  <2>1. PICK e \in usage.events : e.id = id[v] /\ e.at = now[v]
    BY <1>2 DEF AdmittedAreCounted
  <2>2. now[v] + Window > clock
    BY <1>2, ProviderAssumption, AdmissionAssumption DEF ReadsAreRecent, Typed
  <2> QED
    BY <1>1, <1>2, <2>1, <2>2 DEF KeepsRecent
<1>3. ASSUME NEW w \in Workers, Work(w) \/ Ask(w), pc'[w] # "send"
      PROVE  AdmittedAreCounted'
  <2>1. \A v \in Workers \ {w} : pc'[v] = pc[v] /\ id'[v] = id[v] /\ now'[v] = now[v]
    BY <1>3 DEF Work, Ask, Enter, Expire, CountRefused, ReadClock, Admit, Wake, Send, Answered,
                CoolDown, Settle, Leaves, At, Typed
  <2> QED
    BY <1>2, <1>3, <2>1 DEF AdmittedAreCounted
<1>4. ASSUME NEW w \in Workers, Work(w) \/ Ask(w), pc'[w] = "send"
      PROVE  AdmittedAreCounted'
  <2>1. /\ usage' = Counted(ReadAt(usage, now[w]), id[w], now[w], need[w])
        /\ UNCHANGED <<id, now>> /\ pc' = [pc EXCEPT ![w] = "send"]
    BY <1>4 DEF Work, Ask, Enter, Expire, CountRefused, ReadClock, Admit, Wake, Send, Answered,
                CoolDown, Settle, Leaves, At, Typed
  <2>2. [id |-> id[w], at |-> now[w], tokens |-> need[w]] \in usage'.events
    BY <2>1, CountedTyped DEF Typed
  <2>3. \E e \in usage'.events : e.id = id'[w] /\ e.at = now'[w]
    BY <2>1, <2>2
  <2> QED
    BY <1>2, <2>1, <2>3 DEF AdmittedAreCounted, Typed
<1>5. CASE Crash
  BY <1>5 DEF Crash, AdmittedAreCounted
<1>6. CASE Tick \/ UNCHANGED vars
  BY <1>2, <1>6 DEF Tick, vars, own, AdmittedAreCounted
<1> QED
  BY <1>3, <1>4, <1>5, <1>6 DEF Next

\* Steps that send nothing leave what was sent counted, and every minute as it was.
LEMMA NothingSent ==
  ASSUME Typed, Typed', ReadsAreRecent, SentAreCounted, RequestsFit, [Next]_vars, sends' \subseteq sends
  PROVE  SentAreCounted' /\ RequestsFit'
<1>0. clock \in Nat /\ clock' \in Nat /\ clock <= clock' /\ Lag \in Nat
  BY ProviderAssumption, AdmissionAssumption
     DEF Typed, Next, Work, Ask, Enter, Expire, CountRefused, ReadClock, Admit, Wake, Send, Answered,
         CoolDown, Settle, Crash, Tick, vars
<1>1. KeepsRecent
  BY RecentAreKept
<1>2. ASSUME NEW s \in sends', clock' + Lag < s.at + Window
      PROVE  \E e \in usage'.events : e.id = s.id /\ s.at <= e.at + Lag
  <2>1. s \in sends /\ s.at \in Nat
    BY DEF Typed, Sends
  <2>2. PICK e \in usage.events : e.id = s.id /\ s.at <= e.at + Lag
    BY <1>0, <1>2, <2>1, AdmissionAssumption DEF SentAreCounted
  <2>3. e.at \in Nat
    BY DEF Typed, Rows, Events
  <2>4. e.at + Window > clock
    BY <1>0, <1>2, <2>1, <2>2, <2>3, AdmissionAssumption
  <2> QED
    BY <1>1, <2>2, <2>4 DEF KeepsRecent
<1>3. ASSUME NEW t \in 0 .. MaxTime, Rpm # 0
      PROVE  Cardinality(SentInMinute(t)') <= Limit(Rpm)
  <2>1. SentInMinute(t)' \subseteq SentInMinute(t) /\ SentInMinute(t) \subseteq sends
    BY DEF SentInMinute
  <2>2. IsFiniteSet(SentInMinute(t))
    BY <2>1, FS_Subset DEF Typed
  <2>3. IsFiniteSet(SentInMinute(t)') /\ Cardinality(SentInMinute(t)') <= Cardinality(SentInMinute(t))
    BY <2>1, <2>2, FS_Subset
  <2>4. Cardinality(SentInMinute(t)) \in Nat /\ Cardinality(SentInMinute(t)') \in Nat
    BY <2>2, <2>3, FS_CardinalityType
  <2>5. Cardinality(SentInMinute(t)) <= Limit(Rpm)
    BY <1>3 DEF RequestsFit
  <2> QED
    BY <2>3, <2>4, <2>5, LimitIsPositive, AdmissionAssumption
<1> QED
  BY <1>2, <1>3 DEF SentAreCounted, RequestsFit

\* A request that is sent: every other one of its minute is still in the row,
\* and so is its own admission.
LEMMA OneSent ==
  ASSUME Typed, Typed', Budget, RequestsFit, [Next]_vars, NEW w \in Workers, Send(w), sends' # sends
  PROVE  SentAreCounted' /\ RequestsFit'
<1> DEFINE rows == usage.events
<1>0. PICK uses \in 1 .. need[w] : sends' = sends \cup {[id |-> id[w], at |-> clock, uses |-> uses]}
  BY DEF Send
<1> DEFINE new == [id |-> id[w], at |-> clock, uses |-> uses]
<1>1. usage' = usage /\ clock' = clock /\ pc[w] = "send"
  BY DEF Send
<1>2. PICK admitted \in rows : admitted.id = id[w] /\ admitted.at = now[w]
  BY <1>1 DEF Budget, AdmittedAreCounted
<1>3. clock \in Nat /\ now[w] \in Nat /\ clock <= now[w] + Lag /\ Lag \in Nat /\ Window \in Nat
  BY <1>1, ProviderAssumption, AdmissionAssumption DEF Budget, ReadsAreRecent, Typed
<1>4. \A s \in sends' : clock + Lag < s.at + Window =>
        \E e \in rows : e.id = s.id /\ s.at <= e.at + Lag
  BY <1>0, <1>2, <1>3 DEF Budget, SentAreCounted
<1>5. \A r, s \in sends' : r.id = s.id => r = s
  BY <1>0, <1>1 DEF Budget, IdsAreFresh, Unsent
<1>6. ASSUME NEW t \in 0 .. MaxTime, Rpm # 0
      PROVE  Cardinality(SentInMinute(t)') <= Limit(Rpm)
  <2>1. CASE new \in SentInMinute(t)'
    <3> DEFINE S == SentInMinute(t)'
               f == [s \in S |-> CHOOSE e \in rows : e.id = s.id]
    <3>1. t <= clock /\ S \subseteq sends' /\ \A s \in S : t <= s.at /\ s.at \in Nat /\ s.at < t + Window - Lag
      BY <2>1 DEF SentInMinute, Typed, Sends
    <3>2. clock < t + Window - Lag
      BY <1>1, <2>1 DEF SentInMinute
    <3>3. \A s \in S : clock + Lag < s.at + Window
      BY <1>3, <3>1, <3>2
    <3>4. \A s \in S : \E e \in rows : e.id = s.id
      BY <1>4, <3>1, <3>3
    <3>5. \A s \in S : f[s] \in rows /\ f[s].id = s.id
      BY <3>4
    <3>6. f \in Injection(S, rows)
      <4>1. f \in [S -> rows]
        BY <3>5
      <4>2. ASSUME NEW r \in S, NEW s \in S, f[r] = f[s] PROVE r = s
        BY <1>5, <3>1, <3>5, <4>2
      <4> HIDE DEF f, S, rows
      <4> QED
        BY <4>1, <4>2 DEF Injection, IsInjective
    <3>7. IsFiniteSet(rows)
      BY DEF Typed
    <3>8. IsFiniteSet(S) /\ Cardinality(S) <= Cardinality(rows)
      <4> HIDE DEF f, S, rows
      <4> QED
        BY <3>6, <3>7, FS_Injection
    <3>9. Cardinality(rows) <= Limit(Rpm)
      BY <1>6 DEF Budget, RowFits
    <3>10. Cardinality(S) \in Nat /\ Cardinality(rows) \in Nat /\ Limit(Rpm) \in Nat
      BY <3>7, <3>8, FS_CardinalityType, LimitIsPositive, AdmissionAssumption
    <3> HIDE DEF S, rows
    <3>11. Cardinality(S) <= Limit(Rpm)
      BY <3>8, <3>9, <3>10
    <3> QED
      BY <3>11 DEF S
  <2>2. CASE new \notin SentInMinute(t)'
    <3>1. SentInMinute(t)' = SentInMinute(t)
      BY <1>0, <2>2 DEF SentInMinute
    <3> QED
      BY <1>6, <3>1 DEF RequestsFit
  <2> QED
    BY <2>1, <2>2
<1> QED
  BY <1>1, <1>4, <1>6 DEF SentAreCounted, RequestsFit
-----------------------------------------------------------------------------
\* What a step of one thread does to what was counted on a day and to the
\* admissions that may cross a midnight.
OnlyMoves(w) == \A v \in Workers \ {w} : pc'[v] = pc[v] /\ now'[v] = now[v]

LEMMA SetMoves ==
  ASSUME NEW A, IsFiniteSet(A), NEW w, NEW B, B \ {w} = A \ {w}
  PROVE  /\ IsFiniteSet(B) /\ Cardinality(A) \in Nat /\ Cardinality(B) \in Nat
         /\ (w \in A <=> w \in B) => Cardinality(B) = Cardinality(A)
         /\ w \in A /\ w \notin B => Cardinality(B) = Cardinality(A) - 1
         /\ w \notin A /\ w \in B => Cardinality(B) = Cardinality(A) + 1
<1>0. /\ IsFiniteSet(A \ {w})
      /\ Cardinality(A \ {w}) = IF w \in A THEN Cardinality(A) - 1 ELSE Cardinality(A)
  BY FS_RemoveElement
<1>1. /\ IsFiniteSet(A \cup {w})
      /\ Cardinality(A \cup {w}) = IF w \in A THEN Cardinality(A) ELSE Cardinality(A) + 1
  BY FS_AddElement
<1>2. CASE w \in B
  <2>1. B = A \cup {w}
    BY <1>2
  <2>2. Cardinality(A) \in Nat /\ Cardinality(B) \in Nat /\ IsFiniteSet(B)
    BY <1>0, <1>1, <2>1, FS_CardinalityType
  <2>3. Cardinality(B) = IF w \in A THEN Cardinality(A) ELSE Cardinality(A) + 1
    BY <1>0, <1>1, <2>1
  <2> QED
    BY <1>2, <2>2, <2>3
<1>3. CASE w \notin B
  <2>1. B = A \ {w}
    BY <1>3
  <2>2. Cardinality(A) \in Nat /\ Cardinality(B) \in Nat /\ IsFiniteSet(B)
    BY <1>0, <1>1, <2>1, FS_CardinalityType
  <2>3. Cardinality(B) = IF w \in A THEN Cardinality(A) - 1 ELSE Cardinality(A)
    BY <1>0, <1>1, <2>1
  <2> QED
    BY <1>3, <2>2, <2>3
<1> QED
  BY <1>2, <1>3

LEMMA PendingMoves ==
  ASSUME Typed, NEW w \in Workers, OnlyMoves(w), NEW d
  PROVE  /\ Cardinality(PendingOn(d)) \in Nat /\ Cardinality(PendingOn(d)') \in Nat
         /\ pc'[w] # "send" => Cardinality(PendingOn(d)') <= Cardinality(PendingOn(d))
         /\ pc[w] = "send" /\ Day(now[w]) = d /\ pc'[w] # "send" =>
              Cardinality(PendingOn(d)') = Cardinality(PendingOn(d)) - 1
         /\ pc[w] # "send" /\ pc'[w] = "send" =>
              Cardinality(PendingOn(d)') = Cardinality(PendingOn(d)) + (IF Day(now'[w]) = d THEN 1 ELSE 0)
<1>1. PendingOn(d) \subseteq Workers /\ IsFiniteSet(Workers)
  BY ProviderAssumption DEF PendingOn
<1>2. IsFiniteSet(PendingOn(d))
  BY <1>1, FS_Subset
<1>3. PendingOn(d)' \ {w} = PendingOn(d) \ {w}
  BY DEF PendingOn, OnlyMoves, Day
<1>4. /\ (w \in PendingOn(d) <=> pc[w] = "send" /\ Day(now[w]) = d)
      /\ (w \in PendingOn(d)' <=> pc'[w] = "send" /\ Day(now'[w]) = d)
  BY DEF PendingOn, Day
<1> QED
  BY <1>2, <1>3, <1>4, SetMoves

LEMMA WaitingMoves ==
  ASSUME Typed, NEW w \in Workers, OnlyMoves(w), NEW d
  PROVE  /\ Cardinality(WaitingOn(d)) \in Nat /\ Cardinality(WaitingOn(d)') \in Nat
         /\ pc'[w] # "admit" \/ Day(now'[w]) + 1 # d =>
              Cardinality(WaitingOn(d)') <= Cardinality(WaitingOn(d))
         /\ pc[w] = "admit" /\ Day(now[w]) + 1 = d /\ pc'[w] # "admit" =>
              Cardinality(WaitingOn(d)') = Cardinality(WaitingOn(d)) - 1
<1>1. WaitingOn(d) \subseteq Workers /\ IsFiniteSet(Workers)
  BY ProviderAssumption DEF WaitingOn
<1>2. IsFiniteSet(WaitingOn(d))
  BY <1>1, FS_Subset
<1>3. WaitingOn(d)' \ {w} = WaitingOn(d) \ {w}
  BY DEF WaitingOn, OnlyMoves, Day
<1>4. /\ (w \in WaitingOn(d) <=> pc[w] = "admit" /\ Day(now[w]) + 1 = d)
      /\ (w \in WaitingOn(d)' <=> pc'[w] = "admit" /\ Day(now'[w]) + 1 = d)
  BY DEF WaitingOn, Day
<1> QED
  BY <1>2, <1>3, <1>4, SetMoves

LEMMA ClockHasDay ==
  ASSUME Typed
  PROVE  /\ Day(MaxTime) \in Nat /\ Day(clock) \in 0 .. Day(MaxTime)
         /\ usage.day \in Int /\ usage.daily \in Nat
<1>1. clock \in Nat /\ MaxTime \in Nat /\ clock <= MaxTime
  BY ProviderAssumption DEF Typed
<1> QED
  BY <1>1, DayGrows DEF Typed, Rows

\* A request is never later than its reading of the clock by more than a day.
LEMMA ReadsHaveDay ==
  ASSUME Typed, ReadsAreRecent, NEW w \in Workers, pc[w] \in {"admit", "send"}
  PROVE  Day(now[w]) \in {Day(clock), Day(clock) - 1} /\ Day(now[w]) \in 0 .. Day(MaxTime)
<1>1. now[w] \in Nat /\ clock \in Nat /\ now[w] <= clock /\ clock <= now[w] + DayLength
      /\ DayLength \in Nat \ {0} /\ MaxTime \in Nat /\ clock <= MaxTime
  BY ProviderAssumption, AdmissionAssumption DEF ReadsAreRecent, Typed
<1>2. Day(now[w]) \in Nat /\ Day(clock) \in Nat /\ Day(now[w]) <= Day(clock) /\ Day(clock) <= Day(MaxTime)
      /\ Day(MaxTime) \in Nat
  BY <1>1, DayGrows
<1>3. Day(clock) <= Day(now[w] + DayLength) /\ Day(now[w] + DayLength) \in Nat
  BY <1>1, DayGrows
<1>4. Day(now[w] + DayLength) = Day(now[w]) + 1
  BY <1>1 DEF Day
<1> QED
  BY <1>2, <1>3, <1>4

LEMMA Distributes ==
  ASSUME NEW a \in Nat, NEW b \in Nat
  PROVE  a * (1 + b) = a + a * b /\ a * (b + 1) = a + a * b /\ a * b \in Nat
OBVIOUS

LEMMA CrossedTyped ==
  ASSUME Typed, ReadsAreRecent, DaysAreCounted, NEW w \in Workers, pc[w] = "admit", Crosses(w)
  PROVE  /\ crossed' \in [0 .. Day(MaxTime) + 1 -> Nat]
         /\ \A d \in 0 .. Day(MaxTime) + 1 :
              crossed'[d] = IF Day(now[w]) = Day(clock) - 1 /\ d = Day(clock) THEN crossed[d] + 1 ELSE crossed[d]
<1> DEFINE D == 0 .. Day(MaxTime) + 1
<1>1. /\ Day(MaxTime) \in Nat /\ Day(clock) \in 0 .. Day(MaxTime) /\ Day(clock) \in D
      /\ Day(now[w]) \in {Day(clock), Day(clock) - 1} /\ Day(now[w]) \in D
  BY ClockHasDay, ReadsHaveDay
<1>2. crossed \in [D -> Nat]
  BY DEF DaysAreCounted
<1>3. CASE Day(now[w]) = Day(clock)
  <2>1. crossed' = crossed
    BY <1>1, <1>3 DEF Crosses
  <2> QED
    BY <1>1, <1>2, <1>3, <2>1
<1>4. CASE Day(now[w]) = Day(clock) - 1
  <2>1. crossed' = [crossed EXCEPT ![Day(clock)] = @ + 1] /\ Day(clock) \in D
    <3>1. Day(now[w]) < Day(clock) /\ Day(now[w]) + 1 = Day(clock)
      BY <1>1, <1>4
    <3> QED
      BY <1>1, <3>1 DEF Crosses
  <2> HIDE DEF D
  <2>2. crossed' \in [D -> Nat] /\ \A d \in D : crossed'[d] = IF d = Day(clock) THEN crossed[d] + 1 ELSE crossed[d]
    BY <1>2, <2>1
  <2> QED
    BY <1>4, <2>2 DEF D
<1> QED
  BY <1>1, <1>3, <1>4
-----------------------------------------------------------------------------
\* Admitted or told to wait, the row is saved as it was read: for this day, or
\* set back to the day before and then counted as one that crossed.
LEMMA DaysAdmit ==
  ASSUME Typed, Typed', ReadsAreRecent, DaysAreCounted, NEW w \in Workers, Admit(w), ~Leaves(w)
  PROVE  DaysAreCounted'
<1> DEFINE read == ReadAt(usage, now[w])
           today == Day(clock)
           mine == Day(now[w])
<1>0. /\ pc[w] = "admit" /\ clock' = clock /\ days' = days /\ ~DayIsSpent(read) /\ Crosses(w)
      /\ \/ usage' = read /\ At(w, "asleep") /\ now' = [now EXCEPT ![w] = 0]
         \/ usage' = Counted(read, id[w], now[w], need[w]) /\ At(w, "send") /\ now' = now
  BY DEF Admit
<1>1. /\ Day(MaxTime) \in Nat /\ today \in 0 .. Day(MaxTime) /\ usage.day \in Int /\ usage.daily \in Nat
      /\ mine \in {today, today - 1} /\ mine \in 0 .. Day(MaxTime) /\ now[w] \in Nat
  BY <1>0, ClockHasDay, ReadsHaveDay DEF Typed
<1>2. read.day = mine /\ read.daily = (IF usage.day = mine THEN usage.daily ELSE 0)
  BY <1>1, ReadTyped DEF Typed
<1>3. /\ crossed' \in [0 .. Day(MaxTime) + 1 -> Nat] /\ crossed \in [0 .. Day(MaxTime) + 1 -> Nat]
      /\ \A d \in 0 .. Day(MaxTime) + 1 :
           crossed'[d] = IF mine = today - 1 /\ d = today THEN crossed[d] + 1 ELSE crossed[d]
  BY <1>0, CrossedTyped DEF DaysAreCounted
<1>4. PICK n \in {0, 1} :
        /\ usage'.day = mine /\ usage'.daily = read.daily + n
        /\ \A d \in 0 .. Day(MaxTime) : CountOf(d)' <= CountOf(d) + (IF d = mine THEN n ELSE 0)
        /\ Rpd # 0 => usage'.daily <= Rpd
  <2>0. read.daily \in Nat /\ Rpd \in Nat
    BY <1>1, <1>2, AdmissionAssumption
  <2>1. OnlyMoves(w)
    BY <1>0 DEF At, OnlyMoves, Typed
  <2>2. \A d \in 0 .. Day(MaxTime) : days[d] \in Nat
    BY DEF DaysAreCounted
  <2>3. Rpd # 0 => read.daily < Rpd
    BY <1>0, <1>1, <1>2, AdmissionAssumption DEF DayIsSpent
  <2>4. CASE usage' = read /\ At(w, "asleep")
    <3>1. pc'[w] # "send"
      BY <2>4 DEF At, Typed
    <3>2. \A d \in 0 .. Day(MaxTime) : CountOf(d)' <= CountOf(d)
      BY <1>0, <2>1, <2>2, <3>1, PendingMoves DEF CountOf
    <3>3. usage'.day = mine /\ usage'.daily = read.daily + 0
      BY <1>1, <1>2, <2>4
    <3> HIDE DEF read, mine
    <3>4. \A d \in 0 .. Day(MaxTime) : CountOf(d)' <= CountOf(d) + (IF d = mine THEN 0 ELSE 0)
      <4>1. SUFFICES ASSUME NEW d \in 0 .. Day(MaxTime)
                     PROVE  CountOf(d)' <= CountOf(d) + 0
        OBVIOUS
      <4>2. CountOf(d) \in Int
        BY <2>1, <2>2, PendingMoves DEF CountOf
      <4> QED
        BY <3>2, <4>2
    <3>5. Rpd # 0 => usage'.daily <= Rpd
      BY <2>0, <2>3, <3>3
    <3> QED
      BY <3>3, <3>4, <3>5
  <2>5. CASE usage' = Counted(read, id[w], now[w], need[w]) /\ At(w, "send") /\ now' = now
    <3>1. pc'[w] = "send" /\ pc[w] # "send" /\ now'[w] = now[w]
      BY <1>0, <2>5 DEF At, Typed
    <3>2. \A d \in 0 .. Day(MaxTime) : CountOf(d)' <= CountOf(d) + (IF d = mine THEN 1 ELSE 0)
      <4>1. SUFFICES ASSUME NEW d \in 0 .. Day(MaxTime)
                     PROVE  CountOf(d)' <= CountOf(d) + (IF d = mine THEN 1 ELSE 0)
        OBVIOUS
      <4>2. Cardinality(PendingOn(d)) \in Nat
            /\ Cardinality(PendingOn(d)') = Cardinality(PendingOn(d)) + (IF Day(now'[w]) = d THEN 1 ELSE 0)
        BY <2>1, <3>1, PendingMoves
      <4>3. CountOf(d)' = days[d] + Cardinality(PendingOn(d)') /\ days[d] \in Nat
        BY <1>0, <2>2 DEF CountOf
      <4> QED
        BY <3>1, <4>2, <4>3 DEF CountOf
    <3>3. usage'.day = mine /\ usage'.daily = read.daily + 1
      BY <1>1, <1>2, <2>5, CountedTyped DEF Typed
    <3> HIDE DEF read, mine
    <3>4. Rpd # 0 => usage'.daily <= Rpd
      BY <2>0, <2>3, <3>3
    <3> QED
      BY <3>2, <3>3, <3>4
  <2> QED
    BY <1>0, <2>4, <2>5
<1>5. \A d \in 0 .. Day(MaxTime) : CountOf(d) \in Int /\ CountOf(d)' \in Int
  <2>1. OnlyMoves(w)
    BY <1>0 DEF At, OnlyMoves, Typed
  <2>2. \A d \in 0 .. Day(MaxTime) : days[d] \in Nat /\ days'[d] = days[d]
    BY <1>0 DEF DaysAreCounted
  <2> QED
    BY <2>1, <2>2, PendingMoves DEF CountOf
<1> HIDE DEF read, mine, today
<1>6. ASSUME Rpd # 0, NEW d \in 0 .. Day(MaxTime)
      PROVE  /\ d > today => CountOf(d)' = 0
             /\ d = today =>
                  CountOf(d)' <= (IF usage'.day = d THEN usage'.daily ELSE 0) + Rpd * crossed'[d]
             /\ d < today => CountOf(d)' <= Rpd * (1 + crossed'[d]) + crossed'[d + 1]
  <2>0. /\ d > today => CountOf(d) = 0
        /\ d = today => CountOf(d) <= (IF usage.day = d THEN usage.daily ELSE 0) + Rpd * crossed[d]
        /\ d < today => CountOf(d) <= Rpd * (1 + crossed[d]) + crossed[d + 1]
        /\ usage.daily <= Rpd
    BY <1>6 DEF DaysAreCounted, today
  <2>1. d \in Int /\ d + 1 \in 0 .. Day(MaxTime) + 1 /\ d \in 0 .. Day(MaxTime) + 1 /\ today \in Int
    BY <1>1
  <2>2. crossed[d] \in Nat /\ crossed[d + 1] \in Nat /\ Rpd \in Nat
    BY <1>3, <2>1, AdmissionAssumption
  <2>3. /\ Rpd * crossed[d] \in Nat
        /\ Rpd * (crossed[d] + 1) = Rpd + Rpd * crossed[d]
    BY <2>2, Distributes
  <2>4. CountOf(d)' <= CountOf(d) + (IF d = mine THEN n ELSE 0) /\ CountOf(d) \in Int /\ CountOf(d)' \in Int
    BY <1>4, <1>5
  <2>5. CASE d > today
    <3>1. d # mine
      BY <1>1, <2>1, <2>5
    <3>2. CountOf(d)' <= 0
      BY <2>0, <2>4, <2>5, <3>1
    <3>3. CountOf(d)' >= 0
      <4>1. OnlyMoves(w)
        BY <1>0 DEF At, OnlyMoves, Typed
      <4>2. days'[d] \in Nat /\ Cardinality(PendingOn(d)') \in Nat
        BY <1>0, <4>1, PendingMoves DEF DaysAreCounted
      <4> QED
        BY <4>2 DEF CountOf
    <3> QED
      BY <2>1, <2>4, <2>5, <3>2, <3>3
  <2>6. CASE d = today /\ mine = today
    <3>1. crossed'[d] = crossed[d] /\ usage'.day = d
      BY <1>1, <1>3, <1>4, <2>1, <2>6
    <3>2. usage'.daily = (IF usage.day = d THEN usage.daily ELSE 0) + n
      BY <1>2, <1>4, <2>6
    <3>3. CountOf(d)' <= CountOf(d) + n
      BY <2>4, <2>6
    <3> QED
      BY <1>1, <2>0, <2>1, <2>3, <2>4, <2>6, <3>1, <3>2, <3>3
  <2>7. CASE d = today /\ mine = today - 1
    <3>1. crossed'[d] = crossed[d] + 1 /\ usage'.day # d
      BY <1>1, <1>3, <1>4, <2>1, <2>7
    <3>2. CountOf(d)' <= CountOf(d)
      BY <2>1, <2>4, <2>7
    <3>3. CountOf(d) <= Rpd + Rpd * crossed[d]
      BY <1>1, <2>0, <2>2, <2>3, <2>4, <2>7
    <3>4. Rpd * crossed'[d] = Rpd + Rpd * crossed[d]
      BY <2>3, <3>1
    <3>5. CountOf(d)' <= Rpd * crossed'[d]
      BY <2>2, <2>3, <2>4, <3>2, <3>3, <3>4
    <3> QED
      BY <2>1, <2>2, <2>3, <2>7, <3>1, <3>4, <3>5
  <2>8. CASE d < today
    <3>1. crossed'[d] = crossed[d]
      BY <1>3, <2>1, <2>8
    <3>2. CASE d = mine
      <4>1. d + 1 = today /\ mine = today - 1
        BY <1>1, <2>1, <2>8, <3>2
      <4>2. crossed'[d + 1] = crossed[d + 1] + 1
        BY <1>3, <2>1, <4>1
      <4>3. Rpd * (1 + crossed[d]) \in Nat
        BY <2>2, Distributes
      <4> QED
        BY <2>0, <2>1, <2>2, <2>4, <2>8, <3>1, <3>2, <4>2, <4>3
    <3>3. CASE d # mine
      <4>1. crossed'[d + 1] >= crossed[d + 1] /\ crossed'[d + 1] \in Nat
        BY <1>3, <2>1, <2>2
      <4>2. Rpd * (1 + crossed[d]) \in Nat
        BY <2>2, Distributes
      <4> QED
        BY <2>0, <2>1, <2>2, <2>4, <2>8, <3>1, <3>3, <4>1, <4>2
    <3> QED
      BY <3>2, <3>3
  <2> QED
    BY <1>1, <2>1, <2>5, <2>6, <2>7, <2>8
<1>7. usage'.day <= Day(clock')
  BY <1>0, <1>1, <1>4 DEF today
<1>8. days' \in [0 .. Day(MaxTime) -> Nat]
  BY <1>0 DEF DaysAreCounted
<1> QED
  BY <1>0, <1>3, <1>4, <1>6, <1>7, <1>8 DEF DaysAreCounted, today

LEMMA CountsAreNat ==
  ASSUME Typed, DaysAreCounted, NEW d \in 0 .. Day(MaxTime)
  PROVE  days[d] \in Nat /\ CountOf(d) \in Nat
<1>1. PendingOn(d) \subseteq Workers /\ IsFiniteSet(Workers)
  BY ProviderAssumption DEF PendingOn
<1>2. Cardinality(PendingOn(d)) \in Nat
  BY <1>1, FS_Subset, FS_CardinalityType
<1>3. days[d] \in Nat
  BY DEF DaysAreCounted
<1> QED
  BY <1>2, <1>3 DEF CountOf

\* A step that counts nothing and leaves the row's day as it is.
LEMMA DaysStay ==
  ASSUME Typed, DaysAreCounted, UNCHANGED <<clock, crossed>>,
         usage'.day = usage.day, usage'.daily = usage.daily,
         days' \in [0 .. Day(MaxTime) -> Nat],
         \A d \in 0 .. Day(MaxTime) : CountOf(d)' \in Nat /\ CountOf(d)' <= CountOf(d)
  PROVE  DaysAreCounted'
<1>1. ASSUME Rpd # 0, NEW d \in 0 .. Day(MaxTime)
      PROVE  /\ d > Day(clock) => CountOf(d)' = 0
             /\ d = Day(clock) =>
                  CountOf(d)' <= (IF usage'.day = d THEN usage'.daily ELSE 0) + Rpd * crossed[d]
             /\ d < Day(clock) => CountOf(d)' <= Rpd * (1 + crossed[d]) + crossed[d + 1]
  <2>0. /\ d > Day(clock) => CountOf(d) = 0
        /\ d = Day(clock) => CountOf(d) <= (IF usage.day = d THEN usage.daily ELSE 0) + Rpd * crossed[d]
        /\ d < Day(clock) => CountOf(d) <= Rpd * (1 + crossed[d]) + crossed[d + 1]
    BY <1>1 DEF DaysAreCounted
  <2>1. CountOf(d) \in Nat /\ CountOf(d)' \in Nat /\ CountOf(d)' <= CountOf(d)
    BY CountsAreNat
  <2>2. d \in 0 .. Day(MaxTime) + 1 /\ d + 1 \in 0 .. Day(MaxTime) + 1
    BY ClockHasDay
  <2>3. crossed[d] \in Nat /\ crossed[d + 1] \in Nat
    BY <2>2 DEF DaysAreCounted
  <2>4. Rpd \in Nat /\ Rpd * crossed[d] \in Nat /\ Rpd * (1 + crossed[d]) = Rpd + Rpd * crossed[d]
    BY <2>3, Distributes, AdmissionAssumption
  <2> DEFINE fewer == Rpd * crossed[d]  more == Rpd * (1 + crossed[d])
  <2>5. fewer \in Nat /\ more \in Nat /\ usage.daily \in Nat /\ Day(clock) \in Nat
    BY <2>4, ClockHasDay
  <2>6. d = Day(clock) => CountOf(d) <= (IF usage.day = d THEN usage.daily ELSE 0) + fewer
    BY <2>0
  <2>7. d < Day(clock) => CountOf(d) <= more + crossed[d + 1]
    BY <2>0
  <2> HIDE DEF fewer, more
  <2>8. /\ d = Day(clock) => CountOf(d)' <= (IF usage'.day = d THEN usage'.daily ELSE 0) + fewer
        /\ d < Day(clock) => CountOf(d)' <= more + crossed[d + 1]
        /\ d > Day(clock) => CountOf(d)' = 0
    BY <2>0, <2>1, <2>3, <2>5, <2>6, <2>7
  <2> QED
    BY <2>8 DEF fewer, more
<1>2. usage'.day <= Day(clock') /\ Day(clock') = Day(clock)
  BY DEF DaysAreCounted, Day
<1> QED
  BY <1>1, <1>2 DEF DaysAreCounted

\* At midnight the day that was counted is over, with its limit at most.
LEMMA DaysTick ==
  ASSUME Typed, DaysAreCounted, Tick
  PROVE  DaysAreCounted'
<1> DEFINE today == Day(clock)
           then == Day(clock')
<1>1. /\ Day(MaxTime) \in Nat /\ today \in 0 .. Day(MaxTime)
      /\ usage.day \in Int /\ usage.daily \in Nat
  BY ClockHasDay
<1>2. then \in {today, today + 1}
  <2>1. clock \in Nat /\ clock' = clock + 1 /\ DayLength \in Nat \ {0}
    BY AdmissionAssumption DEF Tick, Typed
  <2>2. Day(clock) <= Day(clock + 1) /\ Day(clock + 1) <= Day(clock + DayLength)
        /\ Day(clock) \in Nat /\ Day(clock + 1) \in Nat
    <3>1. clock + 1 <= clock + DayLength /\ clock <= clock + 1
      BY <2>1
    <3>2. clock + 1 \in Nat /\ clock + DayLength \in Nat
      BY <2>1
    <3> QED
      BY <2>1, <3>1, <3>2, DayGrows
  <2>3. Day(clock + DayLength) = Day(clock) + 1
    BY <2>1 DEF Day
  <2> QED
    BY <2>1, <2>2, <2>3
<1>3. /\ usage' = usage /\ days' = days /\ crossed' = crossed
      /\ \A d : CountOf(d)' = CountOf(d)
  BY DEF Tick, own, CountOf, PendingOn, Day
<1> HIDE DEF today, then
<1>4. ASSUME Rpd # 0, NEW d \in 0 .. Day(MaxTime)
      PROVE  /\ d > then => CountOf(d) = 0
             /\ d = then => CountOf(d) <= (IF usage.day = d THEN usage.daily ELSE 0) + Rpd * crossed[d]
             /\ d < then => CountOf(d) <= Rpd * (1 + crossed[d]) + crossed[d + 1]
  <2>0. /\ d > today => CountOf(d) = 0
        /\ d = today => CountOf(d) <= (IF usage.day = d THEN usage.daily ELSE 0) + Rpd * crossed[d]
        /\ d < today => CountOf(d) <= Rpd * (1 + crossed[d]) + crossed[d + 1]
        /\ usage.daily <= Rpd
    BY <1>4 DEF DaysAreCounted, today
  <2>1. CountOf(d) \in Nat
    BY CountsAreNat
  <2>2. d \in Int /\ d \in 0 .. Day(MaxTime) + 1 /\ d + 1 \in 0 .. Day(MaxTime) + 1
    BY <1>1
  <2>3. crossed[d] \in Nat /\ crossed[d + 1] \in Nat /\ Rpd \in Nat
    BY <2>2, AdmissionAssumption DEF DaysAreCounted
  <2>4. Rpd * crossed[d] \in Nat /\ Rpd * (1 + crossed[d]) = Rpd + Rpd * crossed[d]
    BY <2>3, Distributes
  <2> QED
    BY <1>1, <1>2, <2>0, <2>1, <2>2, <2>3, <2>4
<1>5. usage.day <= then
  BY <1>1, <1>2 DEF DaysAreCounted, today
<1> QED
  BY <1>3, <1>4, <1>5 DEF DaysAreCounted, then

LEMMA DaysNext ==
  ASSUME Typed, Typed', ReadsAreRecent, DaysAreCounted, [Next]_vars
  PROVE  DaysAreCounted'
<1>0. DaysAreCounted => \A d \in 0 .. Day(MaxTime) : days[d] \in Nat
  BY DEF DaysAreCounted
<1>1. ASSUME NEW w \in Workers, OnlyMoves(w), pc'[w] # "send", UNCHANGED <<clock, crossed, days>>,
             usage'.day = usage.day, usage'.daily = usage.daily
      PROVE  DaysAreCounted'
  <2>1. days' \in [0 .. Day(MaxTime) -> Nat]
    BY <1>1 DEF DaysAreCounted
  <2>2. ASSUME NEW d \in 0 .. Day(MaxTime)
        PROVE  CountOf(d)' \in Nat /\ CountOf(d)' <= CountOf(d)
    <3>1. /\ Cardinality(PendingOn(d)) \in Nat /\ Cardinality(PendingOn(d)') \in Nat
          /\ Cardinality(PendingOn(d)') <= Cardinality(PendingOn(d))
      BY <1>1, PendingMoves
    <3>2. days[d] \in Nat /\ days' = days
      BY <1>0, <1>1
    <3> QED
      BY <3>1, <3>2 DEF CountOf
  <2> QED
    BY <1>1, <2>1, <2>2, DaysStay
<1>2. ASSUME NEW until \in Nat, Pauses(until)
      PROVE  usage'.day = usage.day /\ usage'.daily = usage.daily
  BY <1>2, PausedTyped
<1>3. \A wait \in Refusals \cup {Window} : clock + wait \in Nat
  BY ProviderAssumption, AdmissionAssumption DEF Typed
<1>4. ASSUME NEW w \in Workers, Leaves(w)
      PROVE  OnlyMoves(w) /\ pc'[w] # "send"
  BY <1>4 DEF Leaves, At, OnlyMoves, Typed
<1>5. ASSUME NEW w \in Workers, Ask(w) \/ Enter(w) \/ ReadClock(w) \/ Wake(w) \/ Answered(w)
      PROVE  DaysAreCounted'
  <2>1. OnlyMoves(w) /\ pc'[w] # "send"
    BY <1>5 DEF Ask, Enter, ReadClock, Wake, Answered, At, OnlyMoves, Typed
  <2>2. UNCHANGED <<clock, crossed, days, usage>>
    BY <1>5 DEF Ask, Enter, ReadClock, Wake, Answered
  <2> QED
    BY <1>1, <2>1, <2>2
<1>6. ASSUME NEW w \in Workers, Expire(w)
      PROVE  DaysAreCounted'
  BY <1>1, <1>4, <1>6 DEF Expire
<1>7. ASSUME NEW w \in Workers, CountRefused(w)
      PROVE  DaysAreCounted'
  <2>1. usage'.day = usage.day /\ usage'.daily = usage.daily
    BY <1>2, <1>3, <1>7 DEF CountRefused, Unsaved
  <2> QED
    BY <1>1, <1>4, <1>7, <2>1 DEF CountRefused
<1>8. ASSUME NEW w \in Workers, CoolDown(w)
      PROVE  DaysAreCounted'
  <2>1. usage'.day = usage.day /\ usage'.daily = usage.daily
    BY <1>2, <1>3, <1>8 DEF CoolDown, Unsaved
  <2>2. OnlyMoves(w) /\ pc'[w] # "send"
    BY <1>8 DEF CoolDown, At, OnlyMoves, Typed
  <2> QED
    BY <1>1, <1>8, <2>1, <2>2 DEF CoolDown
<1>9. ASSUME NEW w \in Workers, Settle(w)
      PROVE  DaysAreCounted'
  <2>1. (IF used[w] = Unknown THEN 0 ELSE used[w]) \in Int
    BY DEF Typed
  <2>2. usage' = SettledAs(usage, id[w], IF used[w] = Unknown THEN 0 ELSE used[w]) =>
          usage'.day = usage.day /\ usage'.daily = usage.daily
    BY <2>1, SettledTyped
  <2>3. usage'.day = usage.day /\ usage'.daily = usage.daily
    BY <1>2, <1>3, <1>9, <2>2 DEF Settle, Unsaved
  <2> QED
    BY <1>1, <1>4, <1>9, <2>3 DEF Settle
<1>10. ASSUME NEW w \in Workers, Admit(w)
       PROVE  DaysAreCounted'
  <2>1. CASE ~Leaves(w)
    BY <1>10, <2>1, DaysAdmit
  <2>2. CASE Leaves(w)
    <3>1. pc'[w] = "idle"
      BY <2>2 DEF Leaves, At, Typed
    <3>2. UNCHANGED <<clock, crossed, days, usage>>
      BY <1>10, <3>1 DEF Admit, Unsaved, At, Typed
    <3> QED
      BY <1>1, <1>4, <2>2, <3>2
  <2> QED
    BY <2>1, <2>2
<1>11. ASSUME NEW w \in Workers, Send(w)
       PROVE  DaysAreCounted'
  <2> DEFINE mine == Day(now[w])
  <2>1. OnlyMoves(w) /\ pc[w] = "send" /\ pc'[w] # "send" /\ UNCHANGED <<clock, crossed, usage>>
    BY <1>11 DEF Send, At, OnlyMoves, Typed
  <2>2. CASE UNCHANGED days
    BY <1>1, <2>1, <2>2
  <2>3. CASE days' = [days EXCEPT ![mine] = @ + 1]
    <3>1. mine \in 0 .. Day(MaxTime)
      BY <2>1, ReadsHaveDay
    <3>2. days \in [0 .. Day(MaxTime) -> Nat]
      BY DEF DaysAreCounted
    <3> HIDE DEF mine
    <3>3. /\ days' \in [0 .. Day(MaxTime) -> Nat]
          /\ \A d \in 0 .. Day(MaxTime) : days'[d] = days[d] + (IF d = mine THEN 1 ELSE 0)
      BY <2>3, <3>1, <3>2
    <3>4. ASSUME NEW d \in 0 .. Day(MaxTime)
          PROVE  CountOf(d)' \in Nat /\ CountOf(d)' <= CountOf(d)
      <4>1. /\ Cardinality(PendingOn(d)) \in Nat /\ Cardinality(PendingOn(d)') \in Nat
            /\ Cardinality(PendingOn(d)') <= Cardinality(PendingOn(d))
            /\ mine = d => Cardinality(PendingOn(d)') = Cardinality(PendingOn(d)) - 1
        BY <2>1, PendingMoves DEF mine
      <4>2. CountOf(d)' = days'[d] + Cardinality(PendingOn(d)') /\ days[d] \in Nat
        BY <3>2 DEF CountOf
      <4> QED
        BY <3>3, <4>1, <4>2 DEF CountOf
    <3> QED
      BY <2>1, <3>3, <3>4, DaysStay
  <2> QED
    BY <1>11, <2>2, <2>3 DEF Send
<1>12. CASE Crash
  <2>1. UNCHANGED <<clock, crossed, days, usage>>
    BY <1>12 DEF Crash
  <2>2. ASSUME NEW d \in 0 .. Day(MaxTime)
        PROVE  CountOf(d)' \in Nat /\ CountOf(d)' <= CountOf(d)
    <3>1. PendingOn(d)' = {}
      BY <1>12 DEF Crash, PendingOn
    <3>2. CountOf(d)' = days[d] + 0
      BY <2>1, <3>1, FS_EmptySet DEF CountOf
    <3>3. PendingOn(d) \subseteq Workers /\ IsFiniteSet(Workers)
      BY ProviderAssumption DEF PendingOn
    <3>4. Cardinality(PendingOn(d)) \in Nat
      BY <3>3, FS_Subset, FS_CardinalityType
    <3> QED
      BY <1>0, <3>2, <3>4 DEF CountOf
  <2>3. days' \in [0 .. Day(MaxTime) -> Nat]
    BY <2>1 DEF DaysAreCounted
  <2> QED
    BY <2>1, <2>2, <2>3, DaysStay
<1>13. CASE UNCHANGED vars
  <2>1. UNCHANGED <<clock, crossed, days, usage, pc, now>>
    BY <1>13 DEF vars, own
  <2>2. \A d \in 0 .. Day(MaxTime) : CountOf(d)' = CountOf(d) /\ CountOf(d) \in Nat
    BY <2>1, CountsAreNat DEF CountOf, PendingOn
  <2>3. days' \in [0 .. Day(MaxTime) -> Nat]
    BY <2>1 DEF DaysAreCounted
  <2> QED
    BY <2>1, <2>2, <2>3, DaysStay
<1> QED
  BY <1>5, <1>6, <1>7, <1>8, <1>9, <1>10, <1>11, <1>12, <1>13, DaysTick DEF Next, Work

\* A request waits for its admission in a slot, over one midnight at most.
LEMMA CrossersNext ==
  ASSUME Typed, Typed', SlotsReturn', ReadsAreRecent, DaysAreCounted, CrossersHaveSlots, [Next]_vars
  PROVE  CrossersHaveSlots'
<1> DEFINE D == 0 .. Day(MaxTime) + 1
<1>0. /\ crossed \in [D -> Nat]
      /\ \A d \in D : (d > Day(clock) => crossed[d] = 0) /\ crossed[d] + Cardinality(WaitingOn(d)) <= Slots
      /\ Day(clock) \in Nat /\ D \subseteq Nat /\ Slots \in Nat
  BY ClockHasDay, ProviderAssumption DEF DaysAreCounted, CrossersHaveSlots
<1>1. \A d : IsFiniteSet(WaitingOn(d)) /\ Cardinality(WaitingOn(d)) \in Nat
  <2>1. \A d : WaitingOn(d) \subseteq Workers
    BY DEF WaitingOn
  <2> QED
    BY <2>1, ProviderAssumption, FS_Subset, FS_CardinalityType
<1>2. ASSUME UNCHANGED <<clock, crossed>>,
             \A d \in D : Cardinality(WaitingOn(d)') \in Nat /\ Cardinality(WaitingOn(d)') <= Cardinality(WaitingOn(d))
      PROVE  CrossersHaveSlots'
  <2>1. Day(clock') = Day(clock)
    BY <1>2 DEF Day
  <2>2. ASSUME NEW d \in D
        PROVE  (d > Day(clock) => crossed'[d] = 0) /\ crossed'[d] + Cardinality(WaitingOn(d)') <= Slots
    <3>1. crossed[d] \in Nat /\ crossed' = crossed
      BY <1>0, <1>2
    <3> HIDE DEF D
    <3> QED
      BY <1>0, <1>1, <1>2, <3>1
  <2> QED
    BY <2>1, <2>2 DEF CrossersHaveSlots
<1>3. ASSUME NEW w \in Workers, OnlyMoves(w), pc'[w] # "admit", UNCHANGED <<clock, crossed>>
      PROVE  CrossersHaveSlots'
  BY <1>2, <1>3, WaitingMoves
<1>4. ASSUME NEW w \in Workers, Leaves(w)
      PROVE  OnlyMoves(w) /\ pc'[w] = "idle"
  BY <1>4 DEF Leaves, At, OnlyMoves, Typed
<1>5. ASSUME NEW w \in Workers, Expire(w) \/ CountRefused(w) \/ Settle(w)
      PROVE  CrossersHaveSlots'
  BY <1>3, <1>4, <1>5 DEF Expire, CountRefused, Settle
<1>6. ASSUME NEW w \in Workers,
             Ask(w) \/ Enter(w) \/ Wake(w) \/ Send(w) \/ Answered(w) \/ CoolDown(w)
      PROVE  CrossersHaveSlots'
  <2>1. OnlyMoves(w) /\ pc'[w] # "admit"
    BY <1>6 DEF Ask, Enter, Wake, Send, Answered, CoolDown, At, OnlyMoves, Typed
  <2>2. UNCHANGED <<clock, crossed>>
    BY <1>6 DEF Ask, Enter, Wake, Send, Answered, CoolDown
  <2> QED
    BY <1>3, <2>1, <2>2
<1>7. ASSUME NEW w \in Workers, ReadClock(w)
      PROVE  CrossersHaveSlots'
  <2>1. /\ OnlyMoves(w) /\ pc'[w] = "admit" /\ now'[w] = clock /\ UNCHANGED <<clock, crossed>>
    BY <1>7 DEF ReadClock, At, OnlyMoves, Typed
  <2>2. Day(clock') = Day(clock) /\ Day(now'[w]) = Day(clock)
    BY <2>1 DEF Day
  <2>3. ASSUME NEW d \in D, d # Day(clock) + 1
        PROVE  (d > Day(clock) => crossed'[d] = 0) /\ crossed'[d] + Cardinality(WaitingOn(d)') <= Slots
    <3>1. Cardinality(WaitingOn(d)') \in Nat /\ Cardinality(WaitingOn(d)') <= Cardinality(WaitingOn(d))
      BY <2>1, <2>2, <2>3, WaitingMoves
    <3>2. crossed[d] \in Nat /\ crossed' = crossed
      BY <1>0, <2>1
    <3> HIDE DEF D
    <3> QED
      BY <1>0, <1>1, <2>3, <3>1, <3>2
  <2>4. ASSUME NEW d \in D, d = Day(clock) + 1
        PROVE  (d > Day(clock) => crossed'[d] = 0) /\ crossed'[d] + Cardinality(WaitingOn(d)') <= Slots
    <3>1. crossed'[d] = 0
      BY <1>0, <2>1, <2>4
    <3>2. WaitingOn(d)' \subseteq Using'
      BY DEF WaitingOn, Using
    <3>3. Using' \subseteq Workers
      BY DEF Using
    <3>4. IsFiniteSet(Using') /\ Cardinality(WaitingOn(d)') <= Cardinality(Using')
      BY <3>2, <3>3, ProviderAssumption, FS_Subset
    <3>5. free' + Cardinality(Using') = Slots /\ free' \in Nat
      BY DEF SlotsReturn, Using, Typed
    <3>6. Cardinality(Using') \in Nat /\ Cardinality(WaitingOn(d)') \in Nat
      BY <3>2, <3>4, FS_Subset, FS_CardinalityType
    <3> QED
      BY <1>0, <3>1, <3>4, <3>5, <3>6
  <2> QED
    BY <2>2, <2>3, <2>4 DEF CrossersHaveSlots
<1>8. ASSUME NEW w \in Workers, Admit(w)
      PROVE  CrossersHaveSlots'
  <2>1. OnlyMoves(w) /\ pc[w] = "admit" /\ pc'[w] # "admit" /\ UNCHANGED clock
    BY <1>8 DEF Admit, Leaves, At, OnlyMoves, Typed
  <2>2. CASE UNCHANGED crossed
    BY <1>3, <2>1, <2>2
  <2>3. CASE Crosses(w)
    <3> DEFINE today == Day(clock)
               mine == Day(now[w])
    <3>1. \A d \in D : crossed'[d] = IF mine = today - 1 /\ d = today THEN crossed[d] + 1 ELSE crossed[d]
      BY <2>1, <2>3, CrossedTyped
    <3>2. mine \in Nat /\ today \in Nat /\ Day(clock') = today
      BY <2>1, ReadsHaveDay, <1>0 DEF Day
    <3>3. ASSUME NEW d \in D
          PROVE  (d > today => crossed'[d] = 0) /\ crossed'[d] + Cardinality(WaitingOn(d)') <= Slots
      <4>1. /\ Cardinality(WaitingOn(d)') \in Nat
            /\ Cardinality(WaitingOn(d)') <= Cardinality(WaitingOn(d))
            /\ mine + 1 = d => Cardinality(WaitingOn(d)') = Cardinality(WaitingOn(d)) - 1
        BY <2>1, WaitingMoves
      <4>2. /\ crossed[d] \in Nat /\ d \in Nat /\ (d > today => crossed[d] = 0)
            /\ crossed[d] + Cardinality(WaitingOn(d)) <= Slots
            /\ crossed'[d] = IF mine = today - 1 /\ d = today THEN crossed[d] + 1 ELSE crossed[d]
        BY <1>0, <3>1
      <4> HIDE DEF D, mine, today
      <4> QED
        BY <1>0, <1>1, <3>2, <4>1, <4>2
    <3> QED
      BY <3>2, <3>3 DEF CrossersHaveSlots
  <2> QED
    BY <1>8, <2>2, <2>3 DEF Admit
<1>9. CASE Crash
  <2>1. \A d : Cardinality(WaitingOn(d)') = 0
    <3>1. \A d : WaitingOn(d)' = {}
      BY <1>9 DEF Crash, WaitingOn
    <3> QED
      BY <3>1, FS_EmptySet
  <2>2. UNCHANGED <<clock, crossed>>
    BY <1>9 DEF Crash
  <2> QED
    BY <1>1, <1>2, <2>1, <2>2
<1>10. CASE Tick
  <2>1. clock \in Nat /\ clock' = clock + 1 /\ crossed' = crossed
    BY <1>10 DEF Tick, Typed
  <2>2. Day(clock') \in Nat /\ Day(clock) <= Day(clock')
    <3>1. clock + 1 \in Nat /\ clock <= clock + 1
      BY <2>1
    <3> QED
      BY <2>1, <3>1, DayGrows
  <2>3. \A d : WaitingOn(d)' = WaitingOn(d)
    BY <1>10 DEF Tick, own, WaitingOn, Day
  <2>4. ASSUME NEW d \in D
        PROVE  (d > Day(clock') => crossed'[d] = 0) /\ crossed'[d] + Cardinality(WaitingOn(d)') <= Slots
    <3>1. d \in Nat
      BY <1>0
    <3> HIDE DEF D
    <3> QED
      BY <1>0, <2>1, <2>2, <2>3, <3>1
  <2> QED
    BY <2>4 DEF CrossersHaveSlots
<1>11. CASE UNCHANGED vars
  <2>1. UNCHANGED <<clock, crossed>> /\ \A d : WaitingOn(d)' = WaitingOn(d)
    BY <1>11 DEF vars, own, WaitingOn
  <2> QED
    BY <1>1, <1>2, <2>1
<1> QED
  BY <1>5, <1>6, <1>7, <1>8, <1>9, <1>10, <1>11 DEF Next, Work
-----------------------------------------------------------------------------
LEMMA InitInductive ==
  ASSUME Init
  PROVE  Inductive
<1> USE ProviderAssumption, AdmissionAssumption
<1>1. IsFiniteSet({}) /\ Cardinality({}) = 0
  BY FS_EmptySet
<1>2. Typed
  BY <1>1 DEF Init, NoUsage, Typed, Rows, States, Unknown
<1>3. Using = {}
  BY DEF Init, Using
<1>4. SlotsReturn
  <2>1. SlotsReturn <=> free + Cardinality(Using) = Slots
    BY DEF SlotsReturn, Using
  <2> QED
    BY <1>1, <1>3, <2>1 DEF Init
<1>5. PauseIsSaved
  BY DEF Init, NoUsage, PauseIsSaved
<1>6. Budget
  BY <1>1, LimitIsPositive DEF Init, NoUsage, Budget, ReadsAreRecent, IdsAreFresh, Unsent,
     AdmittedAreCounted, SentAreCounted, RowFits
<1>7. ASSUME NEW t \in 0 .. MaxTime PROVE SentInMinute(t) = {}
  BY DEF Init, SentInMinute
<1>8. RequestsFit
  BY <1>1, <1>7, LimitIsPositive DEF RequestsFit
<1> QED
  BY <1>2, <1>4, <1>5, <1>6, <1>8 DEF Inductive

LEMMA NextInductive ==
  ASSUME Inductive, [Next]_vars
  PROVE  Inductive'
<1> USE DEF Inductive
<1>1. Typed'
  BY TypedNext
<1>2. ReadsAreRecent' /\ IdsAreFresh' /\ AdmittedAreCounted' /\ RowFits'
  BY RecentNext, IdsNext, AdmittedNext, RowNext DEF Budget
<1>3. SentAreCounted' /\ RequestsFit'
  <2>1. CASE sends' \subseteq sends
    BY <1>1, <2>1, NothingSent DEF Budget
  <2>2. CASE \E w \in Workers : Send(w) /\ sends' # sends
    BY <1>1, <2>2, OneSent
  <2>3. sends' \subseteq sends \/ \E w \in Workers : Send(w) /\ sends' # sends
    BY DEF Next, Work, Ask, Enter, Expire, CountRefused, ReadClock, Admit, Wake, Answered,
           CoolDown, Settle, Crash, Tick, vars
  <2> QED
    BY <2>1, <2>2, <2>3
<1>4. SlotsReturn' /\ PauseIsSaved'
  BY SlotsNext, PauseNext
<1> QED
  BY <1>1, <1>2, <1>3, <1>4 DEF Budget

\* The invariant that is carried: the types, the slots, the saved pauses, and
\* the events of everything admitted or sent within the window.
THEOREM InductiveInvariant == Spec => []Inductive
<1>1. Init => Inductive
  BY InitInductive
<1>2. Inductive /\ [Next]_vars => Inductive'
  BY NextInductive
<1> QED
  BY <1>1, <1>2, PTL DEF Spec

\* However its requests read the clock, slept and were saved, and whatever was
\* pruned, refused or lost meanwhile, no minute has more requests than the limit.
THEOREM MinutesFit == Spec => []RequestsFit
<1>1. Inductive => RequestsFit
  BY DEF Inductive
<1> QED
  BY <1>1, InductiveInvariant, PTL

\* Slots are neither lost nor given back twice.
THEOREM SlotsAreKept == Spec => []SlotsReturn
<1>1. Inductive => SlotsReturn
  BY DEF Inductive
<1> QED
  BY <1>1, InductiveInvariant, PTL

\* No request is admitted before the end of a pause that was saved.
THEOREM PausesHold == Spec => PausesAreKept
<1>1. ASSUME Inductive, [Next]_vars, NEW w \in Workers, pc[w] = "admit", pc'[w] = "send"
      PROVE  now[w] >= paused
  <2>1. \A v \in Workers : Work(v) \/ Ask(v) => v = w \/ pc'[w] = pc[w]
    BY <1>1 DEF Inductive, Typed, Work, Ask, Enter, Expire, CountRefused, ReadClock, Admit, Wake,
       Send, Answered, CoolDown, Settle, Leaves, At
  <2>2. Work(w) \/ Ask(w)
    BY <1>1, <2>1 DEF Next, Crash, Tick, vars, own
  <2>3. DelayOf(ReadAt(usage, now[w]), now[w], need[w]) = 0
    BY <1>1, <2>2 DEF Inductive, Typed, Work, Ask, Enter, Expire, CountRefused, ReadClock, Admit, Wake,
       Send, Answered, CoolDown, Settle, Leaves, At
  <2>4. ReadAt(usage, now[w]).notBefore = paused /\ now[w] \in Nat /\ paused \in Nat
    BY <1>1, ReadTyped DEF Inductive, Typed, PauseIsSaved
  <2>5. ASSUME NEW b, Later(Later(paused - now[w], 0), b) = 0 PROVE now[w] >= paused
    BY <2>4, <2>5 DEF Later
  <2>6. ASSUME Later(paused - now[w], 0) = 0 PROVE now[w] >= paused
    BY <2>4, <2>6 DEF Later
  <2> QED
    BY <2>3, <2>4, <2>5, <2>6 DEF DelayOf
<1>2. Inductive /\ [Next]_vars =>
        [\A w \in Workers : pc[w] = "admit" /\ pc'[w] = "send" => now[w] >= paused]_vars
  BY <1>1
<1> QED
  BY <1>2, InductiveInvariant, PTL DEF Spec, PausesAreKept

\* However late an admission is saved after it read the clock, and although it
\* then sets the row back over midnight, what a day has over its limit is due to
\* such admissions, and there are no more of them than slots.
THEOREM DaysAreBounded == Spec => []DayIsBounded
<1> DEFINE Days == DaysAreCounted /\ CrossersHaveSlots
<1>1. Init => Days
  <2> SUFFICES ASSUME Init PROVE DaysAreCounted /\ CrossersHaveSlots
    OBVIOUS
  <2>0. Day(0) \in Nat /\ Day(MaxTime) \in Nat /\ Slots \in Nat /\ Rpd \in Nat
    BY DayGrows, ProviderAssumption, AdmissionAssumption
  <2>1. \A d : Cardinality(PendingOn(d)) = 0 /\ Cardinality(WaitingOn(d)) = 0
    <3>1. \A d : PendingOn(d) = {} /\ WaitingOn(d) = {}
      BY DEF Init, PendingOn, WaitingOn
    <3> QED
      BY <3>1, FS_EmptySet
  <2>2. /\ days = [d \in 0 .. Day(MaxTime) |-> 0]
        /\ crossed = [d \in 0 .. Day(MaxTime) + 1 |-> 0]
        /\ clock = 0 /\ usage.day = -1 /\ usage.daily = 0
    BY DEF Init, NoUsage
  <2>3. days \in [0 .. Day(MaxTime) -> Nat] /\ crossed \in [0 .. Day(MaxTime) + 1 -> Nat]
    BY <2>2
  <2>4. \A d \in 0 .. Day(MaxTime) :
          CountOf(d) = 0 /\ crossed[d] = 0 /\ crossed[d + 1] = 0
    BY <2>0, <2>1, <2>2 DEF CountOf
  <2>5. DaysAreCounted
    BY <2>0, <2>2, <2>3, <2>4 DEF DaysAreCounted
  <2>6. CrossersHaveSlots
    BY <2>0, <2>1, <2>2 DEF CrossersHaveSlots
  <2> QED
    BY <2>5, <2>6
<1>2. Inductive /\ Inductive' /\ Days /\ [Next]_vars => Days'
  BY DaysNext, CrossersNext DEF Inductive, Budget
<1>3. Inductive /\ Days => DayIsBounded
  <2> SUFFICES ASSUME Typed, DaysAreCounted, CrossersHaveSlots, Rpd # 0, NEW d \in DOMAIN days
               PROVE  days[d] <= Rpd * (1 + crossed[d]) + crossed[d + 1] /\ crossed[d] <= Slots
    BY DEF DayIsBounded, Inductive
  <2>1. d \in 0 .. Day(MaxTime)
    BY DEF DaysAreCounted
  <2>2. d \in Int /\ d \in 0 .. Day(MaxTime) + 1 /\ d + 1 \in 0 .. Day(MaxTime) + 1 /\ Day(clock) \in Nat
    BY <2>1, ClockHasDay
  <2>3. crossed[d] \in Nat /\ crossed[d + 1] \in Nat /\ Rpd \in Nat /\ Slots \in Nat
    BY <2>2, ProviderAssumption, AdmissionAssumption DEF DaysAreCounted
  <2>4. Rpd * crossed[d] \in Nat /\ Rpd * (1 + crossed[d]) = Rpd + Rpd * crossed[d]
    BY <2>3, Distributes
  <2>5. days[d] \in Nat /\ CountOf(d) \in Nat /\ days[d] <= CountOf(d)
    <3>1. PendingOn(d) \subseteq Workers /\ IsFiniteSet(Workers)
      BY ProviderAssumption DEF PendingOn
    <3>2. Cardinality(PendingOn(d)) \in Nat
      BY <3>1, FS_Subset, FS_CardinalityType
    <3>3. days[d] \in Nat
      BY <2>1 DEF DaysAreCounted
    <3> QED
      BY <3>2, <3>3 DEF CountOf
  <2>6. /\ d > Day(clock) => CountOf(d) = 0
        /\ d = Day(clock) => CountOf(d) <= (IF usage.day = d THEN usage.daily ELSE 0) + Rpd * crossed[d]
        /\ d < Day(clock) => CountOf(d) <= Rpd * (1 + crossed[d]) + crossed[d + 1]
        /\ usage.daily <= Rpd
    BY <2>1 DEF DaysAreCounted
  <2>7. days[d] <= Rpd * (1 + crossed[d]) + crossed[d + 1]
    <3> DEFINE fewer == Rpd * crossed[d]  more == Rpd * (1 + crossed[d])
    <3>1. fewer \in Nat /\ more = Rpd + fewer
      BY <2>4
    <3>2. /\ d = Day(clock) => CountOf(d) <= (IF usage.day = d THEN usage.daily ELSE 0) + fewer
          /\ d < Day(clock) => CountOf(d) <= more + crossed[d + 1]
      BY <2>6
    <3> HIDE DEF fewer, more
    <3>3. CountOf(d) <= more + crossed[d + 1]
      BY <2>2, <2>3, <2>5, <2>6, <3>1, <3>2, ClockHasDay
    <3>4. days[d] <= more + crossed[d + 1]
      BY <2>3, <2>5, <3>1, <3>3
    <3> QED
      BY <3>4 DEF more
  <2>8. crossed[d] <= Slots
    <3>1. WaitingOn(d) \subseteq Workers /\ IsFiniteSet(Workers)
      BY ProviderAssumption DEF WaitingOn
    <3>2. Cardinality(WaitingOn(d)) \in Nat
      BY <3>1, FS_Subset, FS_CardinalityType
    <3>3. crossed[d] + Cardinality(WaitingOn(d)) <= Slots
      BY <2>2 DEF CrossersHaveSlots
    <3> QED
      BY <2>3, <3>2, <3>3
  <2> QED
    BY <2>7, <2>8
<1> HIDE DEF Days
<1> QED
  BY <1>1, <1>2, <1>3, InductiveInvariant, PTL DEF Spec
-----------------------------------------------------------------------------
(***************************************************************************)
(* Sums over finite sets.  The fold of MapThenSumSet picks the elements of *)
(* a set in some order; g is the function by which it does so for f on the *)
(* subsets of A.  A property of all subsets is shown by a smallest one     *)
(* without it.                                                             *)
(***************************************************************************)
Picked(s) == CHOOSE x \in s : TRUE

IsTotal(g, f, A) ==
  g = [s \in SUBSET A |-> IF s = {} THEN 0 ELSE f[Picked(s)] + g[s \ {Picked(s)}]]

LEMMA PickedIsIn ==
  ASSUME NEW s, s # {}
  PROVE  Picked(s) \in s
BY DEF Picked

\* Of some subsets of a finite set one is the smallest.
LEMMA SmallestIsThere ==
  ASSUME NEW A, IsFiniteSet(A), NEW X \in SUBSET (SUBSET A), X # {}
  PROVE  \E s \in X : \A t \in X : Cardinality(s) <= Cardinality(t)
<1> DEFINE sizes == {Cardinality(s) : s \in X}
<1>1. \A s \in X : Cardinality(s) \in Nat
  BY FS_Subset, FS_CardinalityType
<1>2. sizes \in SUBSET Nat /\ sizes # {}
  BY <1>1
<1>3. PICK l \in sizes : \A n \in sizes : l <= n
  BY <1>2, LeastIsThere
<1> QED
  BY <1>3

LEMMA WithoutIsSmaller ==
  ASSUME NEW A, IsFiniteSet(A), NEW s \in SUBSET A, NEW x \in s
  PROVE  /\ s \ {x} \in SUBSET A
         /\ Cardinality(s) \in Nat /\ Cardinality(s \ {x}) \in Nat
         /\ Cardinality(s \ {x}) = Cardinality(s) - 1
<1>1. IsFiniteSet(s)
  BY FS_Subset
<1>2. IsFiniteSet(s \ {x}) /\ Cardinality(s \ {x}) = Cardinality(s) - 1
  BY <1>1, FS_RemoveElement
<1> QED
  BY <1>1, <1>2, FS_CardinalityType

\* There is a function of sums.
LEMMA TotalIsThere ==
  ASSUME NEW A, IsFiniteSet(A), NEW f \in [A -> Nat]
  PROVE  \E g : IsTotal(g, f, A)
<1> DEFINE Sums(g, s) == IF s = {} THEN 0 ELSE f[Picked(s)] + g[s \ {Picked(s)}]
           UpTo(n) == \E g \in [SUBSET A -> Nat] :
                        \A s \in SUBSET A : Cardinality(s) <= n => g[s] = Sums(g, s)
           Bad == {n \in Nat : ~UpTo(n)}
<1>1. \A s \in SUBSET A : Cardinality(s) \in Nat /\ (Cardinality(s) = 0 => s = {})
  BY FS_Subset, FS_CardinalityType, FS_EmptySet
<1>2. UpTo(0)
  <2>1. [s \in SUBSET A |-> 0] \in [SUBSET A -> Nat]
    OBVIOUS
  <2>2. \A s \in SUBSET A : Cardinality(s) <= 0 => s = {}
    BY <1>1
  <2> QED
    BY <2>1, <2>2
<1>3. ASSUME NEW n \in Nat, UpTo(n) PROVE UpTo(n + 1)
  <2>1. PICK g \in [SUBSET A -> Nat] :
          \A s \in SUBSET A : Cardinality(s) <= n => g[s] = Sums(g, s)
    BY <1>3
  <2> DEFINE h == [s \in SUBSET A |-> Sums(g, s)]
  <2>2. ASSUME NEW s \in SUBSET A, s # {}
        PROVE  /\ Picked(s) \in A /\ s \ {Picked(s)} \in SUBSET A
               /\ Cardinality(s) \in Nat /\ Cardinality(s \ {Picked(s)}) \in Nat
               /\ Cardinality(s \ {Picked(s)}) = Cardinality(s) - 1
    <3>1. Picked(s) \in s
      BY <2>2, PickedIsIn
    <3> QED
      BY <3>1, WithoutIsSmaller
  <2>3. h \in [SUBSET A -> Nat]
    <3> SUFFICES ASSUME NEW s \in SUBSET A PROVE Sums(g, s) \in Nat
      OBVIOUS
    <3>1. CASE s = {}
      BY <3>1
    <3>2. CASE s # {}
      <4>1. f[Picked(s)] \in Nat /\ g[s \ {Picked(s)}] \in Nat
        BY <2>2, <3>2
      <4> QED
        BY <3>2, <4>1
    <3> QED
      BY <3>1, <3>2
  <2>4. ASSUME NEW s \in SUBSET A, Cardinality(s) <= n PROVE h[s] = g[s]
    BY <2>1, <2>4
  <2>5. ASSUME NEW s \in SUBSET A, Cardinality(s) <= n + 1 PROVE h[s] = Sums(h, s)
    <3>1. h[s] = Sums(g, s)
      OBVIOUS
    <3>2. CASE s = {}
      BY <3>1, <3>2
    <3>3. CASE s # {}
      <4>1. s \ {Picked(s)} \in SUBSET A /\ Cardinality(s \ {Picked(s)}) <= n
        BY <2>2, <2>5, <3>3
      <4>2. h[s \ {Picked(s)}] = g[s \ {Picked(s)}]
        BY <2>4, <4>1
      <4> HIDE DEF h
      <4> QED
        BY <3>1, <3>3, <4>2
    <3> QED
      BY <3>2, <3>3
  <2> HIDE DEF h, Sums
  <2> QED
    BY <2>3, <2>5
<1>4. \A n \in Nat : UpTo(n)
  <2>1. SUFFICES ASSUME Bad # {} PROVE FALSE
    OBVIOUS
  <2>2. PICK l \in Bad : \A n \in Bad : l <= n
    <3> HIDE DEF UpTo
    <3> QED
      BY <2>1, LeastIsThere
  <2> HIDE DEF UpTo
  <2>3. l # 0 /\ l \in Nat
    BY <1>2, <2>2
  <2>4. l - 1 \in Nat /\ l - 1 \notin Bad
    BY <2>2, <2>3
  <2>5. UpTo((l - 1) + 1)
    BY <1>3, <2>4
  <2>6. (l - 1) + 1 = l
    BY <2>3
  <2> QED
    BY <2>2, <2>5, <2>6
<1>5. Cardinality(A) \in Nat
  BY FS_CardinalityType
<1>6. PICK g \in [SUBSET A -> Nat] :
        \A s \in SUBSET A : Cardinality(s) <= Cardinality(A) => g[s] = Sums(g, s)
  BY <1>4, <1>5
<1>7. \A s \in SUBSET A : g[s] = Sums(g, s)
  BY <1>6, FS_Subset
<1>8. g = [s \in SUBSET A |-> Sums(g, s)]
  <2> HIDE DEF Sums
  <2> QED
    BY <1>6, <1>7
<1> QED
  BY <1>8 DEF IsTotal

LEMMA TotalType ==
  ASSUME NEW A, IsFiniteSet(A), NEW f \in [A -> Nat], NEW g, IsTotal(g, f, A)
  PROVE  \A s \in SUBSET A : g[s] \in Nat
<1> DEFINE Bad == {s \in SUBSET A : g[s] \notin Nat}
<1>1. \A s \in SUBSET A : g[s] = IF s = {} THEN 0 ELSE f[Picked(s)] + g[s \ {Picked(s)}]
  BY DEF IsTotal
<1>2. SUFFICES ASSUME Bad # {} PROVE FALSE
  OBVIOUS
<1>3. PICK s \in Bad : \A t \in Bad : Cardinality(s) <= Cardinality(t)
  BY <1>2, SmallestIsThere
<1>4. s # {}
  BY <1>1, <1>3
<1>5. Picked(s) \in s /\ s \in SUBSET A
  BY <1>3, <1>4, PickedIsIn
<1>6. s \ {Picked(s)} \in SUBSET A /\ ~(Cardinality(s) <= Cardinality(s \ {Picked(s)}))
  BY <1>5, WithoutIsSmaller
<1>7. g[s \ {Picked(s)}] \in Nat /\ f[Picked(s)] \in Nat
  BY <1>3, <1>5, <1>6
<1> QED
  BY <1>1, <1>3, <1>4, <1>5, <1>7

\* The order in which elements are picked makes no difference.
LEMMA TotalOfAny ==
  ASSUME NEW A, IsFiniteSet(A), NEW f \in [A -> Nat], NEW g, IsTotal(g, f, A)
  PROVE  \A s \in SUBSET A : \A x \in s : g[s] = f[x] + g[s \ {x}]
<1> DEFINE Bad == {s \in SUBSET A : \E x \in s : g[s] # f[x] + g[s \ {x}]}
<1>1. \A s \in SUBSET A : s # {} => g[s] = f[Picked(s)] + g[s \ {Picked(s)}]
  BY DEF IsTotal
<1>2. SUFFICES ASSUME Bad # {} PROVE FALSE
  OBVIOUS
<1>3. PICK s \in Bad : \A t \in Bad : Cardinality(s) <= Cardinality(t)
  BY <1>2, SmallestIsThere
<1>4. PICK x \in s : g[s] # f[x] + g[s \ {x}]
  BY <1>3
<1> DEFINE y == Picked(s)
<1>5. s \in SUBSET A /\ y \in s /\ x \in A /\ y \in A
  BY <1>3, <1>4, PickedIsIn
<1>6. g[s] = f[y] + g[s \ {y}]
  BY <1>1, <1>5
<1> HIDE DEF y
<1>7. x # y
  BY <1>4, <1>6
<1>8. /\ s \ {x} \in SUBSET A /\ ~(Cardinality(s) <= Cardinality(s \ {x}))
      /\ s \ {y} \in SUBSET A /\ ~(Cardinality(s) <= Cardinality(s \ {y}))
  BY <1>5, WithoutIsSmaller
<1>9. g[s \ {y}] = f[x] + g[(s \ {y}) \ {x}]
  BY <1>3, <1>5, <1>7, <1>8
<1>10. g[s \ {x}] = f[y] + g[(s \ {x}) \ {y}]
  BY <1>3, <1>5, <1>7, <1>8
<1>11. (s \ {y}) \ {x} = (s \ {x}) \ {y} /\ (s \ {y}) \ {x} \in SUBSET A
  BY <1>5
<1>12. g[(s \ {y}) \ {x}] \in Nat /\ f[x] \in Nat /\ f[y] \in Nat
  BY <1>5, <1>11, TotalType
<1>13. g[s] = f[y] + (f[x] + g[(s \ {y}) \ {x}]) /\ g[s \ {x}] = f[y] + g[(s \ {y}) \ {x}]
  BY <1>6, <1>9, <1>10, <1>11
<1> DEFINE rest == g[(s \ {y}) \ {x}]
<1> HIDE DEF rest
<1>14. g[s] = f[y] + (f[x] + rest) /\ g[s \ {x}] = f[y] + rest /\ rest \in Nat
  BY <1>12, <1>13 DEF rest
<1>15. f[y] + (f[x] + rest) = f[x] + (f[y] + rest)
  BY <1>12, <1>14
<1> QED
  BY <1>4, <1>14, <1>15

\* What is mapped one to one to something at least as much sums up to no more.
LEMMA TotalIsWithin ==
  ASSUME NEW A, IsFiniteSet(A), NEW f \in [A -> Nat], NEW g, IsTotal(g, f, A),
         NEW B, IsFiniteSet(B), NEW k \in [B -> Nat], NEW h, IsTotal(h, k, B),
         NEW s \in SUBSET A, NEW r \in SUBSET B, NEW m \in [s -> r],
         \A a, b \in s : m[a] = m[b] => a = b,
         \A a \in s : f[a] <= k[m[a]]
  PROVE  g[s] <= h[r]
<1> DEFINE Within(t, q) == (\A a \in t : m[a] \in q) => g[t] <= h[q]
           Bad == {t \in SUBSET A : t \subseteq s /\ \E q \in SUBSET r : ~Within(t, q)}
<1>1. \A t \in SUBSET A : g[t] \in Nat /\ \A q \in SUBSET B : h[q] \in Nat
  BY TotalType
<1>2. SUFFICES ASSUME Bad # {} PROVE FALSE
  <2>1. s \notin Bad => Within(s, r)
    OBVIOUS
  <2>2. \A a \in s : m[a] \in r
    OBVIOUS
  <2> QED
    BY <2>1, <2>2
<1>3. PICK t \in Bad : \A u \in Bad : Cardinality(t) <= Cardinality(u)
  <2>1. Bad \in SUBSET (SUBSET A)
    OBVIOUS
  <2> HIDE DEF Bad
  <2> QED
    BY <1>2, <2>1, SmallestIsThere
<1>4. PICK q \in SUBSET r : ~Within(t, q)
  BY <1>3
<1>5. t \in SUBSET A /\ t \subseteq s /\ q \in SUBSET B /\ (\A a \in t : m[a] \in q) /\ ~(g[t] <= h[q])
  BY <1>3, <1>4
<1>6. t # {}
  <2>1. g[{}] = 0
    BY DEF IsTotal
  <2>2. h[q] \in Nat
    BY <1>1, <1>5
  <2>3. ~(0 <= h[q]) \/ t # {}
    BY <1>5, <2>1
  <2> QED
    BY <2>2, <2>3
<1>7. PICK x \in t : TRUE
  BY <1>6
<1>8. t \ {x} \in SUBSET A /\ ~(Cardinality(t) <= Cardinality(t \ {x}))
  BY <1>5, WithoutIsSmaller
<1>9. Within(t \ {x}, q \ {m[x]})
  <2>1. t \ {x} \notin Bad
    <3> HIDE DEF Bad
    <3> QED
      BY <1>3, <1>8
  <2>2. t \ {x} \subseteq s /\ q \ {m[x]} \in SUBSET r
    BY <1>4, <1>5
  <2> HIDE DEF Within
  <2> QED
    BY <1>8, <2>1, <2>2
<1>10. \A a \in t \ {x} : m[a] \in q \ {m[x]}
  BY <1>5
<1>11. g[t \ {x}] <= h[q \ {m[x]}]
  BY <1>9, <1>10
<1>12. g[t] = f[x] + g[t \ {x}]
  BY <1>5, TotalOfAny
<1>13. m[x] \in q /\ m[x] \in B
  BY <1>5
<1>14. h[q] = k[m[x]] + h[q \ {m[x]}]
  BY <1>5, <1>13, TotalOfAny
<1>15. /\ f[x] \in Nat /\ k[m[x]] \in Nat /\ f[x] <= k[m[x]]
       /\ g[t \ {x}] \in Nat /\ h[q \ {m[x]}] \in Nat
  <2>1. x \in s /\ x \in A /\ q \ {m[x]} \in SUBSET B
    BY <1>5
  <2> QED
    BY <1>1, <1>8, <1>13, <2>1
<1> QED
  BY <1>5, <1>11, <1>12, <1>14, <1>15
-----------------------------------------------------------------------------
(***************************************************************************)
(* The tokens of a minute.                                                 *)
(***************************************************************************)
UsesOf(S) == MapThenSumSet(LAMBDA s : s.uses, S)

\* Where a request is counted.
Reserving == {"send", "sent", "refused", "settle"}

\* A request has one event, which holds its reservation until it is settled;
\* no reservation is more than a window holds.
ReservationsStand ==
  /\ \A e \in usage.events : e.tokens \in Nat /\ e.id <= requests
  /\ \A e, f \in usage.events : e.id = f.id => e = f
  /\ \A e \in usage.events : \A w \in Workers :
       pc[w] # "idle" /\ e.id = id[w] => pc[w] \in Reserving /\ e.tokens = need[w]
  /\ \A w \in Workers : pc[w] # "idle" => need[w] <= Limit(Tpm)

\* What a request uses is within its reservation, and what is settled is that.
UsesAreReserved ==
  /\ \A s \in sends : \A w \in Workers : pc[w] # "idle" /\ s.id = id[w] => s.uses <= need[w]
  /\ \A w \in Workers : used[w] # Unknown =>
       /\ pc[w] = "settle" /\ used[w] \in Nat /\ used[w] <= need[w]
       /\ \A s \in sends : s.id = id[w] => s.uses = used[w]

\* The event of a sent request is worth what it uses, until its minute is over.
SentAreReserved ==
  \A s \in sends : clock + Lag < s.at + Window =>
    \E e \in usage.events : e.id = s.id /\ s.uses <= e.tokens

RowHolds == TokensOf(usage.events) <= Limit(Tpm)

TokensCounted == ReservationsStand /\ UsesAreReserved /\ SentAreReserved /\ RowHolds

\* The sums of the model are totals.
LEMMA TokensAreTotal ==
  ASSUME NEW E, IsFiniteSet(E), \A e \in E : e.tokens \in Nat
  PROVE  \E g : IsTotal(g, [e \in E |-> e.tokens], E) /\ TokensOf(E) = g[E]
<1> DEFINE f == [e \in E |-> e.tokens]
           Sums(g) == [s \in SUBSET E |-> IF s = {} THEN 0 ELSE f[Picked(s)] + g[s \ {Picked(s)}]]
           Folded(g) == [s \in SUBSET E |-> IF s = {} THEN 0 ELSE Picked(s).tokens + g[s \ {Picked(s)}]]
<1>1. ASSUME NEW g PROVE Sums(g) = Folded(g)
  <2>1. \A s \in SUBSET E : s # {} => f[Picked(s)] = Picked(s).tokens
    BY PickedIsIn
  <2> HIDE DEF f
  <2> QED
    BY <2>1
<1>2. PICK h : h = Sums(h)
  <2>1. f \in [E -> Nat]
    OBVIOUS
  <2> HIDE DEF f
  <2>2. PICK h : IsTotal(h, f, E)
    BY <2>1, TotalIsThere
  <2>3. h = Sums(h)
    BY <2>2 DEF IsTotal
  <2> HIDE DEF Sums
  <2> QED
    BY <2>3
<1>3. h = Folded(h)
  BY <1>1, <1>2
<1>4. \E g : g = Folded(g) /\ TokensOf(E) = g[E]
  BY <1>3 DEF TokensOf, MapThenSumSet, MapThenFoldSet, Picked
<1>5. PICK g : g = Folded(g) /\ TokensOf(E) = g[E]
  BY <1>4
<1>6. g = Sums(g)
  <2> HIDE DEF Sums, Folded
  <2> QED
    BY <1>1, <1>5
<1> QED
  BY <1>5, <1>6 DEF IsTotal

LEMMA UsesAreTotal ==
  ASSUME NEW S, IsFiniteSet(S), \A s \in S : s.uses \in Nat
  PROVE  \E g : IsTotal(g, [s \in S |-> s.uses], S) /\ UsesOf(S) = g[S]
<1> DEFINE f == [s \in S |-> s.uses]
           Sums(g) == [s \in SUBSET S |-> IF s = {} THEN 0 ELSE f[Picked(s)] + g[s \ {Picked(s)}]]
           Folded(g) == [s \in SUBSET S |-> IF s = {} THEN 0 ELSE Picked(s).uses + g[s \ {Picked(s)}]]
<1>1. ASSUME NEW g PROVE Sums(g) = Folded(g)
  <2>1. \A s \in SUBSET S : s # {} => f[Picked(s)] = Picked(s).uses
    BY PickedIsIn
  <2> HIDE DEF f
  <2> QED
    BY <2>1
<1>2. PICK h : h = Sums(h)
  <2>1. f \in [S -> Nat]
    OBVIOUS
  <2> HIDE DEF f
  <2>2. PICK h : IsTotal(h, f, S)
    BY <2>1, TotalIsThere
  <2>3. h = Sums(h)
    BY <2>2 DEF IsTotal
  <2> HIDE DEF Sums
  <2> QED
    BY <2>3
<1>3. h = Folded(h)
  BY <1>1, <1>2
<1>4. \E g : g = Folded(g) /\ UsesOf(S) = g[S]
  BY <1>3 DEF UsesOf, MapThenSumSet, MapThenFoldSet, Picked
<1>5. PICK g : g = Folded(g) /\ UsesOf(S) = g[S]
  BY <1>4
<1>6. g = Sums(g)
  <2> HIDE DEF Sums, Folded
  <2> QED
    BY <1>1, <1>5
<1> QED
  BY <1>5, <1>6 DEF IsTotal

\* Events that stand for others, one for one and with no less, are worth no less.
LEMMA TokensWithin ==
  ASSUME NEW E, IsFiniteSet(E), \A e \in E : e.tokens \in Nat,
         NEW F, IsFiniteSet(F), \A e \in F : e.tokens \in Nat,
         NEW m \in [E -> F], \A d, e \in E : m[d] = m[e] => d = e,
         \A e \in E : e.tokens <= m[e].tokens
  PROVE  TokensOf(E) \in Nat /\ TokensOf(F) \in Nat /\ TokensOf(E) <= TokensOf(F)
<1> DEFINE f == [e \in E |-> e.tokens]
           k == [e \in F |-> e.tokens]
<1>1. PICK g : IsTotal(g, f, E) /\ TokensOf(E) = g[E]
  BY TokensAreTotal
<1>2. PICK h : IsTotal(h, k, F) /\ TokensOf(F) = h[F]
  BY TokensAreTotal
<1>3. f \in [E -> Nat] /\ k \in [F -> Nat] /\ \A e \in E : f[e] <= k[m[e]]
  OBVIOUS
<1>4. E \in SUBSET E /\ F \in SUBSET F
  OBVIOUS
<1> HIDE DEF f, k
<1>5. g[E] \in Nat /\ h[F] \in Nat
  BY <1>1, <1>2, <1>3, <1>4, TotalType
<1>6. g[E] <= h[F]
  BY <1>1, <1>2, <1>3, <1>4, TotalIsWithin
<1> QED
  BY <1>1, <1>2, <1>5, <1>6

LEMMA UsesWithinTokens ==
  ASSUME NEW S, IsFiniteSet(S), \A s \in S : s.uses \in Nat,
         NEW F, IsFiniteSet(F), \A e \in F : e.tokens \in Nat,
         NEW m \in [S -> F], \A r, s \in S : m[r] = m[s] => r = s,
         \A s \in S : s.uses <= m[s].tokens
  PROVE  UsesOf(S) \in Nat /\ UsesOf(S) <= TokensOf(F)
<1> DEFINE f == [s \in S |-> s.uses]
           k == [e \in F |-> e.tokens]
<1>1. PICK g : IsTotal(g, f, S) /\ UsesOf(S) = g[S]
  BY UsesAreTotal
<1>2. PICK h : IsTotal(h, k, F) /\ TokensOf(F) = h[F]
  BY TokensAreTotal
<1>3. f \in [S -> Nat] /\ k \in [F -> Nat] /\ \A s \in S : f[s] <= k[m[s]]
  OBVIOUS
<1>4. S \in SUBSET S /\ F \in SUBSET F
  OBVIOUS
<1> HIDE DEF f, k
<1>5. g[S] \in Nat
  BY <1>1, <1>3, <1>4, TotalType
<1>6. g[S] <= h[F]
  BY <1>1, <1>2, <1>3, <1>4, TotalIsWithin
<1> QED
  BY <1>1, <1>2, <1>5, <1>6

LEMMA FewerUseLess ==
  ASSUME NEW S, IsFiniteSet(S), \A s \in S : s.uses \in Nat, NEW R \in SUBSET S
  PROVE  UsesOf(R) \in Nat /\ UsesOf(S) \in Nat /\ UsesOf(R) <= UsesOf(S)
<1> DEFINE f == [s \in R |-> s.uses]
           k == [s \in S |-> s.uses]
           m == [s \in R |-> s]
<1>1. IsFiniteSet(R)
  BY FS_Subset
<1>2. PICK g : IsTotal(g, f, R) /\ UsesOf(R) = g[R]
  BY <1>1, UsesAreTotal
<1>3. PICK h : IsTotal(h, k, S) /\ UsesOf(S) = h[S]
  BY UsesAreTotal
<1>4. f \in [R -> Nat] /\ k \in [S -> Nat] /\ \A s \in R : f[s] <= k[m[s]]
  OBVIOUS
<1>5. m \in [R -> S] /\ \A r, s \in R : m[r] = m[s] => r = s
  OBVIOUS
<1>6. R \in SUBSET R /\ S \in SUBSET S
  OBVIOUS
<1> HIDE DEF f, k, m
<1>7. g[R] \in Nat /\ h[S] \in Nat
  BY <1>1, <1>2, <1>3, <1>4, <1>6, TotalType
<1>8. g[R] <= h[S]
  BY <1>1, <1>2, <1>3, <1>4, <1>5, <1>6, TotalIsWithin
<1> QED
  BY <1>2, <1>3, <1>7, <1>8

\* An event more is worth its tokens more; no event is worth nothing.
LEMMA TokensWith ==
  ASSUME NEW E, IsFiniteSet(E), NEW x, x \notin E, \A e \in E \cup {x} : e.tokens \in Nat
  PROVE  TokensOf(E \cup {x}) <= TokensOf(E) + x.tokens
<1> DEFINE F == E \cup {x}
           f == [e \in E |-> e.tokens]
           k == [e \in F |-> e.tokens]
           m == [e \in E |-> e]
<1>1. IsFiniteSet(F)
  BY FS_AddElement
<1>2. PICK g : IsTotal(g, f, E) /\ TokensOf(E) = g[E]
  BY TokensAreTotal
<1>3. PICK h : IsTotal(h, k, F) /\ TokensOf(F) = h[F]
  BY <1>1, TokensAreTotal
<1>4. /\ f \in [E -> Nat] /\ k \in [F -> Nat] /\ k[x] = x.tokens /\ x \in F
      /\ \A e \in E : k[e] <= f[m[e]]
  OBVIOUS
<1>5. m \in [E -> E] /\ \A d, e \in E : m[d] = m[e] => d = e
  OBVIOUS
<1>6. E \in SUBSET E /\ E \in SUBSET F /\ F \in SUBSET F /\ F \ {x} = E
  OBVIOUS
<1> HIDE DEF f, k, m, F
<1>7. h[F] = k[x] + h[E]
  BY <1>1, <1>3, <1>4, <1>6, TotalOfAny
<1>8. h[E] <= g[E]
  BY <1>1, <1>2, <1>3, <1>4, <1>5, <1>6, TotalIsWithin
<1>9. h[E] \in Nat /\ g[E] \in Nat /\ k[x] \in Nat
  BY <1>1, <1>2, <1>3, <1>4, <1>6, TotalType
<1>10. h[F] <= g[E] + k[x]
  BY <1>7, <1>8, <1>9
<1> QED
  BY <1>2, <1>3, <1>4, <1>10 DEF F

LEMMA TokensOfNone == TokensOf({}) = 0
<1>1. IsFiniteSet({}) /\ \A e \in {} : e.tokens \in Nat
  BY FS_EmptySet
<1>2. PICK g : IsTotal(g, [e \in {} |-> e.tokens], {}) /\ TokensOf({}) = g[{}]
  BY <1>1, TokensAreTotal
<1> QED
  BY <1>2 DEF IsTotal
-----------------------------------------------------------------------------
\* The events of a row that settles one of its requests.
LEMMA SettledEvents ==
  ASSUME Typed, NEW i, NEW n \in Int
  PROVE  LET Same(e, f) == /\ f.id = e.id /\ f.at = e.at
                           /\ f.tokens = IF e.id = i THEN n ELSE e.tokens
         IN  /\ \A e \in usage.events : \E f \in SettledAs(usage, i, n).events : Same(e, f)
             /\ \A f \in SettledAs(usage, i, n).events : \E e \in usage.events : Same(e, f)
<1> DEFINE as(e) == IF e.id = i THEN [e EXCEPT !.tokens = n] ELSE e
           T == {as(e) : e \in usage.events}
<1>1. usage \in Rows /\ \A e \in usage.events : e \in Events
  BY DEF Typed, Rows
<1>2. \A e \in usage.events :
        /\ as(e).id = e.id /\ as(e).at = e.at
        /\ as(e).tokens = IF e.id = i THEN n ELSE e.tokens
  BY <1>1 DEF Events
<1>3. SettledAs(usage, i, n).events = T
  BY <1>1 DEF SettledAs, Rows
<1> HIDE DEF as
<1> QED
  BY <1>2, <1>3

LEMMA EventIsItsFields ==
  ASSUME NEW e \in Events, NEW f \in Events, e.id = f.id, e.at = f.at, e.tokens = f.tokens
  PROVE  e = f
BY DEF Events

\* What the steps of a request do to the events.
Fewer   == usage'.events \subseteq usage.events
Counts(w) ==
  /\ pc[w] = "admit" /\ At(w, "send") /\ UNCHANGED <<id, need, used, requests, sends, clock>>
  /\ DelayOf(ReadAt(usage, now[w]), now[w], need[w]) = 0
  /\ usage' = Counted(ReadAt(usage, now[w]), id[w], now[w], need[w])
Settles(w) ==
  /\ pc[w] = "settle" /\ Leaves(w) /\ UNCHANGED <<requests, sends, clock>>
  /\ used[w] # Unknown /\ usage' = SettledAs(usage, id[w], used[w])

LEMMA EventsMove ==
  ASSUME Tpm # 0, Typed, [Next]_vars
  PROVE  Fewer \/ \E w \in Workers : Counts(w) \/ Settles(w)
<1>1. CASE UNCHANGED usage
  BY <1>1 DEF Fewer
<1>2. ASSUME NEW until \in Nat, Pauses(until) PROVE Fewer
  BY <1>2, PausedTyped DEF Fewer
<1>3. \A wait \in Refusals \cup {Window} : clock + wait \in Nat
  BY ProviderAssumption, AdmissionAssumption DEF Typed
<1>4. ASSUME NEW w \in Workers, Admit(w) PROVE Fewer \/ Counts(w)
  <2>1. CASE usage' \in {usage, ReadAt(usage, now[w])}
    BY <2>1, ReadTyped DEF Fewer, Typed
  <2>2. CASE /\ DelayOf(ReadAt(usage, now[w]), now[w], need[w]) = 0
             /\ usage' = Counted(ReadAt(usage, now[w]), id[w], now[w], need[w])
             /\ At(w, "send")
             /\ UNCHANGED <<free, id, need, deadline, now, wake, used, paused, faults>>
    BY <1>4, <2>2 DEF Admit, Counts
  <2> QED
    BY <1>4, <2>1, <2>2 DEF Admit, Unsaved
<1>5. ASSUME NEW w \in Workers, Settle(w) PROVE Fewer \/ Settles(w)
  <2>1. CASE Pauses(clock + Window)
    BY <1>2, <1>3, <2>1
  <2>2. CASE UNCHANGED usage
    BY <2>2 DEF Fewer
  <2>3. CASE used[w] # Unknown /\ usage' = SettledAs(usage, id[w], used[w])
    BY <1>5, <2>3 DEF Settle, Settles
  <2> QED
    BY <1>5, <2>1, <2>2, <2>3 DEF Settle, Unsaved
<1>6. ASSUME NEW w \in Workers, CountRefused(w) \/ CoolDown(w) PROVE Fewer
  <2>1. CASE \E wait \in Refusals : Pauses(clock + wait)
    BY <1>2, <1>3, <2>1
  <2>2. CASE UNCHANGED usage
    BY <2>2 DEF Fewer
  <2> QED
    BY <1>6, <2>1, <2>2 DEF CountRefused, CoolDown, Unsaved
<1> QED
  BY <1>1, <1>4, <1>5, <1>6 DEF Next, Work, Ask, Enter, Expire, ReadClock, Wake, Send, Answered, Crash, Tick, vars

\* What they do to the requests.
Goes(w) ==
  \E x \in States : /\ At(w, x) /\ pc[w] # "idle" /\ x # "idle" /\ (pc[w] \in Reserving => x \in Reserving)
                    /\ UNCHANGED <<id, need, requests>>
Ends(w) == Leaves(w) /\ pc[w] # "idle" /\ UNCHANGED requests

LEMMA RequestsMove ==
  ASSUME Typed, [Next]_vars
  PROVE  \/ \E w \in Workers : Goes(w) \/ Ends(w) \/ Ask(w)
         \/ Crash \/ UNCHANGED <<pc, id, need, requests>>
<1>1. ASSUME NEW w \in Workers, Admit(w) PROVE Goes(w) \/ Ends(w)
  <2>1. CASE Leaves(w)
    BY <1>1, <2>1 DEF Admit, Ends
  <2>2. CASE (At(w, "asleep") \/ At(w, "send")) /\ UNCHANGED <<id, need>>
    BY <1>1, <2>2 DEF Admit, Goes, States, Reserving
  <2> QED
    BY <1>1, <2>1, <2>2 DEF Admit
<1>2. ASSUME NEW w \in Workers, Enter(w) \/ ReadClock(w) \/ Wake(w) PROVE Goes(w)
  BY <1>2 DEF Enter, ReadClock, Wake, Goes, States, Reserving
<1>3. ASSUME NEW w \in Workers, Send(w) \/ Answered(w) \/ CoolDown(w) PROVE Goes(w)
  BY <1>3 DEF Send, Answered, CoolDown, Goes, States, Reserving
<1>4. ASSUME NEW w \in Workers, Expire(w) \/ CountRefused(w) \/ Settle(w) PROVE Ends(w)
  BY <1>4 DEF Expire, CountRefused, Settle, Ends
<1>5. CASE Tick \/ UNCHANGED vars
  BY <1>5 DEF Tick, vars, own
<1> QED
  BY <1>1, <1>2, <1>3, <1>4, <1>5 DEF Next, Work

\* Both of its sides are typed: how Leaves and Goes leave the other requests.
LEMMA OthersStay ==
  ASSUME Typed, NEW w \in Workers, Goes(w) \/ Ends(w) \/ Ask(w)
  PROVE  \A v \in Workers \ {w} : pc'[v] = pc[v] /\ id'[v] = id[v] /\ need'[v] = need[v]
BY DEF Typed, Goes, Ends, Ask, Leaves, At

LEMMA ReservationsNext ==
  ASSUME Tpm # 0, Typed, Typed', IdsAreFresh, ReservationsStand, UsesAreReserved, [Next]_vars
  PROVE  ReservationsStand'
<1> DEFINE Belongs(e, w) == pc[w] # "idle" /\ e.id = id[w] => pc[w] \in Reserving /\ e.tokens = need[w]
<1>0. /\ \A e \in usage.events : e \in Events /\ e.tokens \in Nat /\ e.id <= requests
      /\ \A e, f \in usage.events : e.id = f.id => e = f
      /\ \A e \in usage.events : \A w \in Workers : Belongs(e, w)
  BY DEF ReservationsStand, Typed, Rows
<1>1. requests' \in Nat /\ requests <= requests'
  BY DEF Typed, Next, Work, Ask, Enter, Expire, CountRefused, ReadClock, Admit, Wake, Send, Answered,
         CoolDown, Settle, Crash, Tick, vars
\* Reservations are within a window.
<1>2. ASSUME NEW v \in Workers, pc'[v] # "idle" PROVE need'[v] <= Limit(Tpm)
  <2>1. CASE pc[v] # "idle" /\ need'[v] = need[v]
    BY <2>1 DEF ReservationsStand
  <2>2. ASSUME NEW w \in Workers, Ask(w), v = w PROVE need'[v] <= Limit(Tpm)
    <3>1. PICK tokens \in Inputs : ~TooLarge(tokens) /\ need' = [need EXCEPT ![w] = tokens]
      BY <2>2 DEF Ask
    <3>2. need'[v] = tokens /\ tokens \in Nat
      BY <2>2, <3>1, ProviderAssumption DEF Typed
    <3>3. Limit(Tpm) \in Nat
      BY LimitIsPositive, AdmissionAssumption
    <3> QED
      BY <3>1, <3>2, <3>3 DEF TooLarge
  <2>3. ASSUME NEW w \in Workers, Goes(w) PROVE pc[v] # "idle" /\ need'[v] = need[v]
    BY <1>2, <2>3 DEF Goes, At, Typed
  <2>4. ASSUME NEW w \in Workers, Ends(w) PROVE v # w
    BY <1>2, <2>4 DEF Ends, Leaves, At, Typed
  <2>5. ASSUME Crash PROVE FALSE
    BY <1>2, <2>5 DEF Crash
  <2> QED
    BY <1>2, <2>1, <2>2, <2>3, <2>4, <2>5, RequestsMove, OthersStay
\* An event that stays with its identity and tokens stays that of its request.
<1>3. ASSUME NEW e \in usage.events, NEW f, f.id = e.id, f.tokens = e.tokens, NEW v \in Workers
      PROVE  pc'[v] # "idle" /\ f.id = id'[v] => pc'[v] \in Reserving /\ f.tokens = need'[v]
  <2> SUFFICES ASSUME pc'[v] # "idle", f.id = id'[v]
               PROVE  pc'[v] \in Reserving /\ f.tokens = need'[v]
    OBVIOUS
  <2>1. CASE UNCHANGED <<pc, id, need>>
    BY <1>0, <1>3, <2>1
  <2>2. ASSUME NEW w \in Workers, Goes(w) PROVE pc'[v] \in Reserving /\ f.tokens = need'[v]
    <3>1. PICK x \in States : /\ pc' = [pc EXCEPT ![w] = x] /\ pc[w] # "idle"
                              /\ (pc[w] \in Reserving => x \in Reserving)
                              /\ UNCHANGED <<id, need>>
      BY <2>2 DEF Goes, At
    <3>2. Belongs(e, v) /\ pc[v] # "idle" /\ e.id = id[v]
      BY <1>0, <1>3, <3>1 DEF Typed
    <3> QED
      BY <1>3, <3>1, <3>2 DEF Typed
  <2>3. ASSUME NEW w \in Workers, Ends(w) \/ Ask(w) PROVE pc'[v] \in Reserving /\ f.tokens = need'[v]
    <3>1. CASE v = w
      <4>1. Ask(w)
        BY <2>3, <3>1 DEF Ends, Leaves, At, Typed
      <4>2. id'[v] = requests + 1
        BY <3>1, <4>1 DEF Ask, Typed
      <4>3. e.id <= requests /\ requests \in Nat /\ e.id \in Nat
        BY <1>0 DEF Typed, Events
      <4>4. e.id = requests + 1
        BY <1>3, <4>2
      <4> QED
        BY <4>3, <4>4
    <3>2. CASE v # w
      <4>1. pc'[v] = pc[v] /\ id'[v] = id[v] /\ need'[v] = need[v]
        BY <2>3, <3>2, OthersStay
      <4> QED
        BY <1>0, <1>3, <4>1
    <3> QED
      BY <3>1, <3>2
  <2>4. ASSUME Crash PROVE FALSE
    BY <2>4 DEF Crash
  <2> QED
    BY <2>1, <2>2, <2>3, <2>4, RequestsMove
<1>4. CASE Fewer
  <2>1. \A e \in usage'.events : e \in usage.events
    BY <1>4 DEF Fewer
  <2>2. \A e \in usage'.events : e.tokens \in Nat /\ e.id <= requests'
    BY <1>0, <1>1, <2>1 DEF Typed, Events
  <2> QED
    BY <1>0, <1>2, <1>3, <2>1, <2>2 DEF ReservationsStand
<1>5. ASSUME NEW w \in Workers, Counts(w) PROVE ReservationsStand'
  <2> DEFINE event == [id |-> id[w], at |-> now[w], tokens |-> need[w]]
  <2>1. \A e \in usage'.events : e \in usage.events \/ e = event
    BY <1>5, ReadTyped, CountedTyped DEF Counts, Typed
  <2>2. pc[w] = "admit" /\ pc' = [pc EXCEPT ![w] = "send"] /\ UNCHANGED <<id, need, requests>>
    BY <1>5 DEF Counts, At
  <2>3. \A e \in usage.events : e.id # id[w]
    BY <1>0, <2>2 DEF Reserving
  <2>4. event.id = id[w] /\ event.tokens = need[w] /\ need[w] \in Nat /\ id[w] <= requests
    BY <2>2 DEF IdsAreFresh, Typed
  <2>5. ASSUME NEW v \in Workers, pc'[v] # "idle", id'[v] = id[w]
        PROVE  pc'[v] \in Reserving /\ need[w] = need'[v]
    <3>1. v = w
      BY <2>2, <2>5 DEF IdsAreFresh, Typed
    <3> QED
      BY <2>2, <3>1 DEF Typed, Reserving
  <2> HIDE DEF event
  <2>6. \A e \in usage'.events : e.tokens \in Nat /\ e.id <= requests'
    BY <1>0, <2>1, <2>2, <2>4
  <2>7. \A e, f \in usage'.events : e.id = f.id => e = f
    BY <1>0, <2>1, <2>3, <2>4
  <2>8. \A e \in usage'.events : \A v \in Workers :
          pc'[v] # "idle" /\ e.id = id'[v] => pc'[v] \in Reserving /\ e.tokens = need'[v]
    BY <1>3, <2>1, <2>4, <2>5
  <2> QED
    BY <1>2, <2>6, <2>7, <2>8 DEF ReservationsStand
<1>6. ASSUME NEW w \in Workers, Settles(w) PROVE ReservationsStand'
  <2>1. /\ pc[w] = "settle" /\ used[w] \in Nat /\ used[w] \in Int
        /\ usage' = SettledAs(usage, id[w], used[w])
    BY <1>6 DEF Settles, UsesAreReserved
  <2>2. \A f \in usage'.events : f \in Events /\ \E e \in usage.events :
          f.id = e.id /\ f.at = e.at /\ f.tokens = IF e.id = id[w] THEN used[w] ELSE e.tokens
    BY <2>1, SettledEvents DEF Typed, Rows
  <2>3. \A e \in usage'.events : e.tokens \in Nat /\ e.id <= requests'
    BY <1>0, <1>1, <2>1, <2>2 DEF Typed, Events
  <2>4. \A e, f \in usage'.events : e.id = f.id => e = f
    BY <1>0, <2>2, EventIsItsFields
  <2>5. ASSUME NEW f \in usage'.events, NEW v \in Workers, pc'[v] # "idle", f.id = id'[v]
        PROVE  pc'[v] \in Reserving /\ f.tokens = need'[v]
    <3>1. PICK e \in usage.events :
            f.id = e.id /\ f.tokens = IF e.id = id[w] THEN used[w] ELSE e.tokens
      BY <2>2
    <3>2. Ends(w) /\ v # w
      BY <1>6, <2>5 DEF Settles, Ends, Leaves, At, Typed
    <3>3. pc'[v] = pc[v] /\ id'[v] = id[v]
      BY <3>2, OthersStay
    <3>4. e.id # id[w]
      BY <2>1, <2>5, <3>1, <3>2, <3>3 DEF IdsAreFresh
    <3> QED
      BY <1>3, <2>5, <3>1, <3>4
  <2> QED
    BY <1>2, <2>3, <2>4, <2>5 DEF ReservationsStand
<1> QED
  BY <1>4, <1>5, <1>6, EventsMove

LEMMA UsesNext ==
  ASSUME Tpm # 0, Typed, Typed', IdsAreFresh, UsesAreReserved, [Next]_vars
  PROVE  UsesAreReserved'
<1>0. /\ \A w \in Workers : need[w] \in Nat /\ used[w] \in Int /\ id[w] \in Nat
      /\ \A s \in sends : s.uses \in Nat /\ s.id \in Nat /\ s.id <= requests
      /\ requests \in Nat /\ Unknown = -1
  BY DEF Typed, Sends, IdsAreFresh, Unknown
\* A step that leaves what the requests are and used, and sends nothing.
<1>1. ASSUME NEW w \in Workers, Goes(w), UNCHANGED used, sends' \subseteq sends, pc[w] # "settle"
      PROVE  UsesAreReserved'
  <2>1. used[w] = Unknown
    BY <1>1 DEF UsesAreReserved
  <2>2. \A v \in Workers : pc'[v] # "idle" => pc[v] # "idle"
    BY <1>1 DEF Goes, At, Typed
  <2>3. \A v \in Workers \ {w} : pc'[v] = pc[v]
    BY <1>1, OthersStay
  <2>4. UNCHANGED <<id, need>>
    BY <1>1 DEF Goes
  <2>5. \A s \in sends' : s \in sends
    BY <1>1
  <2> QED
    BY <1>1, <2>1, <2>2, <2>3, <2>4, <2>5 DEF UsesAreReserved
<1>2. ASSUME NEW w \in Workers, Ends(w), sends' \subseteq sends
      PROVE  UsesAreReserved'
  <2>1. /\ pc'[w] = "idle" /\ used'[w] = Unknown
        /\ \A v \in Workers \ {w} : used'[v] = used[v]
    BY <1>2 DEF Ends, Leaves, At, Typed
  <2>2. \A v \in Workers \ {w} : pc'[v] = pc[v] /\ id'[v] = id[v] /\ need'[v] = need[v]
    BY <1>2, OthersStay
  <2>3. \A s \in sends' : s \in sends
    BY <1>2
  <2> QED
    BY <2>1, <2>2, <2>3 DEF UsesAreReserved
<1>3. ASSUME NEW w \in Workers, Ask(w) PROVE UsesAreReserved'
  <2>1. /\ id'[w] = requests + 1 /\ UNCHANGED <<used, sends>> /\ pc[w] = "idle"
    BY <1>3 DEF Ask, Typed
  <2>2. \A v \in Workers \ {w} : pc'[v] = pc[v] /\ id'[v] = id[v] /\ need'[v] = need[v]
    BY <1>3, OthersStay
  <2>3. \A s \in sends : s.id # id'[w]
    BY <1>0, <2>1
  <2>4. used[w] = Unknown
    BY <2>1 DEF UsesAreReserved
  <2> QED
    BY <2>1, <2>2, <2>3, <2>4 DEF UsesAreReserved
<1>4. ASSUME NEW w \in Workers, Send(w) PROVE UsesAreReserved'
  <2>1. Goes(w) /\ UNCHANGED used /\ pc[w] = "send"
    BY <1>4 DEF Send, Goes, States, Reserving
  <2>2. CASE sends' = sends
    BY <1>1, <2>1, <2>2
  <2>3. CASE At(w, "sent") /\ \E uses \in 1 .. need[w] :
               sends' = sends \cup {[id |-> id[w], at |-> clock, uses |-> uses]}
    <3>1. PICK uses \in 1 .. need[w] :
            sends' = sends \cup {[id |-> id[w], at |-> clock, uses |-> uses]}
      BY <2>3
    <3>2. \A s \in sends' : s \in sends \/ (s.id = id[w] /\ s.uses <= need[w])
      BY <1>0, <3>1
    <3>3. UNCHANGED <<id, need>> /\ \A v \in Workers \ {w} : pc'[v] = pc[v]
      BY <2>1, OthersStay DEF Goes
    <3>4. \A v \in Workers \ {w} : pc[v] # "idle" => id[v] # id[w]
      BY <2>1 DEF IdsAreFresh
    <3>5. used[w] = Unknown
      BY <2>1 DEF UsesAreReserved
    <3>6. ASSUME NEW s \in sends', NEW v \in Workers, pc'[v] # "idle", s.id = id'[v]
          PROVE  s.uses <= need'[v]
      <4>1. CASE s \in sends /\ pc[v] # "idle"
        BY <3>3, <3>6, <4>1 DEF UsesAreReserved
      <4> QED
        BY <2>1, <3>2, <3>3, <3>4, <3>6, <4>1
    <3>7. ASSUME NEW v \in Workers, used'[v] # Unknown
          PROVE  /\ pc'[v] = "settle" /\ used'[v] \in Nat /\ used'[v] <= need'[v]
                 /\ \A s \in sends' : s.id = id'[v] => s.uses = used'[v]
      <4>1. v # w /\ used[v] # Unknown /\ used'[v] = used[v]
        BY <2>1, <3>5, <3>7
      <4>2. /\ pc[v] = "settle" /\ used[v] \in Nat /\ used[v] <= need[v]
            /\ \A s \in sends : s.id = id[v] => s.uses = used[v]
        BY <4>1 DEF UsesAreReserved
      <4>3. id[v] # id[w]
        BY <3>4, <4>1, <4>2
      <4> QED
        BY <3>2, <3>3, <4>1, <4>2, <4>3
    <3> QED
      BY <3>6, <3>7 DEF UsesAreReserved
  <2> QED
    BY <1>4, <2>2, <2>3 DEF Send
<1>5. ASSUME NEW w \in Workers, Answered(w) PROVE UsesAreReserved'
  <2>1. Goes(w) /\ UNCHANGED sends /\ pc[w] = "sent"
    BY <1>5 DEF Answered, Goes, States, Reserving
  <2>2. CASE UNCHANGED used
    BY <1>1, <2>1, <2>2
  <2>3. CASE At(w, "settle") /\ \E s \in sends : s.id = id[w] /\ used' = [used EXCEPT ![w] = s.uses]
    <3>1. PICK s \in sends : s.id = id[w] /\ used' = [used EXCEPT ![w] = s.uses]
      BY <2>3
    <3>2. UNCHANGED <<id, need>> /\ \A v \in Workers \ {w} : pc'[v] = pc[v]
      BY <2>1, OthersStay DEF Goes
    <3>3. /\ pc'[w] = "settle" /\ used'[w] = s.uses /\ s.uses \in Nat /\ s.uses <= need[w]
          /\ \A v \in Workers \ {w} : used'[v] = used[v]
      BY <1>0, <2>1, <2>3, <3>1 DEF UsesAreReserved, At, Typed
    <3>4. \A t \in sends : t.id = id[w] => t.uses = s.uses
      BY <3>1 DEF IdsAreFresh
    <3>5. \A v \in Workers : pc'[v] # "idle" => pc[v] # "idle"
      BY <2>1, <3>2
    <3> QED
      BY <2>1, <3>2, <3>3, <3>4, <3>5 DEF UsesAreReserved
  <2> QED
    BY <1>5, <2>2, <2>3 DEF Answered
<1>6. ASSUME NEW w \in Workers, Admit(w) PROVE UsesAreReserved'
  <2>1. CASE Leaves(w)
    BY <1>2, <1>6, <2>1 DEF Admit, Ends
  <2>2. CASE (At(w, "asleep") \/ At(w, "send")) /\ UNCHANGED <<id, need, used>>
    <3>1. Goes(w) /\ pc[w] # "settle" /\ UNCHANGED sends
      BY <1>6, <2>2 DEF Admit, Goes, States, Reserving
    <3> QED
      BY <1>1, <2>2, <3>1
  <2> QED
    BY <1>6, <2>1, <2>2 DEF Admit
<1>7. ASSUME NEW w \in Workers, Enter(w) \/ ReadClock(w) \/ Wake(w) \/ CoolDown(w)
      PROVE  UsesAreReserved'
  <2>1. Goes(w) /\ UNCHANGED <<used, sends>> /\ pc[w] # "settle"
    BY <1>7 DEF Enter, ReadClock, Wake, CoolDown, Goes, States, Reserving
  <2> QED
    BY <1>1, <2>1
<1>8. ASSUME NEW w \in Workers, Expire(w) \/ CountRefused(w) \/ Settle(w) PROVE UsesAreReserved'
  <2>1. Ends(w) /\ UNCHANGED sends
    BY <1>8 DEF Expire, CountRefused, Settle, Ends
  <2> QED
    BY <1>2, <2>1
<1>9. CASE Crash
  BY <1>9 DEF Crash, UsesAreReserved
<1>10. CASE Tick
  BY <1>10 DEF Tick, own, UsesAreReserved
<1>11. CASE UNCHANGED vars
  BY <1>11 DEF vars, own, UsesAreReserved
<1> QED
  BY <1>3, <1>4, <1>5, <1>6, <1>7, <1>8, <1>9, <1>10, <1>11 DEF Next, Work

\* A row never holds more than a window's tokens.
LEMMA AdmittedHasTokens ==
  ASSUME Tpm # 0, Typed, ReservationsStand, NEW w \in Workers, pc[w] = "admit",
         DelayOf(ReadAt(usage, now[w]), now[w], need[w]) = 0
  PROVE  TokensOf(ReadAt(usage, now[w]).events) + need[w] <= Limit(Tpm)
<1> DEFINE read == ReadAt(usage, now[w])
           ends == {e.at : e \in read.events}
           pause == Later(read.notBefore - now[w], 0)
           kept == TokensOf(read.events)
<1>1. /\ now[w] \in Nat /\ need[w] \in Nat
      /\ read \in Rows /\ read.events = {e \in usage.events : e.at + Window > now[w]}
      /\ IsFiniteSet(read.events)
  BY ReadTyped DEF Typed
<1>2. Limit(Tpm) \in Nat /\ need[w] <= Limit(Tpm)
  BY LimitIsPositive, AdmissionAssumption DEF ReservationsStand
<1>3. kept \in Nat
  <2> DEFINE E == read.events
             m == [e \in E |-> e]
  <2>1. \A e \in E : e.tokens \in Nat
    BY <1>1 DEF ReservationsStand
  <2>2. m \in [E -> E] /\ (\A d, e \in E : m[d] = m[e] => d = e) /\ \A e \in E : e.tokens <= m[e].tokens
    BY <2>1
  <2>3. IsFiniteSet(E)
    BY <1>1
  <2> HIDE DEF E, m
  <2>4. TokensOf(E) \in Nat
    BY <2>1, <2>2, <2>3, TokensWithin
  <2> QED
    BY <2>4 DEF E
<1>4. SUFFICES ASSUME ~(kept + need[w] <= Limit(Tpm)) PROVE FALSE
  OBVIOUS
<1>5. IsFull(read, need[w])
  <2>1. kept + need[w] > Limit(Tpm)
    BY <1>1, <1>2, <1>3, <1>4
  <2> QED
    BY <2>1 DEF IsFull
<1>6. read.events # {}
  <2>1. read.events = {} => kept = 0
    BY TokensOfNone
  <2> HIDE DEF kept
  <2> QED
    BY <1>1, <1>2, <1>4, <2>1
<1>7. \A e \in read.events : e.at \in Nat /\ e.at + Window > now[w]
  BY <1>1 DEF Rows, Events
<1>8. ends \in SUBSET Nat /\ ends # {} /\ \A n \in ends : n + Window > now[w]
  BY <1>6, <1>7
<1>9. Min(ends) \in Nat /\ Min(ends) + Window > now[w]
  BY <1>8, MinIsThere
<1>10. pause \in Nat
  BY <1>1 DEF Later, Rows
<1>11. DelayOf(read, now[w], need[w]) = Later(pause, Min(ends) + Window - now[w])
  BY <1>5 DEF DelayOf
<1> HIDE DEF ends, pause, read, kept
<1>12. Later(pause, Min(ends) + Window - now[w]) > 0
  BY <1>1, <1>9, <1>10, AdmissionAssumption DEF Later
<1> QED
  BY <1>11, <1>12 DEF read

LEMMA RowTokensNext ==
  ASSUME Tpm # 0, Typed, Typed', ReservationsStand, ReservationsStand', UsesAreReserved, RowHolds,
         [Next]_vars
  PROVE  RowHolds'
<1> DEFINE rows == usage.events
           then == usage'.events
<1>0. /\ IsFiniteSet(rows) /\ IsFiniteSet(then)
      /\ \A e \in rows : e.tokens \in Nat
      /\ \A e \in then : e.tokens \in Nat
      /\ TokensOf(rows) <= Limit(Tpm) /\ Limit(Tpm) \in Nat
  BY LimitIsPositive, AdmissionAssumption DEF Typed, ReservationsStand, RowHolds
<1>1. ASSUME NEW m \in [then -> rows], \A d, e \in then : m[d] = m[e] => d = e,
             \A e \in then : e.tokens <= m[e].tokens
      PROVE  RowHolds'
  <2> HIDE DEF rows, then
  <2>1. TokensOf(then) \in Nat /\ TokensOf(rows) \in Nat /\ TokensOf(then) <= TokensOf(rows)
    BY <1>0, <1>1, TokensWithin
  <2>2. TokensOf(then) <= Limit(Tpm)
    BY <1>0, <2>1
  <2> QED
    BY <2>2 DEF RowHolds, then
<1>2. CASE Fewer
  <2> DEFINE m == [e \in then |-> e]
  <2>1. m \in [then -> rows] /\ (\A d, e \in then : m[d] = m[e] => d = e)
        /\ \A e \in then : e.tokens <= m[e].tokens
    BY <1>0, <1>2 DEF Fewer
  <2> HIDE DEF m
  <2> QED
    BY <1>1, <2>1
<1>3. ASSUME NEW w \in Workers, Counts(w) PROVE RowHolds'
  <2> DEFINE read == ReadAt(usage, now[w]).events
             event == [id |-> id[w], at |-> now[w], tokens |-> need[w]]
  <2>1. /\ then = read \cup {event} /\ read \subseteq rows /\ IsFiniteSet(read)
        /\ event.tokens = need[w] /\ need[w] \in Nat
    BY <1>3, ReadTyped, CountedTyped DEF Counts, Typed
  <2>2. event \notin read
    <3>1. pc[w] = "admit" /\ event.id = id[w]
      BY <1>3 DEF Counts
    <3>2. \A e \in rows : e.id # id[w]
      BY <3>1 DEF ReservationsStand, Reserving
    <3> QED
      BY <2>1, <3>1, <3>2
  <2>3. TokensOf(read) + need[w] <= Limit(Tpm)
    BY <1>3, AdmittedHasTokens DEF Counts
  <2>4. \A e \in read \cup {event} : e.tokens \in Nat
    BY <1>0, <2>1
  <2> HIDE DEF read, event
  <2>5. TokensOf(read \cup {event}) <= TokensOf(read) + event.tokens
    BY <2>1, <2>2, <2>4, TokensWith
  <2>6. TokensOf(read) \in Nat /\ TokensOf(read \cup {event}) \in Nat
    <3>1. IsFiniteSet(read \cup {event})
      BY <2>1, FS_AddElement
    <3>2. ASSUME NEW E, IsFiniteSet(E), \A e \in E : e.tokens \in Nat PROVE TokensOf(E) \in Nat
      <4> DEFINE m == [e \in E |-> e]
      <4>1. m \in [E -> E] /\ (\A d, e \in E : m[d] = m[e] => d = e)
            /\ \A e \in E : e.tokens <= m[e].tokens
        BY <3>2
      <4> HIDE DEF m
      <4> QED
        BY <3>2, <4>1, TokensWithin
    <3> QED
      BY <2>1, <2>4, <3>1, <3>2
  <2>7. TokensOf(read \cup {event}) <= Limit(Tpm)
    BY <1>0, <2>1, <2>3, <2>5, <2>6
  <2> QED
    BY <2>1, <2>7 DEF RowHolds
<1>4. ASSUME NEW w \in Workers, Settles(w) PROVE RowHolds'
  <2>1. /\ pc[w] = "settle" /\ used[w] \in Nat /\ used[w] \in Int /\ used[w] <= need[w]
        /\ usage' = SettledAs(usage, id[w], used[w])
    BY <1>4 DEF Settles, UsesAreReserved
  <2>2. \A f \in then : \E e \in rows :
          f.id = e.id /\ f.at = e.at /\ f.tokens = IF e.id = id[w] THEN used[w] ELSE e.tokens
    BY <2>1, SettledEvents
  <2> DEFINE m == [f \in then |-> CHOOSE e \in rows : e.id = f.id]
  <2>3. \A f \in then : m[f] \in rows /\ m[f].id = f.id
    BY <2>2
  <2>4. m \in [then -> rows]
    BY <2>3
  <2>5. \A d, e \in then : m[d] = m[e] => d = e
    <3>1. \A d, e \in then : d.id = e.id => d = e
      BY DEF ReservationsStand
    <3> HIDE DEF m
    <3> QED
      BY <2>3, <3>1
  <2>6. ASSUME NEW f \in then PROVE f.tokens <= m[f].tokens
    <3>1. m[f] \in rows /\ f.tokens = IF m[f].id = id[w] THEN used[w] ELSE m[f].tokens
      BY <2>2, <2>3 DEF ReservationsStand
    <3> HIDE DEF m
    <3>2. m[f].id = id[w] => m[f].tokens = need[w]
      BY <2>1, <3>1 DEF ReservationsStand
    <3>3. m[f].tokens \in Nat
      BY <1>0, <3>1
    <3> QED
      BY <2>1, <3>1, <3>2, <3>3
  <2> HIDE DEF m
  <2> QED
    BY <1>1, <2>4, <2>5, <2>6
<1> QED
  BY <1>2, <1>3, <1>4, EventsMove

\* The events of a minute are worth what its requests use, also when some of
\* them are settled.
LEMMA ReservedNext ==
  ASSUME Tpm # 0, Typed, Typed', Budget, TokensCounted, [Next]_vars
  PROVE  SentAreReserved'
<1> USE DEF Budget, TokensCounted
<1>0. clock \in Nat /\ clock' \in Nat /\ clock <= clock' /\ Lag \in Nat /\ Window \in Nat
  BY ProviderAssumption, AdmissionAssumption
     DEF Typed, Next, Work, Ask, Enter, Expire, CountRefused, ReadClock, Admit, Wake, Send, Answered,
         CoolDown, Settle, Crash, Tick, vars
<1>1. ASSUME NEW s \in sends, NEW e \in usage.events, e.id = s.id, s.uses <= e.tokens,
             e.at + Window > clock
      PROVE  \E f \in usage'.events : f.id = s.id /\ s.uses <= f.tokens
  <2>1. PICK f \in usage'.events : f.id = e.id /\ f.at = e.at
    BY <1>1, RecentAreKept DEF KeepsRecent
  <2>2. CASE Fewer
    <3>1. f = e
      BY <2>1, <2>2 DEF Fewer, ReservationsStand
    <3> QED
      BY <1>1, <3>1
  <2>3. ASSUME NEW w \in Workers, Counts(w) PROVE s.uses <= f.tokens
    <3>1. f \in usage.events \/ (f.id = id[w] /\ pc[w] = "admit")
      BY <2>3, ReadTyped, CountedTyped DEF Counts, Typed
    <3>2. e.id = id[w] => pc[w] # "admit"
      BY DEF ReservationsStand, Reserving
    <3>3. f = e
      BY <2>1, <3>1, <3>2 DEF ReservationsStand
    <3> QED
      BY <1>1, <3>3
  <2>4. ASSUME NEW w \in Workers, Settles(w) PROVE s.uses <= f.tokens
    <3>1. used[w] \in Nat /\ used[w] \in Int /\ usage' = SettledAs(usage, id[w], used[w])
          /\ (s.id = id[w] => s.uses = used[w])
      BY <2>4 DEF Settles, UsesAreReserved
    <3>2. PICK d \in usage.events :
            f.id = d.id /\ f.at = d.at /\ f.tokens = IF d.id = id[w] THEN used[w] ELSE d.tokens
      BY <3>1, SettledEvents
    <3>3. d = e
      BY <2>1, <3>2 DEF ReservationsStand
    <3> QED
      BY <1>1, <3>1, <3>2, <3>3
  <2> QED
    BY <1>1, <2>1, <2>2, <2>3, <2>4, EventsMove
<1>2. ASSUME NEW s \in sends, clock' + Lag < s.at + Window
      PROVE  \E f \in usage'.events : f.id = s.id /\ s.uses <= f.tokens
  <2>1. s.at \in Nat
    BY DEF Typed, Sends
  <2>2. clock + Lag < s.at + Window
    BY <1>0, <1>2, <2>1
  <2>3. PICK e \in usage.events : e.id = s.id /\ s.uses <= e.tokens
    BY <2>2 DEF SentAreReserved
  <2>4. PICK d \in usage.events : d.id = s.id /\ s.at <= d.at + Lag
    BY <2>2 DEF SentAreCounted
  <2>5. d = e /\ e.at \in Nat
    BY <2>3, <2>4 DEF ReservationsStand, Typed, Rows, Events
  <2>6. e.at + Window > clock
    BY <1>0, <2>1, <2>2, <2>4, <2>5
  <2> QED
    BY <1>1, <2>3, <2>6
<1>3. CASE sends' \subseteq sends
  BY <1>2, <1>3 DEF SentAreReserved
<1>4. ASSUME NEW w \in Workers, Send(w), sends' # sends PROVE SentAreReserved'
  <2>1. PICK uses \in 1 .. need[w] : sends' = sends \cup {[id |-> id[w], at |-> clock, uses |-> uses]}
    BY <1>4 DEF Send
  <2>2. usage' = usage /\ clock' = clock /\ pc[w] = "send"
    BY <1>4 DEF Send
  <2>3. PICK e \in usage.events : e.id = id[w]
    BY <2>2 DEF AdmittedAreCounted
  <2>4. e.tokens = need[w] /\ need[w] \in Nat
    BY <2>2, <2>3 DEF ReservationsStand, Typed
  <2>5. uses <= e.tokens
    BY <2>1, <2>4
  <2> QED
    BY <1>2, <2>1, <2>2, <2>3, <2>5 DEF SentAreReserved
<1>5. sends' \subseteq sends \/ \E w \in Workers : Send(w) /\ sends' # sends
  BY DEF Next, Work, Ask, Enter, Expire, CountRefused, ReadClock, Admit, Wake, Answered,
         CoolDown, Settle, Crash, Tick, vars
<1> QED
  BY <1>3, <1>4, <1>5

LEMMA TokensNext ==
  ASSUME Tpm # 0, Typed, Typed', Budget, TokensCounted, TokensFit, [Next]_vars
  PROVE  TokensCounted' /\ TokensFit'
<1>1. ReservationsStand' /\ UsesAreReserved' /\ SentAreReserved' /\ RowHolds'
  <2>1. ReservationsStand'
    BY ReservationsNext DEF Budget, TokensCounted
  <2> QED
    BY <2>1, UsesNext, ReservedNext, RowTokensNext DEF Budget, TokensCounted
<1>2. /\ sends \in SUBSET Sends /\ IsFiniteSet(sends) /\ sends' \in SUBSET Sends /\ IsFiniteSet(sends')
      /\ Limit(Tpm) \in Nat
  BY LimitIsPositive, AdmissionAssumption DEF Typed
<1>3. ASSUME NEW t \in 0 .. MaxTime, SentInMinute(t)' \subseteq SentInMinute(t)
      PROVE  UsesOf(SentInMinute(t)') <= Limit(Tpm)
  <2> DEFINE S == SentInMinute(t)  R == SentInMinute(t)'
  <2>1. S \subseteq sends
    BY DEF SentInMinute
  <2>2. IsFiniteSet(S) /\ (\A s \in S : s.uses \in Nat) /\ R \in SUBSET S
    BY <1>2, <1>3, <2>1, FS_Subset DEF Sends
  <2>3. UsesOf(S) <= Limit(Tpm)
    BY DEF TokensFit, UsesOf
  <2> HIDE DEF S, R
  <2>4. UsesOf(R) \in Nat /\ UsesOf(S) \in Nat /\ UsesOf(R) <= UsesOf(S)
    BY <2>2, FewerUseLess
  <2>5. UsesOf(R) <= Limit(Tpm)
    BY <1>2, <2>3, <2>4
  <2> QED
    BY <2>5 DEF R
<1>4. ASSUME NEW t \in 0 .. MaxTime, NEW w \in Workers, Send(w), sends' # sends
      PROVE  UsesOf(SentInMinute(t)') <= Limit(Tpm)
  <2>1. PICK uses \in 1 .. need[w] : sends' = sends \cup {[id |-> id[w], at |-> clock, uses |-> uses]}
    BY <1>4 DEF Send
  <2> DEFINE new == [id |-> id[w], at |-> clock, uses |-> uses]
             S == SentInMinute(t)'
             rows == usage'.events
  <2>2. usage' = usage /\ clock' = clock /\ clock \in Nat /\ Lag \in Nat /\ Window \in Nat
    BY <1>4, ProviderAssumption, AdmissionAssumption DEF Send, Typed
  <2>3. CASE new \in S
    <3>1. clock < t + Window - Lag
      BY <2>2, <2>3 DEF SentInMinute
    <3>2. S \subseteq sends' /\ \A s \in S : t <= s.at /\ s.at \in Nat /\ s.uses \in Nat
      BY <1>2 DEF SentInMinute, Sends
    <3>3. \A s \in S : clock' + Lag < s.at + Window
      BY <2>2, <3>1, <3>2
    <3>4. \A s \in S : \E e \in rows : e.id = s.id /\ s.uses <= e.tokens
      BY <1>1, <3>2, <3>3 DEF SentAreReserved
    <3> DEFINE m == [s \in S |-> CHOOSE e \in rows : e.id = s.id /\ s.uses <= e.tokens]
    <3>5. \A s \in S : m[s] \in rows /\ m[s].id = s.id /\ s.uses <= m[s].tokens
      BY <3>4
    <3>6. m \in [S -> rows]
      BY <3>5
    <3>7. \A r, s \in sends' : r.id = s.id => r = s
      BY IdsNext DEF Budget, IdsAreFresh
    <3>8. \A r, s \in S : m[r] = m[s] => r = s
      BY <3>2, <3>5, <3>7
    <3>9. /\ IsFiniteSet(S) /\ IsFiniteSet(rows)
          /\ \A e \in rows : e.tokens \in Nat
      BY <1>1, <1>2, <3>2, FS_Subset DEF Typed, ReservationsStand
    <3>10. TokensOf(rows) <= Limit(Tpm)
      BY <1>1 DEF RowHolds
    <3> HIDE DEF S, rows, m
    <3>11. UsesOf(S) \in Nat /\ UsesOf(S) <= TokensOf(rows)
      BY <3>2, <3>5, <3>6, <3>8, <3>9, UsesWithinTokens
    <3>12. TokensOf(rows) \in Nat
      <4> DEFINE i == [e \in rows |-> e]
      <4>1. i \in [rows -> rows] /\ (\A d, e \in rows : i[d] = i[e] => d = e)
            /\ \A e \in rows : e.tokens <= i[e].tokens
        BY <3>9
      <4> HIDE DEF i
      <4> QED
        BY <3>9, <4>1, TokensWithin
    <3>13. UsesOf(S) <= Limit(Tpm)
      BY <1>2, <3>10, <3>11, <3>12
    <3> QED
      BY <3>13 DEF S
  <2>4. CASE new \notin S
    <3>1. S \subseteq SentInMinute(t)
      BY <2>1, <2>4 DEF SentInMinute
    <3> QED
      BY <1>3, <3>1
  <2> QED
    BY <2>3, <2>4
<1>5. sends' \subseteq sends \/ \E w \in Workers : Send(w) /\ sends' # sends
  BY DEF Next, Work, Ask, Enter, Expire, CountRefused, ReadClock, Admit, Wake, Answered,
         CoolDown, Settle, Crash, Tick, vars
<1>6. ASSUME NEW t \in 0 .. MaxTime, sends' \subseteq sends
      PROVE  SentInMinute(t)' \subseteq SentInMinute(t)
  BY <1>6 DEF SentInMinute
<1>7. \A t \in 0 .. MaxTime : UsesOf(SentInMinute(t)') <= Limit(Tpm)
  BY <1>3, <1>4, <1>5, <1>6
<1>8. TokensFit'
  BY <1>7 DEF TokensFit, UsesOf, MapThenSumSet, MapThenFoldSet
<1> QED
  BY <1>1, <1>8 DEF TokensCounted

\* Whatever its requests reserve, use and report, and however late they read the
\* clock, are sent, refused or settled, no minute uses more tokens than the limit.
THEOREM TokensStay == Spec => []TokensFit
<1> DEFINE Held == Tpm # 0 => TokensCounted /\ TokensFit
<1>1. Init => Held
  <2> SUFFICES ASSUME Init, Tpm # 0 PROVE TokensCounted /\ TokensFit
    OBVIOUS
  <2>1. Limit(Tpm) \in Nat
    BY LimitIsPositive, AdmissionAssumption
  <2>2. usage.events = {} /\ sends = {}
    BY DEF Init, NoUsage
  <2>3. TokensCounted
    BY <2>1, <2>2, TokensOfNone
    DEF Init, Unknown, TokensCounted, ReservationsStand, UsesAreReserved, SentAreReserved, RowHolds
  <2>4. \A t \in 0 .. MaxTime : SentInMinute(t) = {}
    BY <2>2 DEF SentInMinute
  <2>5. UsesOf({}) = 0
    <3>1. IsFiniteSet({}) /\ \A s \in {} : s.uses \in Nat
      BY FS_EmptySet
    <3>2. PICK g : IsTotal(g, [s \in {} |-> s.uses], {}) /\ UsesOf({}) = g[{}]
      BY <3>1, UsesAreTotal
    <3> QED
      BY <3>2 DEF IsTotal
  <2>6. \A t \in 0 .. MaxTime : UsesOf(SentInMinute(t)) <= Limit(Tpm)
    BY <2>1, <2>4, <2>5
  <2>7. TokensFit
    BY <2>6 DEF TokensFit, UsesOf
  <2> QED
    BY <2>3, <2>7
<1>2. Inductive /\ Inductive' /\ Held /\ [Next]_vars => Held'
  BY TokensNext DEF Inductive
<1>3. Held => TokensFit
  BY DEF TokensFit
<1> HIDE DEF Held
<1> QED
  BY <1>1, <1>2, <1>3, InductiveInvariant, PTL DEF Spec
=============================================================================
