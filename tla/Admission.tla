----------------------------- MODULE Admission -----------------------------
(***************************************************************************)
(* The shared core's rules for a provider's budget (provider_admission.rs): *)
(* whether a request may be sent now, what it costs, and how long to wait.  *)
(*                                                                         *)
(* The usage of a provider is the requests admitted within the window, the  *)
(* number admitted today, and the time before which nothing is sent.  The   *)
(* core is pure; a limit of zero is no limit.                               *)
(***************************************************************************)
EXTENDS Integers, FiniteSets, FiniteSetsExt

CONSTANTS
  Rpm, Tpm, Rpd,   \* the limits of the provider's contract
  Window,          \* WINDOW: how long an admission counts, longer than a minute
  DayLength

ASSUME AdmissionAssumption ==
  Rpm \in Nat /\ Tpm \in Nat /\ Rpd \in Nat /\ Window \in Nat \ {0} /\ DayLength \in Nat \ {0}

\* Nine tenths of a limit, and one request at least.
Limit(n) == IF n = 0 THEN 0 ELSE IF (9 * n) \div 10 = 0 THEN 1 ELSE (9 * n) \div 10

Day(now) == now \div DayLength

NoUsage == [events |-> {}, day |-> -1, daily |-> 0, notBefore |-> 0]

TokensOf(events) == MapThenSumSet(LAMBDA e : e.tokens, events)

Later(a, b) == IF a < b THEN b ELSE a

\* An input no window could ever hold is refused before anything is saved.
TooLarge(tokens) == Tpm # 0 /\ tokens > Limit(Tpm)
-----------------------------------------------------------------------------
\* A bug: what a minute has passed for is dropped, a window being longer.
ReadAfterMinute(usage, now) ==
  [events    |-> {e \in usage.events : e.at + Window - 1 > now},
   day       |-> Day(now),
   daily     |-> IF usage.day = Day(now) THEN usage.daily ELSE 0,
   notBefore |-> usage.notBefore]

\* The usage as an admission at `now' reads it: what has left the window is
\* dropped, and another day than the one counted starts at zero.
ReadAt(usage, now) ==
  [events    |-> {e \in usage.events : e.at + Window > now},
   day       |-> Day(now),
   daily     |-> IF usage.day = Day(now) THEN usage.daily ELSE 0,
   notBefore |-> usage.notBefore]

\* A bug: one request more is let through.
DayIsPassed(read) == Rpd # 0 /\ read.daily > Rpd

DayIsSpent(read) == Rpd # 0 /\ read.daily >= Rpd

IsFull(read, tokens) ==
  \/ Rpm # 0 /\ Cardinality(read.events) >= Limit(Rpm)
  \/ Tpm # 0 /\ TokensOf(read.events) + tokens > Limit(Tpm)

\* How long to wait: for the pause, and for the oldest event to leave.
DelayOf(read, now, tokens) ==
  LET pause == Later(read.notBefore - now, 0)
  IN  IF IsFull(read, tokens)
      THEN Later(pause, Min({e.at : e \in read.events}) + Window - now)
      ELSE pause

Counted(read, id, now, tokens) ==
  [read EXCEPT !.events = @ \cup {[id |-> id, at |-> now, tokens |-> tokens]}, !.daily = @ + 1]
-----------------------------------------------------------------------------
\* A bug: a shorter pause takes the place of a longer one.
PausedFor(usage, until) == [usage EXCEPT !.notBefore = until]

Paused(usage, until) == [usage EXCEPT !.notBefore = Later(@, until)]

\* A request that ended: what it used, when that is known.
SettledAs(usage, id, used) ==
  [usage EXCEPT !.events =
     {IF e.id = id THEN [e EXCEPT !.tokens = used] ELSE e : e \in @}]
=============================================================================
