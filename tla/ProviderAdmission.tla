------------------------- MODULE ProviderAdmission -------------------------
(***************************************************************************)
(* The requests the server sends to one provider (provider_rate_limits.py, *)
(* provider_limits.py, and their use in pipeline_provider.py): each takes a *)
(* slot, reads the clock, asks for admission, sleeps or sends, and settles  *)
(* what it used.                                                           *)
(*                                                                         *)
(* The usage is one row of the database; every change of it is one         *)
(* immediate transaction.  The clock is read before that transaction is    *)
(* begun, and the request is sent after it, so a request may be up to `Lag' *)
(* later than the time its admission was counted at.                       *)
(***************************************************************************)
EXTENDS Admission

CONSTANTS
  Workers,       \* the threads that send
  Slots,         \* requests the provider takes at once
  Lag,           \* the most ticks from reading the clock to sending
  Timeout,       \* the time of one attempt
  Inputs,        \* the estimated tokens of a request
  Refusals,      \* the waits a 429 asks for
  MaxRequests, MaxTime, MaxFaults

ASSUME ProviderAssumption ==
  /\ Slots \in Nat \ {0} /\ Lag \in 0 .. Window - 1 /\ Lag <= DayLength /\ Timeout \in Nat \ {0}
  /\ Inputs \subseteq Nat /\ IsFiniteSet(Workers)
  /\ \A wait \in Refusals : wait \in Nat /\ wait >= Window    \* `retry' waits a window at least
  /\ MaxRequests \in Nat /\ MaxTime \in Nat /\ MaxFaults \in Nat

VARIABLES
  clock,
  usage,         \* the provider's row
  free,          \* the semaphore
  pc,            \* where each thread is
  id, need,      \* its request, and the tokens it reserves
  deadline, now, wake,
  used,          \* what its answer reported (-1: nothing)
  sends,         \* history: what was sent within the window, and what each really uses
  days,          \* history: how many were sent, by the day they were admitted on
  crossed,       \* history: how many admissions were saved past the midnight each day began with
  paused,        \* history: the latest end of a pause that was saved
  requests, faults

own  == <<pc, id, need, deadline, now, wake, used>>
vars == <<clock, usage, free, own, sends, days, crossed, paused, requests, faults>>

Unknown == -1

Init ==
  /\ clock = 0 /\ usage = NoUsage /\ free = Slots
  /\ pc = [w \in Workers |-> "idle"]
  /\ id = [w \in Workers |-> 0] /\ need = [w \in Workers |-> 0]
  /\ deadline = [w \in Workers |-> 0] /\ now = [w \in Workers |-> 0]
  /\ wake = [w \in Workers |-> 0] /\ used = [w \in Workers |-> Unknown]
  /\ sends = {} /\ days = [d \in 0 .. Day(MaxTime) |-> 0]
  /\ crossed = [d \in 0 .. Day(MaxTime) + 1 |-> 0] /\ paused = 0 /\ requests = 0 /\ faults = 0
-----------------------------------------------------------------------------
At(w, where) == pc' = [pc EXCEPT ![w] = where]

Late(w) == clock >= deadline[w]

\* A bug: a request that ends before it was sent keeps its slot.
LeavesSent(w) ==
  /\ free' = IF pc[w] \in {"queued", "asleep"} THEN free ELSE free + 1
  /\ At(w, "idle")
  /\ id' = [id EXCEPT ![w] = 0] /\ need' = [need EXCEPT ![w] = 0]
  /\ deadline' = [deadline EXCEPT ![w] = 0] /\ now' = [now EXCEPT ![w] = 0]
  /\ wake' = [wake EXCEPT ![w] = 0] /\ used' = [used EXCEPT ![w] = Unknown]

\* The end of a request gives its slot back.
Leaves(w) ==
  /\ free' = IF pc[w] = "queued" THEN free ELSE free + 1
  /\ At(w, "idle")
  /\ id' = [id EXCEPT ![w] = 0] /\ need' = [need EXCEPT ![w] = 0]
  /\ deadline' = [deadline EXCEPT ![w] = 0] /\ now' = [now EXCEPT ![w] = 0]
  /\ wake' = [wake EXCEPT ![w] = 0] /\ used' = [used EXCEPT ![w] = Unknown]

Pauses(until) == usage' = Paused(usage, until) /\ paused' = Later(paused, until)

\* The row cannot be saved (RateAccountingUnavailable).
Unsaved ==
  faults < MaxFaults /\ faults' = faults + 1 /\ UNCHANGED <<usage, paused>>
-----------------------------------------------------------------------------
\* A request with an attempt's time; one too large for any window is refused.
Ask(w) ==
  /\ pc[w] = "idle" /\ requests < MaxRequests /\ clock + Timeout <= MaxTime
  /\ \E tokens \in Inputs :
       ~TooLarge(tokens) /\ need' = [need EXCEPT ![w] = tokens]
  /\ requests' = requests + 1 /\ id' = [id EXCEPT ![w] = requests + 1]
  /\ deadline' = [deadline EXCEPT ![w] = clock + Timeout]
  /\ At(w, "queued")
  /\ UNCHANGED <<clock, usage, free, now, wake, used, sends, days, crossed, paused, faults>>

\* A slot, when one comes free in time.
Enter(w) ==
  /\ pc[w] = "queued" /\ ~Late(w) /\ free > 0
  /\ free' = free - 1 /\ At(w, "count")
  /\ UNCHANGED <<clock, usage, id, need, deadline, now, wake, used, sends, days, crossed, paused, requests, faults>>

\* The deadline of the attempt ends every wait.
Expire(w) ==
  /\ pc[w] \in {"queued", "count", "read", "asleep"} /\ Late(w)
  /\ Leaves(w)
  /\ UNCHANGED <<clock, usage, sends, days, crossed, paused, requests, faults>>

\* Counting the tokens is a request too, and may be refused with a 429.
CountRefused(w) ==
  /\ pc[w] = "count" /\ Tpm # 0
  /\ \/ \E wait \in Refusals : Pauses(clock + wait) /\ UNCHANGED faults
     \/ Unsaved
  /\ Leaves(w)
  /\ UNCHANGED <<clock, sends, days, crossed, requests>>

\* `now' is read outside the transaction that uses it.
ReadClock(w) ==
  /\ pc[w] \in {"count", "read"} /\ ~Late(w)
  /\ now' = [now EXCEPT ![w] = clock] /\ At(w, "admit")
  /\ UNCHANGED <<clock, usage, free, id, need, deadline, wake, used, sends, days, crossed, paused, requests, faults>>

\* What `reserve' saves is read for the day before when midnight has passed
\* since: the row is set back to that day.
Crosses(w) ==
  crossed' = IF Day(now[w]) < Day(clock)
             THEN [crossed EXCEPT ![Day(now[w]) + 1] = @ + 1] ELSE crossed

\* The transaction of `reserve'.
Admit(w) ==
  LET read  == ReadAt(usage, now[w])
      delay == DelayOf(read, now[w], need[w])
  IN
  /\ pc[w] = "admit"
  /\ \/ DayIsSpent(read) /\ Leaves(w) /\ UNCHANGED <<usage, crossed, paused, faults>>
     \/ /\ ~DayIsSpent(read) /\ delay > 0
        /\ usage' = read /\ Crosses(w)
        /\ At(w, "asleep") /\ wake' = [wake EXCEPT ![w] = clock + delay] /\ now' = [now EXCEPT ![w] = 0]
        /\ UNCHANGED <<free, id, need, deadline, used, paused, faults>>
     \/ /\ ~DayIsSpent(read) /\ delay = 0
        /\ usage' = Counted(read, id[w], now[w], need[w]) /\ Crosses(w)
        /\ At(w, "send")
        /\ UNCHANGED <<free, id, need, deadline, now, wake, used, paused, faults>>
     \/ Unsaved /\ Leaves(w) /\ UNCHANGED crossed
  /\ UNCHANGED <<clock, sends, days, requests>>

Wake(w) ==
  /\ pc[w] = "asleep" /\ clock >= wake[w] /\ ~Late(w)
  /\ At(w, "read") /\ wake' = [wake EXCEPT ![w] = 0]
  /\ UNCHANGED <<clock, usage, free, id, need, deadline, now, used, sends, days, crossed, paused, requests, faults>>

\* The request reaches the provider, or the time is up just before.
Send(w) ==
  /\ pc[w] = "send"
  /\ \/ Late(w) /\ At(w, "settle") /\ UNCHANGED <<sends, days>>
     \/ /\ ~Late(w) /\ At(w, "sent")
        /\ \E uses \in 1 .. need[w] : sends' = sends \cup {[id |-> id[w], at |-> clock, uses |-> uses]}
        /\ days' = [days EXCEPT ![Day(now[w])] = @ + 1]
  /\ now' = [now EXCEPT ![w] = 0]
  /\ UNCHANGED <<clock, usage, free, id, need, deadline, wake, used, crossed, paused, requests, faults>>

\* It is answered with or without its usage, fails, or is refused with a 429.
Answered(w) ==
  /\ pc[w] = "sent"
  /\ \/ \E s \in sends : s.id = id[w] /\ used' = [used EXCEPT ![w] = s.uses] /\ At(w, "settle")
     \/ At(w, "settle") /\ UNCHANGED used
     \/ At(w, "refused") /\ UNCHANGED used
  /\ UNCHANGED <<clock, usage, free, id, need, deadline, now, wake, sends, days, crossed, paused, requests, faults>>

CoolDown(w) ==
  /\ pc[w] = "refused"
  /\ \/ \E wait \in Refusals : Pauses(clock + wait) /\ UNCHANGED faults
     \/ Unsaved
  /\ At(w, "settle")
  /\ UNCHANGED <<clock, free, id, need, deadline, now, wake, used, sends, days, crossed, requests>>

\* A bug: a request of unknown usage is taken to have used nothing.
SettleUnknown(w) ==
  /\ pc[w] = "settle"
  /\ usage' = SettledAs(usage, id[w], IF used[w] = Unknown THEN 0 ELSE used[w])
  /\ UNCHANGED <<paused, faults>>
  /\ Leaves(w)
  /\ UNCHANGED <<clock, sends, days, crossed, requests>>

\* What was used is saved; when tokens are counted and it is not known, the
\* reservation stays and nothing is sent for a window.
Settle(w) ==
  /\ pc[w] = "settle"
  /\ \/ /\ used[w] # Unknown \/ Tpm = 0
        /\ usage' = SettledAs(usage, id[w], IF used[w] = Unknown THEN 0 ELSE used[w])
        /\ UNCHANGED <<paused, faults>>
     \/ used[w] = Unknown /\ Tpm # 0 /\ Pauses(clock + Window) /\ UNCHANGED faults
     \/ Unsaved
  /\ Leaves(w)
  /\ UNCHANGED <<clock, sends, days, crossed, requests>>
-----------------------------------------------------------------------------
\* The server goes down and is started again; the row stays.
Crash ==
  /\ faults < MaxFaults /\ faults' = faults + 1
  /\ free' = Slots /\ pc' = [w \in Workers |-> "idle"]
  /\ id' = [w \in Workers |-> 0] /\ need' = [w \in Workers |-> 0]
  /\ deadline' = [w \in Workers |-> 0] /\ now' = [w \in Workers |-> 0]
  /\ wake' = [w \in Workers |-> 0] /\ used' = [w \in Workers |-> Unknown]
  /\ UNCHANGED <<clock, usage, sends, days, crossed, paused, requests>>

\* Time passes, while no request is later than `Lag' after its clock reading.
Tick ==
  /\ clock < MaxTime
  /\ \A w \in Workers : pc[w] \in {"admit", "send"} => clock < now[w] + Lag
  /\ clock' = clock + 1
  /\ sends' = {s \in sends : s.at + Window > clock + 1 \/ \E w \in Workers : id[w] = s.id}
  /\ UNCHANGED <<usage, free, own, days, crossed, paused, requests, faults>>

Work(w) ==
  \/ Enter(w) \/ Expire(w) \/ CountRefused(w) \/ ReadClock(w) \/ Admit(w) \/ Wake(w)
  \/ Send(w) \/ Answered(w) \/ CoolDown(w) \/ Settle(w)

Next == (\E w \in Workers : Ask(w) \/ Work(w)) \/ Crash \/ Tick

Spec == Init /\ [][Next]_vars

=============================================================================
