------------------------ MODULE AdmissionProperties ------------------------
(***************************************************************************)
(* What the provider sees of the requests, whatever their order, failures, *)
(* and crashes of the server.                                              *)
(***************************************************************************)
EXTENDS ProviderAdmission

\* What is sent from `t' on within what the provider calls a minute: the
\* window, less what a request may be late.
SentInMinute(t) == {s \in sends : t <= s.at /\ s.at < t + Window - Lag}

\* No minute has more requests than the limit, whenever its requests read the
\* clock, slept, were saved and went out, and whatever was pruned meanwhile.
RequestsFit ==
  Rpm # 0 => \A t \in 0 .. MaxTime : Cardinality(SentInMinute(t)) <= Limit(Rpm)

\* No minute uses more tokens than the limit, as long as an estimate is never
\* too low: reservations are exchanged for usage only when it is known.
TokensFit ==
  Tpm # 0 => \A t \in 0 .. MaxTime : MapThenSumSet(LAMBDA s : s.uses, SentInMinute(t)) <= Limit(Tpm)

\* "RPD ... resetting at midnight": the requests of a day, each counted on the
\* day its admission read, are within the limit but for admissions saved past a
\* midnight they had not seen.  Each sets the row back, so that the new day
\* counts from zero once more, and is itself one more of the old day; and there
\* are no more of them than there are slots.
DayIsBounded ==
  Rpd # 0 => \A d \in DOMAIN days :
    /\ days[d] <= Rpd * (1 + crossed[d]) + crossed[d + 1]
    /\ crossed[d] <= Slots

\* "The 429 cooldown is persisted and survives restart": no request is admitted
\* before the end of any pause that was saved, although a shorter one follows.
PausesAreKept ==
  [][\A w \in Workers : pc[w] = "admit" /\ pc'[w] = "send" => now[w] >= paused]_vars

\* The slots in use and the free ones are all there are, after timeouts,
\* refusals, failed saves and crashes.
SlotsReturn ==
  free + Cardinality({w \in Workers : pc[w] \notin {"idle", "queued"}}) = Slots

=============================================================================
