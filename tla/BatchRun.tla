------------------------------ MODULE BatchRun ------------------------------
(***************************************************************************)
(* A batch of descriptions: the pages that draw its lines (BatchState in   *)
(* features/batch/state.svelte.ts with lease.ts, resume.ts and retry.ts)   *)
(* against the server of BatchLease.                                       *)
(*                                                                         *)
(* A page is the loop of run(), one step from one await to the next.  Its  *)
(* connection may be cut at any time; the drawing does not notice before   *)
(* its next event.  Another page, or the same one later, may resume.       *)
(***************************************************************************)
EXTENDS BatchLease

CONSTANTS
  Pages,
  MaxCuts,     \* BATCH_CUTS_PER_LINE
  MaxRetries,  \* rounds for the lines that failed
  MaxFaults    \* stops, reloads and crashes together

ASSUME PageAssumption ==
  MaxCuts \in Nat \ {0} /\ MaxRetries \in Nat /\ MaxFaults \in Nat

VARIABLES
  pc, held,     \* where its run is, the lease it holds (0: none)
  todo, failed, \* the lines left in this pass, and those that failed
  pending,      \* the lines its snapshot has no work for
  kept,         \* whether it keeps the snapshot of an unfinished run
  round, cuts,  \* retry rounds, and cuts of the current line
  reading,      \* the drawing whose stream it reads (0: none)
  quit,         \* whether its run was aborted
  interrupted,  \* whether a line was left by it
  faults        \* stops, reloads and crashes so far

plan  == <<todo, failed, pending, kept>>
line  == <<round, cuts, reading>>
ends  == <<quit, interrupted>>
page  == <<pc, held, plan, line, ends>>
vars  == <<server, page, faults>>

Init ==
  /\ LeaseInit
  /\ pc = [p \in Pages |-> "idle"] /\ held = [p \in Pages |-> 0]
  /\ todo = [p \in Pages |-> {}] /\ failed = [p \in Pages |-> {}]
  /\ pending = [p \in Pages |-> {}] /\ kept = [p \in Pages |-> FALSE]
  /\ round = [p \in Pages |-> 0] /\ cuts = [p \in Pages |-> 0]
  /\ reading = [p \in Pages |-> 0] /\ quit = [p \in Pages |-> FALSE]
  /\ interrupted = [p \in Pages |-> FALSE]
  /\ faults = 0
-----------------------------------------------------------------------------
\* A line is found in the order of the prompt.
Current(p) == CHOOSE l \in todo[p] : \A m \in todo[p] : l <= m

Completed(p) == Total - Cardinality(pending[p])

At(p, where) == pc' = [pc EXCEPT ![p] = where]

\* A line ended: the next one, a retry round of the failed ones, or the end.
LineEnds(p, l, got) ==
  LET bad   == IF got THEN failed[p] \ {l} ELSE failed[p] \cup {l}
      left  == todo[p] \ {l}
      again == /\ left = {} /\ bad # {} /\ ~quit[p] /\ round[p] < MaxRetries
  IN /\ failed' = [failed EXCEPT ![p] = bad]
     /\ todo' = [todo EXCEPT ![p] = IF again THEN bad ELSE left]
     /\ round' = [round EXCEPT ![p] = IF again THEN @ + 1 ELSE @]
     /\ pending' = [pending EXCEPT ![p] = IF got THEN @ \ {l} ELSE @]
     /\ cuts' = [cuts EXCEPT ![p] = 0] /\ reading' = [reading EXCEPT ![p] = 0]
     /\ At(p, IF left # {} \/ again THEN "line" ELSE "closing")
     /\ UNCHANGED <<held, kept, ends>>

Interrupts(p) ==
  /\ At(p, "closing") /\ interrupted' = [interrupted EXCEPT ![p] = TRUE]
  /\ reading' = [reading EXCEPT ![p] = 0]
  /\ UNCHANGED <<held, plan, round, cuts, quit>>

\* The connection of a line was cut: wait for the server, or give the line up.
CutLine(p) ==
  IF cuts[p] + 1 < MaxCuts
  THEN /\ cuts' = [cuts EXCEPT ![p] = @ + 1]
       /\ reading' = [reading EXCEPT ![p] = 0] /\ At(p, "waiting")
       /\ UNCHANGED <<held, plan, round, ends>>
  ELSE LineEnds(p, Current(p), FALSE)
-----------------------------------------------------------------------------
\* How a run begins.  Its plan is made before it asks for the lease.

Plans(p, lines, failures) ==
  /\ pc[p] = "idle" /\ lines # {}
  /\ todo' = [todo EXCEPT ![p] = lines]
  /\ failed' = [failed EXCEPT ![p] = failures]
  /\ kept' = [kept EXCEPT ![p] = TRUE]
  /\ At(p, "starting")
  /\ UNCHANGED <<server, held, line, ends, faults>>

Begin(p) ==
  /\ record.lease = 0 /\ \A q \in Pages : pc[q] = "idle" /\ ~kept[q]
  /\ Plans(p, Lines, {})
  /\ pending' = [pending EXCEPT ![p] = Lines]

\* In the page that ran before, the plan is its own snapshot.
ResumeSession(p) ==
  /\ up /\ kept[p] /\ Shown \in {"interrupted", "lease_expired", "stopped"}
  /\ Plans(p, pending[p], {}) /\ UNCHANGED pending

\* After a reload, or elsewhere, it is what the history has no work of.
ResumeHistory(p) ==
  /\ up /\ ~kept[p]
  /\ Shown \in {"interrupted", "lease_expired", "finished_with_failures"}
  /\ Plans(p, Lines \ drawn, {})
  /\ pending' = [pending EXCEPT ![p] = Lines \ drawn]

\* The failed lines only, from the page or the report it stored.
RetryFailed(p) == Plans(p, failed[p], failed[p]) /\ UNCHANGED pending

NotStarted(p) ==
  /\ At(p, "idle") /\ todo' = [todo EXCEPT ![p] = {}]
  /\ quit' = [quit EXCEPT ![p] = FALSE]
  /\ UNCHANGED <<held, failed, pending, kept, interrupted>>

\* startBatchLease: its answer may be lost after the lease was given out.
Start(p) ==
  /\ pc[p] = "starting" /\ up /\ MayStart
  /\ record' = Started
  /\ \/ /\ held' = [held EXCEPT ![p] = record.lease + 1] /\ At(p, "line")
        /\ UNCHANGED <<plan, ends>>
     \/ NotStarted(p)
  /\ UNCHANGED <<up, works, sends, drawn, line, faults>>

StartFails(p) ==
  pc[p] = "starting" /\ NotStarted(p) /\ UNCHANGED <<server, line, faults>>
-----------------------------------------------------------------------------
\* A line.

Renewed(p) == record' = Updated(Completed(p), "running")

\* lost(): the lease belongs to another run, and this one stops.
Loses(p) == quit' = [quit EXCEPT ![p] = TRUE]

\* The heartbeat before a line is sent.
Refresh(p) ==
  /\ pc[p] = "line" /\ ~quit[p] /\ UNCHANGED <<works, sends, drawn, up, faults>>
  /\ \/ /\ up /\ Held(held[p]) /\ Renewed(p) /\ At(p, "send")
        /\ UNCHANGED <<held, plan, line, ends>>
     \/ /\ up /\ ~Held(held[p]) /\ Loses(p) /\ At(p, "closing")
        /\ interrupted' = [interrupted EXCEPT ![p] = TRUE]
        /\ UNCHANGED <<record, held, plan, line>>
     \/ CutLine(p) /\ UNCHANGED record

\* The paint stream opens: under the lock, the lease is checked and the
\* execution started.  The answer is its own, a refusal, or a cut.
Post(p) ==
  /\ pc[p] = "send" /\ ~quit[p] /\ UNCHANGED <<up, record, drawn, faults>>
  /\ \/ /\ up /\ Require(held[p]) /\ sends < MaxSends
        /\ sends' = sends + 1
        /\ works' = [works EXCEPT ![sends + 1] =
                       [line |-> Current(p), lease |-> held[p], at |-> "running"]]
        /\ \/ /\ reading' = [reading EXCEPT ![p] = sends + 1] /\ At(p, "reading")
              /\ UNCHANGED <<held, plan, round, cuts, ends>>
           \/ CutLine(p)
     \/ up /\ LineEnds(p, Current(p), FALSE) /\ UNCHANGED <<works, sends>>
     \/ CutLine(p) /\ UNCHANGED <<works, sends>>

\* Mutant of Read: a failure is counted as a work.
ReadAny(p) ==
  /\ pc[p] = "reading" /\ ~quit[p] /\ UNCHANGED <<server, faults>>
  /\ LET w == works[reading[p]]
     IN \/ w.at \in {"saved", "failed"} /\ LineEnds(p, w.line, TRUE)
        \/ CutLine(p)

Read(p) ==
  /\ pc[p] = "reading" /\ ~quit[p] /\ UNCHANGED <<server, faults>>
  /\ LET w == works[reading[p]]
     IN \/ w.at = "saved" /\ LineEnds(p, w.line, TRUE)
        \/ w.at = "failed" /\ LineEnds(p, w.line, FALSE)
        \/ CutLine(p)

\* The signal of the page stops the request.
Aborted(p) ==
  /\ quit[p]
  /\ pc[p] \in {"line", "send", "reading", "waiting", "looking"}
  /\ Interrupts(p) /\ UNCHANGED <<server, faults>>

\* Mutant of Wait: after a cut the page waits as long as it takes.
WaitForEver(p) ==
  /\ pc[p] = "waiting" /\ ~quit[p] /\ up /\ ~Active /\ At(p, "looking")
  /\ UNCHANGED <<held, plan, line, ends, server, faults>>

\* waitForServer and waitForBatchToSettle, or the end of their patience.
Wait(p) ==
  /\ pc[p] = "waiting" /\ ~quit[p]
  /\ \/ /\ up /\ ~Active /\ At(p, "looking")
        /\ UNCHANGED <<held, plan, line, ends>>
     \/ Interrupts(p)
  /\ UNCHANGED <<server, faults>>

\* Mutant of Look: a line that was cut is taken to be saved by then.
LookNot(p) ==
  /\ pc[p] = "looking" /\ UNCHANGED <<server, faults>>
  /\ \/ up /\ ~quit[p] /\ LineEnds(p, Current(p), TRUE)
     \/ LineEnds(p, Current(p), FALSE)

\* savedLineWork: counted when the server saved it before the cut.
Look(p) ==
  /\ pc[p] = "looking" /\ UNCHANGED <<server, faults>>
  /\ \/ /\ up /\ ~quit[p] /\ Current(p) \in drawn
        /\ LineEnds(p, Current(p), TRUE)
     \/ /\ up /\ ~quit[p] /\ Current(p) \notin drawn /\ At(p, "line")
        /\ UNCHANGED <<held, plan, line, ends>>
     \/ LineEnds(p, Current(p), FALSE)
-----------------------------------------------------------------------------
\* Around the loop.

\* The timer of the lease.
Heartbeat(p) ==
  /\ up /\ held[p] # 0
  /\ IF Held(held[p]) THEN Renewed(p) /\ UNCHANGED quit
                      ELSE Loses(p) /\ UNCHANGED record
  /\ UNCHANGED <<up, works, sends, drawn, pc, held, plan, line, interrupted, faults>>

Final(p) ==
  IF interrupted[p] \/ ~(pending[p] \subseteq failed[p]) THEN "interrupted"
  ELSE IF quit[p] THEN "stopped"
  ELSE IF pending[p] # {} THEN "finished_with_failures" ELSE "completed"

\* finish: the last heartbeat; a refusal or a cut is only noted.
Close(p) ==
  /\ pc[p] = "closing" /\ At(p, "idle")
  /\ \/ /\ up /\ MayUpdate(held[p], Completed(p), Final(p))
        /\ record' = Updated(Completed(p), Final(p))
     \/ UNCHANGED record
  /\ held' = [held EXCEPT ![p] = 0] /\ todo' = [todo EXCEPT ![p] = {}]
  /\ kept' = [kept EXCEPT ![p] = Final(p) \in {"interrupted", "stopped"}]
  /\ round' = [round EXCEPT ![p] = 0] /\ cuts' = [cuts EXCEPT ![p] = 0]
  /\ quit' = [quit EXCEPT ![p] = FALSE]
  /\ interrupted' = [interrupted EXCEPT ![p] = FALSE]
  /\ UNCHANGED <<up, works, sends, drawn, failed, pending, reading, faults>>

Fault == faults < MaxFaults /\ faults' = faults + 1

Stop(p) ==
  /\ pc[p] # "idle" /\ ~quit[p]
  /\ Loses(p) /\ Fault
  /\ UNCHANGED <<server, pc, held, plan, line, interrupted>>

\* The page goes; at most the report of the failed lines is stored.
Reload(p) ==
  /\ pc[p] # "idle" \/ kept[p]
  /\ Fault
  /\ \/ UNCHANGED <<failed, pending>>
     \/ /\ failed' = [failed EXCEPT ![p] = {}]
        /\ pending' = [pending EXCEPT ![p] = {}]
  /\ At(p, "idle") /\ held' = [held EXCEPT ![p] = 0]
  /\ todo' = [todo EXCEPT ![p] = {}] /\ kept' = [kept EXCEPT ![p] = FALSE]
  /\ round' = [round EXCEPT ![p] = 0] /\ cuts' = [cuts EXCEPT ![p] = 0]
  /\ reading' = [reading EXCEPT ![p] = 0]
  /\ quit' = [quit EXCEPT ![p] = FALSE]
  /\ interrupted' = [interrupted EXCEPT ![p] = FALSE]
  /\ UNCHANGED server

ServerCrash == Crash /\ Fault /\ UNCHANGED page
-----------------------------------------------------------------------------
Run(p) ==
  \/ Start(p) \/ StartFails(p) \/ Refresh(p) \/ Post(p) \/ Read(p)
  \/ Aborted(p) \/ Wait(p) \/ Look(p) \/ Close(p)

Author(p) ==
  \/ Begin(p) \/ ResumeSession(p) \/ ResumeHistory(p) \/ RetryFailed(p)
  \/ Stop(p) \/ Reload(p)

Work(i) ==
  (JobDraws(i) \/ JobEnds(i) \/ Perform(i) \/ Render(i)) /\ UNCHANGED <<page, faults>>

Unread(i) ==
  /\ \A p \in Pages : reading[p] # i
  /\ Leave(i) /\ UNCHANGED <<page, faults>>

Next ==
  \/ \E p \in Pages : Run(p) \/ Author(p) \/ Heartbeat(p)
  \/ \E i \in Sends : Work(i) \/ Unread(i)
  \/ (Lapse \/ Restart) /\ UNCHANGED <<page, faults>>
  \/ ServerCrash

Spec == Init /\ [][Next]_vars

\* Pages that run, threads of the server and time go on; authors need not.
FairSpec ==
  /\ Spec
  /\ \A p \in Pages : WF_vars(Run(p))
  /\ \A i \in Sends : WF_vars(Work(i))
  /\ WF_vars(Lapse /\ UNCHANGED <<page, faults>>)
=============================================================================
