-------------------------- MODULE BatchProperties --------------------------
(***************************************************************************)
(* What a batch keeps while leases lapse, pages resume each other's runs   *)
(* and connections are cut.                                                *)
(***************************************************************************)
EXTENDS BatchRun

ServerTypeOK ==
  /\ up \in BOOLEAN /\ sends \in 0 .. MaxSends
  /\ record \in [lease : 0 .. MaxLeases, completed : 0 .. Total, fresh : BOOLEAN,
                 state : {"none", "running", "interrupted", "stopped",
                          "completed", "finished_with_failures"}]
  /\ works \in [Sends -> [line : 0 .. Total, lease : 0 .. MaxLeases,
                  at : {"none", "running", "safe", "cancelling", "ended",
                        "rendering", "saved", "failed", "gone"}]]
  /\ drawn \subseteq Lines

PageTypeOK ==
  /\ pc \in [Pages -> {"idle", "starting", "line", "send", "reading", "waiting",
                       "looking", "closing"}]
  /\ held \in [Pages -> 0 .. MaxLeases] /\ reading \in [Pages -> 0 .. MaxSends]
  /\ todo \in [Pages -> SUBSET Lines] /\ failed \in [Pages -> SUBSET Lines]
  /\ pending \in [Pages -> SUBSET Lines]
  /\ round \in [Pages -> Nat] /\ cuts \in [Pages -> Nat]
  /\ kept \in [Pages -> BOOLEAN] /\ quit \in [Pages -> BOOLEAN]
  /\ interrupted \in [Pages -> BOOLEAN]

\* Types of every variable (BatchLeaseRecord, InterruptedBatchSnapshot and
\* the closures of run).
TypeOK == ServerTypeOK /\ PageTypeOK /\ faults \in 0 .. MaxFaults

\* What makes the count below inductive: a plan has no work only for the lines
\* still pending, and what a page waits for exists.
WorksKnown ==
  \A i \in Sends :
    /\ works[i].at # "none" => works[i].line \in Lines
    /\ works[i].at \in {"safe", "saved"} => works[i].line \in drawn

PlansKnown ==
  \A p \in Pages :
    /\ held[p] # 0 => pc[p] \notin {"idle", "starting"}
    /\ pc[p] \notin {"idle", "closing"} => todo[p] # {}
    /\ pc[p] = "reading" => reading[p] \in Sends
    /\ pc[p] # "idle" \/ kept[p] \/ failed[p] # {} => Lines \ pending[p] \subseteq drawn

\* "Resumption issues a new lease and refuses new drawings with the old one":
\* whatever is still drawing or rendering for the batch belongs to the run
\* that holds its lease, so no work of a superseded run appears beside it.
OneHolderDraws ==
  \A i \in Sends : InFlight(works[i]) => works[i].lease = record.lease

\* The count of the batch is never ahead of the works in the history, and a
\* batch is completed only when every line has one, whoever reported it.
CountIsDrawn ==
  /\ record.completed <= Cardinality(drawn)
  /\ record.state = "completed" => drawn = Lines

\* The invariant the proofs carry from step to step.
Inductive == TypeOK /\ WorksKnown /\ PlansKnown /\ OneHolderDraws /\ CountIsDrawn

\* A run comes to its end: cuts, waits and retry rounds are bounded.
RunEnds == \A p \in Pages : pc[p] # "idle" ~> pc[p] = "idle"

\* A batch whose pages are all gone does not stay "running" or "uncertain":
\* its drawings end, its lease lapses, and it is offered again.
BatchIsOffered ==
  (record.lease # 0 /\ \A p \in Pages : pc[p] = "idle")
    ~> (Shown \notin {"running", "uncertain"} \/ \E p \in Pages : pc[p] # "idle")

=============================================================================
