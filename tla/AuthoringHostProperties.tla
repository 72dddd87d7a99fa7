---------------------- MODULE AuthoringHostProperties ----------------------
(***************************************************************************)
(* What the host of an execution keeps through crashes, late answers,      *)
(* refused saves and a second object for the same execution.               *)
(***************************************************************************)
EXTENDS AuthoringHost

Effects == Nat

\* What the machine may be seen as: a proposal is there exactly while it waits
\* for its commit.
Views ==
  {v \in [phase: {"unstarted", "asking", "completing", "committing", "rest", "cancelled"},
          authority: VariationAuthority,
          document: Documents \cup {None},
          proposal: [document: Documents, next: VariationAuthority,
                     reason: DescriptionReasons \cup {"user"}] \cup {None},
          source: Descriptions \cup {None}] :
     v.phase = "committing" <=> v.proposal # None}

Snapshots ==
  {s \in [view: Views, sequence: Nat, effect: Effects \cup {None}, rendered: BOOLEAN] :
     /\ s.view.phase # "unstarted"
     /\ Busy(s.view) <=> s.effect # None}

Contexts == [description: Descriptions \cup {None}, committed: Descriptions \cup {None}]

\* Type correctness, with what a stored snapshot always satisfies: an effect
\* is outstanding exactly while the machine is busy.
TypeOK ==
  /\ first \in {NewDescription, NewDirectDdl}
  /\ stored # None => stored.snapshot \in Snapshots /\ stored.context \in Contexts
  /\ variation # None =>
       variation \in [authority: VariationAuthority, document: Documents,
                      description: Descriptions \cup {None}]
  /\ acks \subseteq [effect: Effects, description: Descriptions \cup {None}]
  /\ \A o \in Objects : objects[o] # None =>
       /\ objects[o].snapshot \in Snapshots /\ objects[o].context \in Contexts
       /\ objects[o].fresh \in BOOLEAN
  /\ registered \in Objects \cup {None}
  /\ Running => objects[Worker] # None
  /\ \A r \in Requests : requests[r].at # "idle" => objects[requests[r].object] # None

\* The saved snapshot and the variation's row are written by two transactions
\* and a crash may come between them.  The replayed acknowledgement heals it:
\* a snapshot that waits for no commit shows the row's document under the row's
\* authority.  (A run cancelled between the two is over, and keeps its own.)
StoredView == IF stored = None THEN Unstarted(first) ELSE stored.snapshot.view

SettledAgrees ==
  StoredView.phase \notin {"cancelled", "committing"} =>
    /\ StoredView.authority = (IF variation = None THEN first ELSE variation.authority)
    /\ StoredView.document = (IF variation = None THEN None ELSE variation.document)

\* While a description may write its DDL, the description saved with the DDL is
\* the one it was written from, through regenerations that were given up,
\* refused or interrupted.
SavedDescriptionIsRead ==
  variation # None /\ variation.authority.authority = "description_authoritative"
    => variation.document \in Written[variation.description]

\* The store raises on a commit whose description it may not take, and the
\* worker's job ends with the commit outstanding for ever.  No order of
\* generations, edits, cancellations and crashes leads a worker there.
CommitIsAdmitted ==
  Running /\ job.at = "effect" /\ objects[Worker].snapshot.view.phase = "committing"
    => CommitResult(objects[Worker]) # "conflict"

\* The saved snapshots of all the objects an execution ever had are one
\* behaviour of one machine: no save is lost and none is made twice.
Machine == INSTANCE MachineSteps WITH view <- StoredView
OneMachine == Machine!Spec

\* A worker performs the effects the machine returns, in order: an outstanding
\* effect leads to rest, or to a job that is known to have failed.
EffectsArePerformed ==
  Busy(StoredView) ~> \/ ~Busy(StoredView)
                      \/ (job # None /\ job.failed)
=============================================================================
