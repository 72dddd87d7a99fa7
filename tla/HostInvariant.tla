---------------------------- MODULE HostInvariant ----------------------------
(***************************************************************************)
(* The inductive invariant of the host of one execution: how the copies of *)
(* its snapshot in memory, the saved one, the variation's row and the      *)
(* acknowledged actions stand to each other.                               *)
(*                                                                         *)
(* A copy is an object's snapshot with its context; the row of the         *)
(* execution is one too.  A copy that waits for a commit is either         *)
(* acknowledged, with the very description it would send again, or was     *)
(* made from the variation's row as it is.  The second is possible for the *)
(* saved snapshot, and for the one that was cancelled last: between any    *)
(* other two snapshots the commit has been acknowledged.                   *)
(***************************************************************************)
EXTENDS AuthoringHostProperties

Variations == [authority: VariationAuthority, document: Documents,
               description: Descriptions \cup {None}]
Rows   == [snapshot: Snapshots, context: Contexts]
Copies == [snapshot: Snapshots, context: Contexts, fresh: BOOLEAN]
Jobs   == [object: Objects \cup {None}, effect: Effects \cup {None}, steps: Nat,
           at: {"look", "render", "effect", "save", "calling", "leaving", "done"},
           result: {"committed", "replayed", "failed", None}, failed: BOOLEAN]

\* None is no value of any optional part of the state.
ASSUME NoneAssumption ==
  /\ None \notin Objects /\ None \notin Effects
  /\ None \notin Documents /\ None \notin Descriptions
  /\ None \notin Variations /\ None \notin Rows /\ None \notin Copies /\ None \notin Jobs
  /\ None \notin [document: Documents, next: VariationAuthority,
                  reason: DescriptionReasons \cup {"user"}]

Shapes ==
  /\ first \in {NewDescription, NewDirectDdl}
  /\ stored \in Rows \cup {None} /\ variation \in Variations \cup {None}
  /\ acks \subseteq [effect: Effects, description: Descriptions \cup {None}]
  /\ objects \in [Objects -> Copies \cup {None}] /\ registered \in Objects \cup {None}
  /\ job \in Jobs \cup {None}
  /\ requests \in [Requests -> [at: {"idle", "holding", "scheduling"}, object: Objects \cup {None}]]

\* What something refers to is there, and nothing is there before the start.
Held(o) == o \in Objects /\ objects[o] # None

References ==
  /\ registered # None => Held(registered)
  /\ Running => Held(job.object)
  /\ \A r \in Requests : requests[r].at # "idle" => Held(requests[r].object)
  /\ stored = None => variation = None /\ acks = {} /\ \A o \in Objects : ~Held(o)
-----------------------------------------------------------------------------
\* A copy by itself.

Committing(c) == c.snapshot.view.phase = "committing"

\* The effect was issued by this snapshot or an earlier one; a commit by this.
EffectIsIssued(s) ==
  /\ s.effect # None => s.effect <= s.sequence
  /\ s.view.phase = "committing" => s.effect = s.sequence

\* The description a provider reads is the one kept with the execution.
SourceIsKept(v, context) ==
  v.phase = "asking" /\ v.source # None => context.description = v.source

\* A proposal is one the authority record makes, and a description's document
\* was written from the description kept with the execution.
ProposalIsNext(v, context) ==
  v.phase = "committing" =>
    \/ v.proposal.reason = "user" /\ v.proposal.next = ProposeUserMutation(v.authority)
    \/ /\ v.proposal.reason \in DescriptionReasons
       /\ v.proposal.next = ProposeStage1Result(v.authority)
       /\ context.description \in Descriptions
       /\ v.proposal.document \in Written[context.description]

CopyOK(c) ==
  /\ EffectIsIssued(c.snapshot)
  /\ SourceIsKept(c.snapshot.view, c.context) /\ ProposalIsNext(c.snapshot.view, c.context)
-----------------------------------------------------------------------------
\* A copy and the rows.

Acked(e) == \E a \in acks : a.effect = e

AckedAs(c) ==
  [effect |-> c.snapshot.effect, description |-> CommitDescription(c)] \in acks

\* The copy shows the variation's row.
Agrees(c) ==
  IF variation = None
  THEN c.snapshot.view.authority = first /\ c.snapshot.view.document = None
  ELSE /\ variation.authority = c.snapshot.view.authority
       /\ variation.document = c.snapshot.view.document
       /\ variation.description = c.context.committed

\* The row is what the copy's commit makes of it.
IsAhead(c) ==
  /\ variation # None
  /\ variation.authority = c.snapshot.view.proposal.next
  /\ variation.document = c.snapshot.view.proposal.document
  /\ variation.description = CommitDescription(c)

\* Two copies of one sequence are the same snapshot, and send the same
\* description.
Same(c, k) ==
  c.snapshot.sequence = k.snapshot.sequence =>
    /\ c.snapshot = k.snapshot
    /\ IF Committing(c) THEN CommitDescription(c) = CommitDescription(k)
       ELSE c.context = k.context

StoredOK ==
  stored # None =>
    /\ CopyOK(stored)
    /\ variation = None => acks = {} /\ stored.snapshot.view.authority = first
    /\ stored.snapshot.view.phase \notin {"committing", "cancelled"} => Agrees(stored)
    /\ Committing(stored) => \/ ~Acked(stored.snapshot.effect) /\ Agrees(stored)
                             \/ AckedAs(stored) /\ IsAhead(stored)
    /\ \A a \in acks : a.effect <= stored.snapshot.sequence

\* The saved snapshot, or the one before a saved cancellation.
Latest(c) ==
  \/ c.snapshot.sequence = stored.snapshot.sequence
  \/ /\ stored.snapshot.view.phase = "cancelled"
     /\ stored.snapshot.sequence = c.snapshot.sequence + 1

ObjectOK(c) ==
  /\ CopyOK(c) /\ c.snapshot.sequence <= stored.snapshot.sequence
  /\ variation = None => c.fresh
  /\ Same(c, stored)
  /\ Committing(c) => \/ AckedAs(c)
                      \/ ~Acked(c.snapshot.effect) /\ Agrees(c) /\ Latest(c)

ObjectsOK == \A o \in Objects : Held(o) => ObjectOK(objects[o])

ObjectsAgree == \A o, p \in Objects : Held(o) /\ Held(p) => Same(objects[o], objects[p])

\* A result that waits for its save is that of the copy's own commit; an answer
\* that is awaited is not one to a commit.
JobOK ==
  Running =>
    LET c == objects[job.object]
    IN  /\ job.at = "save" => /\ Committing(c) /\ AckedAs(c)
                              /\ c.context.committed = CommitDescription(c)
                              /\ job.result \in {"committed", "replayed"}
        /\ job.at = "calling" =>
             /\ job.effect \in Effects /\ job.effect <= c.snapshot.sequence
             /\ c.snapshot.effect = job.effect => ~Committing(c)

Inductive == /\ Shapes /\ References /\ StoredOK /\ ObjectsOK /\ ObjectsAgree /\ JobOK
-----------------------------------------------------------------------------
\* While a description may write, its document was written from it: inductive
\* where the host takes every reason of a description for one.
DescriptionIsRead == Inductive /\ SavedDescriptionIsRead
=============================================================================
