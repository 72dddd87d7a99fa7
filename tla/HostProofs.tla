----------------------------- MODULE HostProofs -----------------------------
(***************************************************************************)
(* Inductive is an invariant of the host of one execution, for any objects, *)
(* requests, commands, documents and crashes, and the saved snapshots are  *)
(* a behaviour of the machine.  First what an input makes of a view and a  *)
(* snapshot, then what the two transactions (the save of a snapshot and    *)
(* the commit) keep, then one step for each action.                        *)
(***************************************************************************)
EXTENDS HostInvariant, AuthorityProofs, TLAPS

\* A view of a machine that has been started.
LiveView(v) == v \in Views /\ v.phase # "unstarted"

\* Nothing but an acknowledgement changes what was saved.
SameSaved(v, w) == w.authority = v.authority /\ w.document = v.document

\* What may be proposed from a view, by its author or for description d.
ProposedFor(v, w, d) ==
  /\ w.phase = "committing"
  /\ \/ w.proposal.reason = "user" /\ w.proposal.next = ProposeUserMutation(v.authority)
     \/ /\ d \in Descriptions /\ w.proposal.document \in Written[d]
        /\ w.proposal.reason \in DescriptionReasons
        /\ w.proposal.next = ProposeStage1Result(v.authority)
-----------------------------------------------------------------------------
\* Views.

\* A view that waits for no commit.
IsPlain(v, w, phase) == LiveView(w) /\ SameSaved(v, w) /\ w.phase = phase /\ w.proposal = None

LEMMA PlainViews ==
  ASSUME NEW v \in Views
  PROVE  /\ \A d \in Descriptions \cup {None} :
              IsPlain(v, Asked(v, d), "asking") /\ Asked(v, d).source = d
         /\ IsPlain(v, Completing(v), "completing")
         /\ IsPlain(v, Settled(v), "rest")
         /\ \A w \in Cancelled(v) : IsPlain(v, w, "cancelled") /\ v.phase # "cancelled"
  BY DEF Views, LiveView, SameSaved, IsPlain, Asked, Completing, Settled, Cancelled

LEMMA ProposedView ==
  ASSUME NEW v \in Views, NEW documents \in SUBSET Documents,
         NEW reason \in DescriptionReasons \cup {"user"},
         NEW next \in {ProposeUserMutation(v.authority), ProposeStage1Result(v.authority)},
         NEW w \in Proposed(v, documents, reason, next)
  PROVE  /\ LiveView(w) /\ SameSaved(v, w)
         /\ w.phase = "committing" /\ w.proposal.document \in documents
         /\ w.proposal.reason = reason /\ w.proposal.next = next
<1>1. next # NoProposal /\ v.authority \in VariationAuthority
  BY DEF Proposed, Views
<1>2. next \in VariationAuthority
  BY <1>1, ProposalType
<1>3. PICK d \in documents :
        w = [v EXCEPT !.phase = "committing", !.source = None,
                      !.proposal = [document |-> d, reason |-> reason, next |-> next]]
  BY <1>1 DEF Proposed
<1>4. [document |-> d, reason |-> reason, next |-> next]
        \in [document: Documents, next: VariationAuthority,
             reason: DescriptionReasons \cup {"user"}]
  BY <1>2
<1> DEFINE p == [document |-> d, reason |-> reason, next |-> next]
<1>5. p # None /\ p.document = d /\ p.reason = reason /\ p.next = next
  BY <1>4, NoneAssumption
<1> HIDE DEF p
<1>6. w = [v EXCEPT !.phase = "committing", !.source = None, !.proposal = p]
  BY <1>3 DEF p
<1> QED BY <1>4, <1>5, <1>6 DEF Views, LiveView, SameSaved, p

LEMMA UserProposal ==
  ASSUME NEW v \in Views, NEW w \in ProposedByUser(v)
  PROVE  LiveView(w) /\ SameSaved(v, w) /\ \A d : ProposedFor(v, w, d)
<1> DEFINE next == ProposeUserMutation(v.authority)
<1>1. /\ w \in Proposed(v, Documents, "user", next)
      /\ Documents \in SUBSET Documents /\ "user" \in DescriptionReasons \cup {"user"}
      /\ next \in {ProposeUserMutation(v.authority), ProposeStage1Result(v.authority)}
  BY DEF ProposedByUser
<1> HIDE DEF next
<1>2. /\ LiveView(w) /\ SameSaved(v, w) /\ w.phase = "committing"
      /\ w.proposal.reason = "user" /\ w.proposal.next = next
  BY <1>1, ProposedView
<1> QED BY <1>2 DEF ProposedFor, next

LEMMA DescriptionProposal ==
  ASSUME NEW v \in Views, v.source # None, NEW reason \in DescriptionReasons,
         NEW w \in Proposed(v, Written[v.source], reason, ProposeStage1Result(v.authority))
  PROVE  LiveView(w) /\ SameSaved(v, w) /\ ProposedFor(v, w, v.source)
<1>1. v.source \in Descriptions
  BY DEF Views
<1>2. Written[v.source] \in SUBSET Documents
  BY <1>1, WrittenAssumption
<1> DEFINE next == ProposeStage1Result(v.authority)
           documents == Written[v.source]
<1>3. /\ w \in Proposed(v, documents, reason, next) /\ documents \in SUBSET Documents
      /\ reason \in DescriptionReasons \cup {"user"}
      /\ next \in {ProposeUserMutation(v.authority), ProposeStage1Result(v.authority)}
  BY <1>2
<1> HIDE DEF next, documents
<1>4. /\ LiveView(w) /\ SameSaved(v, w) /\ w.phase = "committing"
      /\ w.proposal.document \in documents
      /\ w.proposal.reason = reason /\ w.proposal.next = next
  BY <1>3, ProposedView
<1> QED BY <1>1, <1>4 DEF ProposedFor, next, documents

LEMMA StartedView ==
  ASSUME NEW v \in Views, NEW w \in Started(v)
  PROVE  /\ LiveView(w) /\ SameSaved(v, w)
         /\ w.phase \in {"asking", "rest", "committing"}
         /\ w.phase = "asking" => w.proposal = None
         /\ w.phase = "committing" => \A d : ProposedFor(v, w, d)
<1>1. CASE \E d \in Descriptions \cup {None} : w = Asked(v, d)
  BY <1>1, PlainViews DEF IsPlain
<1>2. CASE w = Settled(v)
  BY <1>2, PlainViews DEF IsPlain
<1>3. CASE w \in ProposedByUser(v)
  BY <1>3, UserProposal DEF ProposedFor
<1> QED BY <1>1, <1>2, <1>3 DEF Started

LEMMA AnsweredView ==
  ASSUME NEW v \in Views, v.phase \in {"asking", "completing"}, NEW w \in Answered(v)
  PROVE  /\ LiveView(w) /\ SameSaved(v, w)
         /\ \/ w = v
            \/ w.phase = "rest"
            \/ v.phase = "asking" /\ w.phase = "committing" /\ ProposedFor(v, w, v.source)
<1>1. CASE w \in {v, Settled(v)}
  BY <1>1, PlainViews DEF LiveView, SameSaved, IsPlain
<1>2. CASE v.phase = "asking" /\ w \in ProposedByUser(v)
  BY <1>2, UserProposal DEF ProposedFor
<1>3. CASE v.phase = "asking" /\ v.source # None /\ \E reason \in DescriptionReasons :
             w \in Proposed(v, Written[v.source], reason, ProposeStage1Result(v.authority))
  BY <1>3, DescriptionProposal DEF ProposedFor
<1> QED BY <1>1, <1>2, <1>3 DEF Answered

LEMMA AcknowledgedView ==
  ASSUME NEW v \in Views, v.phase = "committing", NEW w \in Acknowledged(v)
  PROVE  /\ LiveView(w) /\ w.phase \in {"rest", "completing"}
         /\ w.authority = v.proposal.next /\ w.document = v.proposal.document
<1> DEFINE s == [v EXCEPT !.authority = v.proposal.next, !.document = v.proposal.document]
           k == [s EXCEPT !.phase = "rest", !.source = None, !.proposal = None]
<1>1. v.proposal \in [document: Documents, next: VariationAuthority,
                      reason: DescriptionReasons \cup {"user"}]
  BY DEF Views
<1>2. v.proposal.next \in VariationAuthority /\ v.proposal.document \in Documents
  BY <1>1
<1>3. /\ s.authority = v.proposal.next /\ s.document = v.proposal.document
      /\ s \in Views
  BY <1>2 DEF Views
<1>4. w \in {Settled(s), Completing(s)}
  BY DEF Acknowledged
<1> HIDE DEF s
<1> QED BY <1>3, <1>4, PlainViews DEF IsPlain, SameSaved

LEMMA CommandedViews ==
  ASSUME NEW v \in Views
  PROVE  /\ \A w \in Generated(v) :
              /\ LiveView(w) /\ SameSaved(v, w) /\ v.phase = "rest"
              /\ w.phase = "asking" /\ w.source \in Descriptions
         /\ \A w \in Edited(v) : /\ LiveView(w) /\ SameSaved(v, w) /\ v.phase = "rest"
                                 /\ \A d : ProposedFor(v, w, d)
         /\ \A w \in HolesCompleted(v) :
              /\ LiveView(w) /\ SameSaved(v, w) /\ v.phase = "rest"
              /\ w.phase \in {"completing", "rest"}
         /\ \A w \in Cancelled(v) :
              /\ LiveView(w) /\ SameSaved(v, w) /\ v.phase # "cancelled"
              /\ w.phase = "cancelled"
<1>1. ASSUME NEW w \in Generated(v)
      PROVE  /\ LiveView(w) /\ SameSaved(v, w) /\ v.phase = "rest"
             /\ w.phase = "asking" /\ w.source \in Descriptions
  <2>1. v.phase = "rest" /\ \E d \in Descriptions : w = Asked(v, d)
    BY <1>1 DEF Generated
  <2> QED BY <2>1, PlainViews DEF IsPlain
<1>2. ASSUME NEW w \in Edited(v)
      PROVE  /\ LiveView(w) /\ SameSaved(v, w) /\ v.phase = "rest"
             /\ \A d : ProposedFor(v, w, d)
  BY <1>2, UserProposal DEF Edited
<1>3. ASSUME NEW w \in HolesCompleted(v)
      PROVE  /\ LiveView(w) /\ SameSaved(v, w) /\ v.phase = "rest"
             /\ w.phase \in {"completing", "rest"}
  <2>1. v.phase = "rest" /\ w \in {Completing(v), Settled(v)}
    BY <1>3 DEF HolesCompleted
  <2> QED BY <2>1, PlainViews DEF IsPlain
<1>4. ASSUME NEW w \in Cancelled(v)
      PROVE  /\ LiveView(w) /\ SameSaved(v, w) /\ v.phase # "cancelled"
             /\ w.phase = "cancelled"
  BY <1>4, PlainViews DEF IsPlain
<1> QED BY <1>1, <1>2, <1>3, <1>4
-----------------------------------------------------------------------------
\* Snapshots and copies.

LEMMA AfterSnapshot ==
  ASSUME NEW s \in Snapshots, NEW w, LiveView(w)
  PROVE  /\ After(s, w) \in Snapshots /\ After(s, w).view = w
         /\ After(s, w).sequence = s.sequence + 1
         /\ Busy(w) => After(s, w).effect = s.sequence + 1
         /\ ~Busy(w) => After(s, w).effect = None
         /\ EffectIsIssued(After(s, w))
<1>1. s.sequence \in Nat /\ s.effect \in Effects \cup {None} /\ s.sequence + 1 \in Effects
  BY DEF Snapshots, Effects
<1>2. s.sequence + 1 # None
  BY <1>1, NoneAssumption
<1> QED BY <1>1, <1>2 DEF Snapshots, After, LiveView, EffectIsIssued, Busy, Effects

LEMMA DrawnSnapshot ==
  ASSUME NEW s \in Snapshots, EffectIsIssued(s), s.view.phase # "committing"
  PROVE  /\ Drawn(s) \in Snapshots /\ Drawn(s).view = s.view
         /\ Drawn(s).sequence = s.sequence + 1 /\ Drawn(s).effect = s.effect
         /\ EffectIsIssued(Drawn(s))
<1>1. s.sequence \in Nat /\ (s.effect # None => s.effect \in Nat)
  BY DEF Snapshots, Effects
<1>2. /\ Drawn(s).view = s.view /\ Drawn(s).sequence = s.sequence + 1
      /\ Drawn(s).effect = s.effect /\ Drawn(s) \in Snapshots
  <2>1. Drawn(s) = [view |-> s.view, sequence |-> s.sequence + 1,
                    effect |-> s.effect, rendered |-> TRUE]
    <3>1. s \in [view: Views, sequence: Nat, effect: Effects \cup {None}, rendered: BOOLEAN]
      BY DEF Snapshots
    <3> DEFINE t == [s EXCEPT !.sequence = s.sequence + 1]
    <3>2. t = [view |-> s.view, sequence |-> s.sequence + 1,
               effect |-> s.effect, rendered |-> s.rendered]
      BY <3>1
    <3>3. Drawn(s) = [t EXCEPT !.rendered = TRUE]
      BY DEF Drawn
    <3> HIDE DEF t
    <3> QED BY <3>2, <3>3
  <2>2. s.view \in Views /\ s.sequence + 1 \in Nat /\ s.effect \in Effects \cup {None}
    BY <1>1 DEF Snapshots
  <2> QED BY <2>1, <2>2 DEF Snapshots
<1> QED BY <1>1, <1>2 DEF EffectIsIssued

\* What is noted of a commit changes nothing the commit would send again.
LEMMA ToldCopy ==
  ASSUME NEW c \in Copies, Committing(c), CopyOK(c)
  PROVE  /\ Told(c) \in Copies /\ Told(c).snapshot = c.snapshot
         /\ CommitDescription(Told(c)) = CommitDescription(c)
         /\ Told(c).context.committed = CommitDescription(c)
         /\ CopyOK(Told(c)) /\ Committing(Told(c))
<1> DEFINE v == c.snapshot.view
           d == CommitDescription(c)
<1>1. /\ c.snapshot \in Snapshots /\ c.context \in Contexts
      /\ c.context.description \in Descriptions \cup {None}
      /\ c.context.committed \in Descriptions \cup {None}
  BY DEF Copies, Contexts
<1>2. d \in Descriptions \cup {None}
  BY <1>1 DEF CommitDescription
<1>3. v \in Views /\ v.phase = "committing" /\ v.authority \in VariationAuthority
      /\ v.proposal.next \in VariationAuthority
  BY <1>1 DEF Committing, Snapshots, Views
<1> DEFINE kept == IF v.proposal.next.authority = "ddl_authoritative"
                   THEN d ELSE c.context.description
<1>4. Told(c) = [c EXCEPT !.fresh = FALSE, !.context.committed = d,
                          !.context.description = kept]
  BY DEF Told
<1>5. /\ Told(c) \in Copies /\ Told(c).snapshot = c.snapshot
      /\ Told(c).context.committed = d /\ Told(c).context.description = kept
  <2> HIDE DEF v, d
  <2>1. kept \in Descriptions \cup {None}
    BY <1>1, <1>2
  <2> HIDE DEF kept
  <2>2. Told(c) = [snapshot |-> c.snapshot, fresh |-> FALSE,
                   context |-> [description |-> kept, committed |-> d]]
    BY <1>4 DEF Copies, Contexts
  <2> QED BY <1>1, <1>2, <2>1, <2>2 DEF Copies, Contexts
<1>6. CommitDescription(Told(c)) = d
  BY <1>5 DEF CommitDescription
<1>7. v.proposal.next = ProposeStage1Result(v.authority) => kept = c.context.description
  <2>1. v.proposal.next # NoProposal
    BY <1>3, NoProposalIsNoRecord
  <2> QED BY <1>3, <2>1, ProposedRecord
<1>8. CopyOK(Told(c))
  BY <1>3, <1>5, <1>7 DEF CopyOK, SourceIsKept, ProposalIsNext
<1> QED BY <1>5, <1>6, <1>8 DEF Committing

-----------------------------------------------------------------------------
\* The save of a snapshot.

\* What may follow a saved copy.
Follows(c, k) ==
  /\ k.snapshot.sequence = c.snapshot.sequence + 1
  /\ LET v == c.snapshot.view
         w == k.snapshot.view
     IN  \/ /\ v.phase \notin {"committing", "cancelled"} /\ SameSaved(v, w)
            /\ k.context.committed = c.context.committed
         \/ v.phase = "committing" /\ w.phase = "cancelled" /\ SameSaved(v, w)
         \/ /\ v.phase = "committing" /\ AckedAs(c)
            /\ w.phase \notin {"committing", "cancelled"}
            /\ w.authority = v.proposal.next /\ w.document = v.proposal.document
            /\ k.context.committed = CommitDescription(c)

\* A save is made over the saved snapshot only; what follows it is related to
\* the variation's row as it was, and every other copy is older now.
LEMMA SaveKeeps ==
  ASSUME Inductive, UNCHANGED <<first, variation, acks>>,
         NEW o \in Objects, Held(o),
         NEW s \in Snapshots, NEW context \in Contexts,
         Save(o, s, context, objects[o].fresh, objects),
         CopyOK([snapshot |-> s, context |-> context]),
         Follows(objects[o], [snapshot |-> s, context |-> context])
  PROVE  /\ stored' \in Rows /\ objects' \in [Objects -> Copies \cup {None}]
         /\ \A p \in Objects : Held(p)' <=> Held(p)
         /\ StoredOK' /\ ObjectsOK' /\ ObjectsAgree'
         /\ objects[o].snapshot = stored.snapshot
         /\ objects'[o] = [snapshot |-> s, context |-> context, fresh |-> objects[o].fresh]
         /\ stored'.snapshot = s /\ stored' # None
<1> DEFINE c == objects[o]
           k == [snapshot |-> s, context |-> context]
           n == [snapshot |-> s, context |-> context, fresh |-> c.fresh]
<1>1. /\ c \in Copies /\ c # None /\ ObjectOK(c)
      /\ stored # None /\ stored \in Rows
  BY DEF Inductive, Held, ObjectsOK, Shapes, References
<1>2. stored.snapshot.sequence = c.snapshot.sequence /\ c.snapshot = stored.snapshot
  BY <1>1 DEF Save, ObjectOK, Same
<1>3. /\ stored' = k /\ objects' = [objects EXCEPT ![o] = n]
      /\ n \in Copies /\ k \in Rows
  BY <1>1 DEF Save, Copies, Rows
<1>4. n # None /\ k # None
  BY <1>3, NoneAssumption
<1>5. /\ objects' \in [Objects -> Copies \cup {None}] /\ objects'[o] = n
      /\ \A p \in Objects \ {o} : objects'[p] = objects[p]
  BY <1>3 DEF Inductive, Shapes
<1>6. \A p \in Objects : Held(p)' <=> Held(p)
  BY <1>1, <1>4, <1>5 DEF Held
<1>7. /\ s.sequence \in Nat /\ c.snapshot.sequence \in Nat /\ s.sequence = c.snapshot.sequence + 1
      /\ k.snapshot = s /\ k.context = context /\ n.snapshot = s /\ n.context = context
      /\ n.fresh = c.fresh
  BY <1>1 DEF Follows, Copies, Snapshots
<1>8. /\ StoredOK
      /\ \A a \in acks : a.effect <= c.snapshot.sequence /\ a.effect \in Nat
  BY <1>1, <1>2 DEF Inductive, StoredOK, Shapes, Effects
<1>9. CopyOK(k) /\ CopyOK(n)
  BY <1>7 DEF CopyOK
<1>10. Committing(k) => ~Acked(s.effect) /\ s.effect = s.sequence
  <2> SUFFICES ASSUME Committing(k) PROVE ~Acked(s.effect) /\ s.effect = s.sequence
    OBVIOUS
  <2>1. s.effect = s.sequence
    BY <1>7, <1>9 DEF CopyOK, EffectIsIssued, Committing
  <2> QED BY <1>7, <1>8, <2>1 DEF Acked
<1>11. /\ variation = None => acks = {} /\ s.view.authority = first
       /\ s.view.phase # "cancelled" => Agrees(k)
  <2>1. CASE c.snapshot.view.phase \notin {"committing", "cancelled"}
    <3>1. Agrees(stored) /\ Agrees(c)
      BY <1>1, <1>2, <1>8, <2>1 DEF StoredOK, Agrees, ObjectOK, Same, Committing
    <3>2. SameSaved(c.snapshot.view, s.view) /\ context.committed = c.context.committed
      BY <1>7, <2>1 DEF Follows
    <3> QED BY <1>1, <1>7, <1>8, <3>1, <3>2 DEF Agrees, SameSaved, StoredOK
  <2>2. CASE c.snapshot.view.phase = "committing" /\ s.view.phase = "cancelled"
    BY <1>1, <1>2, <1>7, <1>8, <2>2 DEF Follows, SameSaved, StoredOK
  <2>3. CASE /\ c.snapshot.view.phase = "committing" /\ AckedAs(c)
             /\ s.view.phase \notin {"committing", "cancelled"}
             /\ s.view.authority = c.snapshot.view.proposal.next
             /\ s.view.document = c.snapshot.view.proposal.document
             /\ context.committed = CommitDescription(c)
    <3>1. Acked(stored.snapshot.effect) /\ CommitDescription(c) = CommitDescription(stored)
      BY <1>1, <1>2, <2>3 DEF AckedAs, Acked, ObjectOK, Same, Committing
    <3>2. IsAhead(stored)
      BY <1>1, <1>2, <1>8, <2>3, <3>1 DEF StoredOK, Committing
    <3> QED BY <1>2, <1>7, <2>3, <3>1, <3>2 DEF IsAhead, Agrees
  <2> QED BY <1>7, <2>1, <2>2, <2>3 DEF Follows
<1>12. StoredOK'
  <2>1. /\ variation' = None => acks' = {} /\ s.view.authority = first'
        /\ s.view.phase # "cancelled" => Agrees(k)'
        /\ Committing(k) => ~Acked(s.effect)'
    BY <1>10, <1>11 DEF Agrees, Acked
  <2>2. \A a \in acks' : a.effect <= s.sequence
    BY <1>7, <1>8
  <2> QED BY <1>3, <1>7, <1>9, <2>1, <2>2 DEF StoredOK, Committing
<1>13. ObjectOK(n)'
  <2>1. variation' = None => n.fresh
    BY <1>1, <1>7 DEF ObjectOK
  <2>2. Same(n, k) /\ Committing(n) = Committing(k) /\ (Committing(k) => Agrees(n)')
    BY <1>7, <1>11 DEF Same, Committing, CommitDescription, Agrees
  <2>3. Latest(n)' /\ n.snapshot.sequence <= stored'.snapshot.sequence
    BY <1>3, <1>7 DEF Latest
  <2> QED BY <1>3, <1>7, <1>9, <1>10, <2>1, <2>2, <2>3 DEF ObjectOK, Acked
<1>14. ASSUME NEW p \in Objects \ {o}, Held(p)
       PROVE  ObjectOK(objects[p])' /\ objects[p].snapshot.sequence < s.sequence
  <2> DEFINE q == objects[p]
  <2>1. /\ ObjectOK(q) /\ q \in Copies /\ q.snapshot.sequence \in Nat
    BY <1>14 DEF Inductive, ObjectsOK, Held, Shapes, Copies, Snapshots
  <2>2. q.snapshot.sequence < s.sequence
    BY <1>2, <1>7, <2>1 DEF ObjectOK
  <2>3. Committing(q) /\ ~AckedAs(q) => Latest(q)'
    <3> SUFFICES ASSUME Committing(q), ~AckedAs(q) PROVE Latest(q)'
      OBVIOUS
    <3>1. ~Acked(q.snapshot.effect) /\ Latest(q)
      BY <2>1 DEF ObjectOK
    <3>2. c.snapshot.view.phase # "cancelled"
      BY <1>7 DEF Follows
    <3>3. q.snapshot = c.snapshot
      BY <1>2, <2>1, <3>1, <3>2 DEF Latest, ObjectOK, Same
    <3>4. ~AckedAs(c) /\ c.snapshot.view.phase = "committing"
      BY <3>1, <3>3 DEF AckedAs, Acked, Committing
    <3>5. s.view.phase = "cancelled"
      BY <1>7, <3>4 DEF Follows
    <3> QED BY <1>3, <1>7, <3>3, <3>5 DEF Latest
  <2>4. /\ q' = q
        /\ AckedAs(q)' <=> AckedAs(q)
        /\ Agrees(q)' <=> Agrees(q)
        /\ Acked(q.snapshot.effect)' <=> Acked(q.snapshot.effect)
    BY <1>5 DEF AckedAs, Agrees, Acked
  <2>5. Same(q, stored') /\ q.snapshot.sequence <= stored'.snapshot.sequence
    BY <1>3, <1>7, <2>1, <2>2 DEF Same
  <2> HIDE DEF q
  <2> QED BY <2>1, <2>2, <2>3, <2>4, <2>5 DEF ObjectOK, q
<1>15. ObjectsOK'
  BY <1>5, <1>6, <1>13, <1>14 DEF ObjectsOK
<1>16. ObjectsAgree'
  <2> SUFFICES ASSUME NEW p \in Objects, NEW q \in Objects, Held(p), Held(q)
               PROVE  Same(objects'[p], objects'[q])
    BY <1>6 DEF ObjectsAgree
  <2>1. CASE p = o /\ q = o
    BY <1>5, <2>1 DEF Same
  <2>2. CASE p # o /\ q # o
    BY <1>5, <2>2 DEF ObjectsAgree, Inductive
  <2>3. CASE p # o /\ q = o
    <3>1. objects[p].snapshot.sequence \in Nat
      BY <1>14, <2>3 DEF Inductive, Held, Shapes, Copies, Snapshots
    <3> QED BY <1>5, <1>7, <1>14, <2>3, <3>1 DEF Same
  <2>4. CASE p = o /\ q # o
    <3>1. objects[q].snapshot.sequence \in Nat
      BY <1>14, <2>4 DEF Inductive, Held, Shapes, Copies, Snapshots
    <3> QED BY <1>5, <1>7, <1>14, <2>4, <3>1 DEF Same
  <2> QED BY <2>1, <2>2, <2>3, <2>4
<1> QED BY <1>2, <1>3, <1>4, <1>5, <1>6, <1>12, <1>15, <1>16
-----------------------------------------------------------------------------
\* The commit.

\* The store takes a commit that is outstanding, whichever copy sends it: it is
\* acknowledged already with the same description, or the row is the one it was
\* made from, whose description goes with it.
LEMMA CommitIsTaken ==
  ASSUME Inductive, NEW o \in Objects, Held(o), Committing(objects[o])
  PROVE  LET c == objects[o]
         IN  \/ CommitResult(c) = "replayed" /\ AckedAs(c)
             \/ /\ CommitResult(c) = "committed" /\ ~Acked(c.snapshot.effect)
                /\ Agrees(c) /\ Latest(c)
<1>1. PICK c : c = objects[o]
  OBVIOUS
<1> DEFINE v == c.snapshot.view
           d == CommitDescription(c)
<1>2. /\ c \in Copies /\ ObjectOK(c) /\ Committing(c)
      /\ v \in Views /\ v.authority \in VariationAuthority
      /\ v.proposal.next \in VariationAuthority
  BY <1>1 DEF Inductive, Held, Shapes, ObjectsOK, Committing, Copies, Snapshots, Views
<1>3. CASE AckedAs(c)
  BY <1>1, <1>3 DEF CommitResult, Replayed, AckedAs
<1>4. CASE ~Acked(c.snapshot.effect) /\ Agrees(c) /\ Latest(c)
  <2>1. ~Replayed(c)
    BY <1>4 DEF Replayed, Acked
  <2>2. Expected(c)
    BY <1>2, <1>4 DEF Expected, Agrees, ObjectOK
  <2>3. variation # None => Admits(variation, v.proposal, d)
    <3> SUFFICES ASSUME variation # None PROVE Admits(variation, v.proposal, d)
      OBVIOUS
    <3>1. /\ variation.authority = v.authority /\ variation.description = c.context.committed
          /\ v.proposal.next # NoProposal
      BY <1>2, <1>4, NoProposalIsNoRecord DEF Agrees
    <3>2. \/ v.proposal.reason = "user" /\ v.proposal.next = ProposeUserMutation(v.authority)
          \/ v.proposal.next = ProposeStage1Result(v.authority)
      BY <1>2 DEF ObjectOK, CopyOK, ProposalIsNext, Committing
    <3>3. /\ v.authority.origin = v.proposal.next.origin
          /\ v.authority.authority # "legacy_unknown"
          /\ v.authority.authority = "ddl_authoritative"
               => v.proposal.next.authority = "ddl_authoritative"
          /\ v.proposal.reason \in Stage1Reasons =>
               /\ v.authority.authority = "description_authoritative"
               /\ v.proposal.next.authority = "description_authoritative"
      <4>1. "user" \notin Stage1Reasons
        BY DEF Stage1Reasons
      <4> QED BY <1>2, <3>1, <3>2, <4>1, ProposedRecord
    <3>4. v.proposal.reason \notin Stage1Reasons => d = c.context.committed
      BY DEF CommitDescription
    <3> QED BY <3>1, <3>3, <3>4 DEF Admits
  <2>4. CommitResult(c) = "committed"
    BY <2>1, <2>2, <2>3 DEF CommitResult
  <2> QED BY <1>1, <1>4, <2>4
<1> QED BY <1>2, <1>3, <1>4 DEF ObjectOK

\* The commit of a copy: the row is its own from now on, and every other copy
\* of the same snapshot is acknowledged with it.
LEMMA CommitKeeps ==
  ASSUME Inductive, UNCHANGED <<first, stored>>,
         NEW o \in Objects, Held(o), Committing(objects[o]),
         objects' = [objects EXCEPT ![o] = Told(objects[o])],
         IF CommitResult(objects[o]) = "committed"
         THEN /\ variation' = [authority |-> objects[o].snapshot.view.proposal.next,
                               document |-> objects[o].snapshot.view.proposal.document,
                               description |-> CommitDescription(objects[o])]
              /\ acks' = acks \cup {[effect |-> objects[o].snapshot.effect,
                                     description |-> CommitDescription(objects[o])]}
         ELSE UNCHANGED <<variation, acks>>
  PROVE  /\ objects' \in [Objects -> Copies \cup {None}]
         /\ variation' \in Variations \cup {None}
         /\ acks' \subseteq [effect: Effects, description: Descriptions \cup {None}]
         /\ \A p \in Objects : Held(p)' <=> Held(p)
         /\ StoredOK' /\ ObjectsOK' /\ ObjectsAgree'
         /\ objects'[o].snapshot = objects[o].snapshot
         /\ objects'[o].context.committed = CommitDescription(objects'[o])
         /\ AckedAs(objects[o])'
<1>1. PICK c : c = objects[o]
  OBVIOUS
<1>2. PICK d : d = CommitDescription(c)
  OBVIOUS
<1>3. PICK t : t = Told(c)
  OBVIOUS
<1> DEFINE p0 == c.snapshot.view.proposal
           ack == [effect |-> c.snapshot.effect, description |-> d]
<1>4. /\ c \in Copies /\ c # None /\ ObjectOK(c) /\ CopyOK(c) /\ Committing(c)
      /\ stored # None /\ stored \in Rows
  BY <1>1 DEF Inductive, Held, Shapes, ObjectsOK, ObjectOK, References
<1>5. /\ t \in Copies /\ t.snapshot = c.snapshot /\ CommitDescription(t) = d
      /\ t.context.committed = d /\ CopyOK(t) /\ Committing(t)
  BY <1>2, <1>3, <1>4, ToldCopy
<1>6. t # None
  BY <1>5, NoneAssumption
<1>7. /\ objects' \in [Objects -> Copies \cup {None}] /\ objects'[o] = t
      /\ \A p \in Objects \ {o} : objects'[p] = objects[p]
  BY <1>1, <1>3, <1>5 DEF Inductive, Shapes
<1>8. \A p \in Objects : Held(p)' <=> Held(p)
  BY <1>1, <1>4, <1>6, <1>7 DEF Held
<1>9. /\ c.snapshot \in Snapshots /\ c.snapshot.view \in Views
      /\ c.snapshot.effect \in Effects /\ c.snapshot.effect = c.snapshot.sequence
      /\ c.snapshot.sequence \in Nat
      /\ p0.next \in VariationAuthority /\ p0.document \in Documents
      /\ d \in Descriptions \cup {None}
  <2>1. c.snapshot \in Snapshots /\ c.context \in Contexts
    BY <1>4 DEF Copies
  <2>2. c.snapshot.view \in Views /\ c.snapshot.effect = c.snapshot.sequence
        /\ c.snapshot.sequence \in Nat
    BY <1>4, <2>1 DEF Snapshots, CopyOK, EffectIsIssued, Committing
  <2>3. p0.next \in VariationAuthority /\ p0.document \in Documents
    BY <1>4, <2>2 DEF Views, Committing
  <2> QED BY <1>2, <2>1, <2>2, <2>3 DEF Effects, Contexts, CommitDescription
<1>10. \/ CommitResult(c) = "replayed" /\ AckedAs(c)
       \/ /\ CommitResult(c) = "committed" /\ ~Acked(c.snapshot.effect)
          /\ Agrees(c) /\ Latest(c)
  BY <1>1, <1>4, CommitIsTaken
<1>11. /\ acks \subseteq acks' /\ ack \in acks'
       /\ acks' \subseteq [effect: Effects, description: Descriptions \cup {None}]
       /\ \A a \in acks' : a \in acks \/ a = ack
  BY <1>1, <1>2, <1>9, <1>10 DEF AckedAs, Inductive, Shapes
<1>12. variation' \in Variations /\ variation' # None
  <2>1. CASE CommitResult(c) = "committed"
    <3>1. variation' \in Variations
      BY <1>1, <1>2, <1>9, <2>1 DEF Variations
    <3> QED BY <3>1, NoneAssumption
  <2>2. CASE AckedAs(c) /\ CommitResult(c) # "committed"
    BY <1>1, <1>4, <2>2 DEF AckedAs, Inductive, StoredOK, Shapes
  <2> QED BY <1>10, <2>1, <2>2
\* A copy with the sequence of the one that commits.
<1>13. ASSUME NEW k, Same(k, c), Committing(k), k.snapshot.sequence = c.snapshot.sequence
       PROVE  k.snapshot = c.snapshot /\ CommitDescription(k) = d
              /\ [effect |-> k.snapshot.effect, description |-> CommitDescription(k)] = ack
  BY <1>2, <1>13 DEF Same
<1>14. StoredOK'
  <2>1. CopyOK(stored) /\ \A a \in acks : a.effect <= stored.snapshot.sequence
    BY <1>4 DEF Inductive, StoredOK
  <2>2. \A a \in acks' : a.effect <= stored.snapshot.sequence
    BY <1>4, <1>9, <1>11, <2>1 DEF ObjectOK
  <2>3. CASE CommitResult(c) = "committed"
    <3>1. /\ stored.snapshot.view.phase \in {"committing", "cancelled"}
          /\ Committing(stored) => stored.snapshot.sequence = c.snapshot.sequence
      BY <1>4, <1>10, <2>3 DEF Latest, ObjectOK, Same, Committing
    <3>2. CASE Committing(stored)
      <4>1. Same(stored, c)
        BY <1>4, <3>2 DEF ObjectOK, Same, Committing
      <4>2. /\ stored.snapshot = c.snapshot /\ CommitDescription(stored) = d
            /\ [effect |-> stored.snapshot.effect,
                description |-> CommitDescription(stored)] = ack
        BY <1>13, <3>1, <3>2, <4>1
      <4>3. AckedAs(stored)'
        BY <1>11, <4>2 DEF AckedAs
      <4>4. IsAhead(stored)'
        BY <1>1, <1>2, <1>12, <2>3, <4>2 DEF IsAhead
      <4> QED BY <1>12, <2>1, <2>2, <3>2, <4>3, <4>4 DEF StoredOK, Committing
    <3> QED BY <1>12, <2>1, <2>2, <3>1, <3>2 DEF StoredOK, Committing
  <2>4. CASE CommitResult(c) # "committed"
    <3>1. UNCHANGED <<first, stored, variation, acks>>
      BY <1>1, <2>4
    <3> QED BY <3>1 DEF StoredOK, Inductive, Agrees, Acked, AckedAs, IsAhead
  <2> QED BY <2>3, <2>4
<1>15. ASSUME NEW p \in Objects \ {o}, Held(p)
       PROVE  ObjectOK(objects[p])'
  <2>1. PICK k : k = objects[p]
    OBVIOUS
  <2>2. /\ k \in Copies /\ ObjectOK(k) /\ Same(k, c)
        /\ k.snapshot \in Snapshots /\ k.snapshot.sequence \in Nat
    BY <1>1, <1>15, <2>1
    DEF Inductive, ObjectsOK, ObjectsAgree, Shapes, Held, Copies, Snapshots
  <2>3. CASE Committing(k) /\ k.snapshot.sequence = c.snapshot.sequence
    <3>1. [effect |-> k.snapshot.effect, description |-> CommitDescription(k)] = ack
      BY <1>13, <2>2, <2>3
    <3>2. AckedAs(k)'
      BY <1>11, <3>1 DEF AckedAs
    <3> QED BY <1>12, <2>1, <2>2, <3>2 DEF ObjectOK
  <2>4. CASE AckedAs(k)
    <3>1. AckedAs(k)'
      BY <1>11, <2>4 DEF AckedAs
    <3> QED BY <1>12, <2>1, <2>2, <3>1 DEF ObjectOK
  <2>5. CASE ~Committing(k)
    BY <1>12, <2>1, <2>2, <2>5 DEF ObjectOK
  <2>6. CASE /\ Committing(k) /\ ~AckedAs(k)
             /\ k.snapshot.sequence # c.snapshot.sequence
    <3>1. ~Acked(k.snapshot.effect) /\ Agrees(k) /\ Latest(k)
      BY <2>2, <2>6 DEF ObjectOK
    <3>2. CASE CommitResult(c) = "committed"
      <4>1. Latest(c) /\ c.snapshot.view.phase = "committing"
            /\ k.snapshot.view.phase = "committing"
        BY <1>4, <1>10, <2>6, <3>2 DEF Committing
      <4>2. /\ c.snapshot.sequence = stored.snapshot.sequence => c.snapshot = stored.snapshot
            /\ k.snapshot.sequence = stored.snapshot.sequence => k.snapshot = stored.snapshot
        BY <1>4, <2>2 DEF ObjectOK, Same
      <4> QED BY <1>9, <2>2, <2>6, <3>1, <4>1, <4>2 DEF Latest
    <3>3. CASE CommitResult(c) # "committed"
      <4>1. UNCHANGED <<first, stored, variation, acks>>
        BY <1>1, <3>3
      <4>2. ~Acked(k.snapshot.effect)' /\ Agrees(k)' /\ Latest(k)'
        BY <3>1, <4>1 DEF Acked, Agrees, Latest
      <4> QED BY <1>12, <2>1, <2>2, <4>1, <4>2 DEF ObjectOK
    <3> QED BY <3>2, <3>3
  <2> QED BY <2>3, <2>4, <2>5, <2>6
<1>16. AckedAs(t)' /\ AckedAs(c)'
  BY <1>2, <1>5, <1>11 DEF AckedAs
<1>17. ObjectOK(t)'
  <2>1. Same(t, stored) /\ t.snapshot.sequence <= stored.snapshot.sequence
    BY <1>2, <1>4, <1>5 DEF ObjectOK, Same
  <2> QED BY <1>5, <1>12, <1>16, <2>1 DEF ObjectOK
<1>18. ObjectsOK'
  BY <1>7, <1>8, <1>15, <1>17 DEF ObjectsOK
<1>19. ObjectsAgree'
  <2>1. \A p \in Objects \ {o} : Held(p) => Same(objects[p], t) /\ Same(t, objects[p])
    BY <1>1, <1>2, <1>4, <1>5 DEF Inductive, ObjectsAgree, Same, Committing
  <2>2. Same(t, t)
    BY DEF Same
  <2>3. \A p, q \in Objects \ {o} : Held(p) /\ Held(q) => Same(objects[p], objects[q])
    BY DEF Inductive, ObjectsAgree
  <2> QED BY <1>7, <1>8, <2>1, <2>2, <2>3 DEF ObjectsAgree
<1> QED BY <1>1, <1>3, <1>5, <1>7, <1>8, <1>11, <1>12, <1>14, <1>16, <1>18, <1>19
-----------------------------------------------------------------------------
\* What may follow a copy.

\* An advance that neither acknowledges nor cancels a commit.
LEMMA PlainFollows ==
  ASSUME NEW c \in Copies, c.snapshot.view.phase \notin {"committing", "cancelled"},
         NEW w, LiveView(w), SameSaved(c.snapshot.view, w),
         NEW context \in Contexts, context.committed = c.context.committed,
         SourceIsKept(w, context),
         w.phase = "committing" => ProposedFor(c.snapshot.view, w, context.description)
  PROVE  LET k == [snapshot |-> After(c.snapshot, w), context |-> context]
         IN  After(c.snapshot, w) \in Snapshots /\ CopyOK(k) /\ Follows(c, k)
<1>1. c.snapshot \in Snapshots
  BY DEF Copies
<1>2. /\ After(c.snapshot, w) \in Snapshots /\ After(c.snapshot, w).view = w
      /\ After(c.snapshot, w).sequence = c.snapshot.sequence + 1
      /\ EffectIsIssued(After(c.snapshot, w))
  BY <1>1, AfterSnapshot
<1>3. ProposalIsNext(w, context)
  BY DEF ProposedFor, SameSaved, ProposalIsNext
<1> QED BY <1>2, <1>3 DEF CopyOK, Follows

\* An advance of a copy whose commit is outstanding: it is acknowledged, or the
\* run is cancelled.
LEMMA CommitFollows ==
  ASSUME NEW c \in Copies, Committing(c), NEW w, LiveView(w), NEW context \in Contexts,
         \/ w.phase = "cancelled" /\ SameSaved(c.snapshot.view, w)
         \/ /\ AckedAs(c) /\ w.phase \in {"rest", "completing"}
            /\ w.authority = c.snapshot.view.proposal.next
            /\ w.document = c.snapshot.view.proposal.document
            /\ context.committed = CommitDescription(c)
  PROVE  LET k == [snapshot |-> After(c.snapshot, w), context |-> context]
         IN  After(c.snapshot, w) \in Snapshots /\ CopyOK(k) /\ Follows(c, k)
<1>1. c.snapshot \in Snapshots
  BY DEF Copies
<1>2. /\ After(c.snapshot, w) \in Snapshots /\ After(c.snapshot, w).view = w
      /\ After(c.snapshot, w).sequence = c.snapshot.sequence + 1
      /\ EffectIsIssued(After(c.snapshot, w))
  BY <1>1, AfterSnapshot
<1>3. SourceIsKept(w, context) /\ ProposalIsNext(w, context)
  BY DEF SourceIsKept, ProposalIsNext
<1> QED BY <1>2, <1>3 DEF CopyOK, Follows, Committing

LEMMA DrawnFollows ==
  ASSUME NEW c \in Copies, CopyOK(c),
         c.snapshot.view.phase \notin {"committing", "cancelled"}
  PROVE  LET k == [snapshot |-> Drawn(c.snapshot), context |-> c.context]
         IN  Drawn(c.snapshot) \in Snapshots /\ CopyOK(k) /\ Follows(c, k)
<1>1. c.snapshot \in Snapshots /\ EffectIsIssued(c.snapshot)
  BY DEF Copies, CopyOK
<1>2. /\ Drawn(c.snapshot) \in Snapshots /\ Drawn(c.snapshot).view = c.snapshot.view
      /\ Drawn(c.snapshot).sequence = c.snapshot.sequence + 1
      /\ EffectIsIssued(Drawn(c.snapshot))
  BY <1>1, DrawnSnapshot
<1> QED BY <1>2 DEF CopyOK, Follows, SameSaved

LEMMA CommandFollows ==
  ASSUME NEW c \in Copies, CopyOK(c), NEW name \in Commands,
         NEW s \in Commanded(name, c.snapshot)
  PROVE  LET context == CommandContext(name, s.view, c.context)
             k == [snapshot |-> s, context |-> context]
         IN  s \in Snapshots /\ context \in Contexts /\ CopyOK(k) /\ Follows(c, k)
<1> DEFINE v == c.snapshot.view
           context == CommandContext(name, s.view, c.context)
<1>1. c.snapshot \in Snapshots /\ v \in Views /\ LiveView(v) /\ c.context \in Contexts
  BY DEF Copies, Snapshots, LiveView
<1>2. \A w : LiveView(w) => After(c.snapshot, w).view = w
  BY <1>1, AfterSnapshot
<1>3. name # "generate" => context = c.context
  BY DEF CommandContext
<1>4. CASE name = "generate"
  <2>1. PICK w \in Generated(v) : s = After(c.snapshot, w)
    BY <1>4 DEF Commanded
  <2>2. /\ LiveView(w) /\ SameSaved(v, w) /\ v.phase = "rest"
        /\ w.phase = "asking" /\ w.source \in Descriptions
    BY <1>1, CommandedViews
  <2>3. context = [c.context EXCEPT !.description = w.source]
    BY <1>2, <1>4, <2>1, <2>2 DEF CommandContext
  <2>4. /\ context \in Contexts /\ context.committed = c.context.committed
        /\ context.description = w.source
    BY <1>1, <2>2, <2>3 DEF Contexts
  <2> HIDE DEF context
  <2> QED BY <2>1, <2>2, <2>4, PlainFollows DEF SourceIsKept, context
<1>5. CASE name = "edit"
  <2>1. PICK w \in Edited(v) : s = After(c.snapshot, w)
    BY <1>5 DEF Commanded
  <2>2. /\ LiveView(w) /\ SameSaved(v, w) /\ v.phase = "rest"
        /\ \A d : ProposedFor(v, w, d)
    BY <1>1, CommandedViews
  <2>3. SourceIsKept(w, c.context)
    BY <2>2 DEF SourceIsKept, ProposedFor
  <2> QED BY <1>1, <1>3, <1>5, <2>1, <2>2, <2>3, PlainFollows
<1>6. CASE name = "complete"
  <2>1. PICK w \in HolesCompleted(v) : s = After(c.snapshot, w)
    BY <1>6 DEF Commanded
  <2>2. /\ LiveView(w) /\ SameSaved(v, w) /\ v.phase = "rest"
        /\ w.phase \in {"completing", "rest"}
    BY <1>1, CommandedViews
  <2> QED BY <1>1, <1>3, <1>6, <2>1, <2>2, PlainFollows DEF SourceIsKept
<1>7. CASE name = "decline"
  <2>1. v.phase = "rest" /\ s = After(c.snapshot, v)
    BY <1>7 DEF Commanded
  <2> QED BY <1>1, <1>3, <1>7, <2>1, PlainFollows DEF SourceIsKept, SameSaved
<1>8. CASE name = "perform"
  <2>1. v.phase \in {"rest", "completing"} /\ s = Drawn(c.snapshot)
    BY <1>8 DEF Commanded
  <2> QED BY <1>1, <1>3, <1>8, <2>1, DrawnFollows
<1>9. CASE name = "cancel"
  <2>1. PICK w \in Cancelled(v) : s = After(c.snapshot, w)
    BY <1>9 DEF Commanded
  <2>2. /\ LiveView(w) /\ SameSaved(v, w) /\ v.phase # "cancelled" /\ w.phase = "cancelled"
    BY <1>1, CommandedViews
  <2>3. CASE v.phase = "committing"
    BY <1>1, <1>3, <1>9, <2>1, <2>2, <2>3, CommitFollows DEF Committing
  <2>4. CASE v.phase # "committing"
    BY <1>1, <1>3, <1>9, <2>1, <2>2, <2>4, PlainFollows DEF SourceIsKept
  <2> QED BY <2>3, <2>4
<1> QED BY <1>4, <1>5, <1>6, <1>7, <1>8, <1>9, HostAssumption

LEMMA AnswerFollows ==
  ASSUME NEW c \in Copies, CopyOK(c), c.snapshot.view.phase \in {"asking", "completing"},
         NEW w \in Answered(c.snapshot.view)
  PROVE  LET k == [snapshot |-> After(c.snapshot, w), context |-> c.context]
         IN  After(c.snapshot, w) \in Snapshots /\ CopyOK(k) /\ Follows(c, k)
<1> DEFINE v == c.snapshot.view
<1>1. v \in Views /\ c.context \in Contexts
  BY DEF Copies, Snapshots
<1>2. /\ LiveView(w) /\ SameSaved(v, w)
      /\ \/ w = v
         \/ w.phase = "rest"
         \/ v.phase = "asking" /\ w.phase = "committing" /\ ProposedFor(v, w, v.source)
  BY <1>1, AnsweredView
<1>3. SourceIsKept(w, c.context)
  BY <1>2 DEF CopyOK, SourceIsKept
<1>4. w.phase = "committing" => ProposedFor(v, w, c.context.description)
  <2> SUFFICES ASSUME w.phase = "committing"
               PROVE  ProposedFor(v, w, c.context.description)
    OBVIOUS
  <2>1. v.phase = "asking" /\ ProposedFor(v, w, v.source)
    BY <1>2
  <2>2. v.source # None => c.context.description = v.source
    BY <2>1 DEF CopyOK, SourceIsKept
  <2> QED BY <2>1, <2>2, NoneAssumption DEF ProposedFor
<1> QED BY <1>1, <1>2, <1>3, <1>4, PlainFollows
-----------------------------------------------------------------------------
\* Jobs, and what is referred to.

LEMMA JobTypes ==
  ASSUME NEW j \in Jobs
  PROVE  /\ LET k == [j EXCEPT !.at = "effect"]
            IN  k \in Jobs /\ k.at = "effect" /\ k.object = j.object
         /\ LET k == [j EXCEPT !.at = "look", !.result = None, !.steps = @ + 1]
            IN  k \in Jobs /\ k.at = "look" /\ k.object = j.object
         /\ LET k == [j EXCEPT !.at = "look", !.effect = None, !.steps = @ + 1]
            IN  k \in Jobs /\ k.at = "look" /\ k.object = j.object
         /\ LET k == [j EXCEPT !.at = "look", !.steps = @ + 1]
            IN  k \in Jobs /\ k.at = "look" /\ k.object = j.object
<1>1. j.steps + 1 \in Nat
  BY DEF Jobs
<1>2. PICK n \in Nat : n = j.steps + 1
  BY <1>1
<1>3. LET k == [j EXCEPT !.at = "effect"]
      IN  k \in Jobs /\ k.at = "effect" /\ k.object = j.object
  BY DEF Jobs
<1>4. LET k == [j EXCEPT !.at = "look", !.result = None, !.steps = n]
      IN  k \in Jobs /\ k.at = "look" /\ k.object = j.object
  BY DEF Jobs
<1>5. LET k == [j EXCEPT !.at = "look", !.effect = None, !.steps = n]
      IN  k \in Jobs /\ k.at = "look" /\ k.object = j.object
  BY DEF Jobs
<1>6. LET k == [j EXCEPT !.at = "look", !.steps = n]
      IN  k \in Jobs /\ k.at = "look" /\ k.object = j.object
  BY DEF Jobs
<1> QED BY <1>2, <1>3, <1>4, <1>5, <1>6

LEMMA JobStarts ==
  /\ \A o \in Objects : /\ NewJob(o) \in Jobs /\ NewJob(o) # None
                        /\ NewJob(o).at = "look" /\ NewJob(o).object = o
  /\ \A failed \in BOOLEAN : /\ Ended(failed) \in Jobs /\ Ended(failed) # None
                             /\ Ended(failed).at = "done" /\ Ended(failed).object = None
<1>1. \A o \in Objects \cup {None} :
        NewJob(o) \in Jobs /\ NewJob(o).at = "look" /\ NewJob(o).object = o
  BY DEF NewJob, Jobs
<1>2. \A failed \in BOOLEAN : Ended(failed) =
        [object |-> None, effect |-> None, steps |-> 0, at |-> "done", result |-> None,
         failed |-> failed]
  <2> SUFFICES ASSUME NEW failed \in BOOLEAN
               PROVE  Ended(failed) =
                        [object |-> None, effect |-> None, steps |-> 0, at |-> "done",
                         result |-> None, failed |-> failed]
    OBVIOUS
  <2>1. PICK n : n = NewJob(None)
    OBVIOUS
  <2>2. /\ n \in Jobs /\ n.object = None /\ n.effect = None /\ n.steps = 0
        /\ n.result = None
    BY <2>1 DEF NewJob, Jobs
  <2>3. Ended(failed) = [n EXCEPT !.at = "done", !.failed = failed]
    BY <2>1 DEF Ended
  <2> QED BY <2>2, <2>3 DEF Jobs
<1>3. \A failed \in BOOLEAN :
        Ended(failed) \in Jobs /\ Ended(failed).at = "done" /\ Ended(failed).object = None
  BY <1>2 DEF Jobs
<1> QED BY <1>1, <1>3, NoneAssumption

\* Nothing is disturbed by letting copies go.
LEMMA Forgetting ==
  ASSUME Inductive, UNCHANGED <<first, stored, variation, acks>>,
         objects' \in [Objects -> Copies \cup {None}],
         \A o \in Objects : objects'[o] \in {objects[o], None}
  PROVE  StoredOK' /\ ObjectsOK' /\ ObjectsAgree'
<1>1. StoredOK'
  BY DEF Inductive, StoredOK, Agrees, Acked, AckedAs, IsAhead
<1>2. ASSUME NEW o \in Objects, Held(o)'
      PROVE  ObjectOK(objects[o])'
  <2>1. PICK k : k = objects[o]
    OBVIOUS
  <2>2. objects'[o] = k /\ ObjectOK(k)
    BY <1>2, <2>1 DEF Held, Inductive, ObjectsOK
  <2>3. ObjectOK(k)'
    BY <2>2 DEF ObjectOK, AckedAs, Acked, Agrees, Latest
  <2> QED BY <2>2, <2>3
<1>3. ObjectsOK'
  BY <1>2 DEF ObjectsOK
<1>4. ObjectsAgree'
  BY DEF Inductive, ObjectsAgree, Held
<1> QED BY <1>1, <1>3, <1>4

\* What something still refers to is kept.
LEMMA Keeping ==
  ASSUME Inductive, UNCHANGED <<first, stored, variation, acks>>, stored # None,
         objects' = Kept(objects), registered' \in {registered, None},
         job' \in Jobs \cup {None}, Running' => Held(job'.object),
         requests' \in [Requests -> [at: {"idle", "holding", "scheduling"},
                                     object: Objects \cup {None}]],
         \A r \in Requests : requests'[r].at # "idle" => Held(requests'[r].object)
  PROVE  /\ Shapes' /\ References' /\ StoredOK' /\ ObjectsOK' /\ ObjectsAgree'
         /\ Running' => objects'[job'.object] = objects[job'.object]
<1>1. /\ objects' \in [Objects -> Copies \cup {None}]
      /\ \A o \in Objects : objects'[o] \in {objects[o], None}
  BY DEF Kept, Inductive, Shapes
<1>2. StoredOK' /\ ObjectsOK' /\ ObjectsAgree'
  BY <1>1, Forgetting
<1>3. Running' => objects'[job'.object] = objects[job'.object] /\ Held(job.object)'
  BY DEF Kept, Held, Running
<1>4. \A r \in Requests : requests'[r].at # "idle" => Held(requests[r].object)'
  BY DEF Kept, Held
<1>5. registered' # None => Held(registered)'
  BY DEF Kept, Held, Inductive, References
<1>6. Shapes'
  BY <1>1 DEF Inductive, Shapes
<1>7. References'
  BY <1>3, <1>4, <1>5 DEF References
<1> QED BY <1>2, <1>3, <1>6, <1>7

\* Only the job moves.
LEMMA JobMoves ==
  ASSUME Inductive, UNCHANGED <<first, rows, objects, registered, requests>>,
         Running, job' \in Jobs, job'.object = job.object, JobOK'
  PROVE  Inductive'
<1>1. job' # None /\ Held(job.object) /\ stored # None
  BY NoneAssumption DEF Inductive, References, Held
<1>2. Shapes' /\ References'
  BY <1>1 DEF Inductive, Shapes, References, rows, Held, Running
<1>3. /\ objects' \in [Objects -> Copies \cup {None}]
      /\ \A o \in Objects : objects'[o] \in {objects[o], None}
      /\ UNCHANGED <<first, stored, variation, acks>>
  BY DEF Inductive, Shapes, rows
<1>4. StoredOK' /\ ObjectsOK' /\ ObjectsAgree'
  BY <1>3, Forgetting
<1> QED BY <1>2, <1>4 DEF Inductive

LEMMA FailingKeeps ==
  ASSUME Inductive, Running, JobFails, UNCHANGED <<first, variation, acks>>
  PROVE  Inductive'
<1>1. job' \in Jobs /\ job' # None /\ job'.at = "done"
  BY JobStarts DEF JobFails
<1>2. ~Running' /\ stored # None
  BY <1>1 DEF Running, Inductive, References, Held
<1>3. /\ requests' \in [Requests -> [at: {"idle", "holding", "scheduling"},
                                     object: Objects \cup {None}]]
      /\ \A r \in Requests : requests'[r].at # "idle" => Held(requests'[r].object)
  BY DEF JobFails, Inductive, Shapes, References
<1>4. Shapes' /\ References' /\ StoredOK' /\ ObjectsOK' /\ ObjectsAgree'
  BY <1>1, <1>2, <1>3, Keeping DEF JobFails
<1> QED BY <1>2, <1>4 DEF Inductive, JobOK

\* A save, with the job elsewhere or at a place that promises nothing.
LEMMA SavingKeeps ==
  ASSUME Inductive, UNCHANGED <<first, variation, acks, registered>>,
         NEW o \in Objects, Held(o),
         NEW s \in Snapshots, NEW context \in Contexts,
         Save(o, s, context, objects[o].fresh, objects),
         CopyOK([snapshot |-> s, context |-> context]),
         Follows(objects[o], [snapshot |-> s, context |-> context]),
         requests' \in [Requests -> [at: {"idle", "holding", "scheduling"},
                                     object: Objects \cup {None}]],
         \A r \in Requests : requests'[r].at # "idle" => Held(requests'[r].object),
         \/ UNCHANGED job /\ ~Locked(o)
         \/ Running /\ job' \in Jobs /\ job'.object = job.object
            /\ job'.at \notin {"save", "calling"}
  PROVE  Inductive'
<1>1. /\ stored' \in Rows /\ objects' \in [Objects -> Copies \cup {None}]
      /\ \A p \in Objects : Held(p)' <=> Held(p)
      /\ StoredOK' /\ ObjectsOK' /\ ObjectsAgree'
      /\ objects'[o] = [snapshot |-> s, context |-> context, fresh |-> objects[o].fresh]
      /\ stored' # None
  BY SaveKeeps
<1>2. job' \in Jobs \cup {None} /\ (Running' => Held(job'.object))
  BY DEF Inductive, Shapes, References, Running
<1>3. Shapes'
  BY <1>1, <1>2 DEF Inductive, Shapes
<1>4. \A p : Held(p)' <=> Held(p)
  BY <1>1 DEF Held
<1>5. References'
  BY <1>1, <1>2, <1>4 DEF Inductive, References
<1>6. JobOK'
  <2>1. CASE Running' /\ UNCHANGED job /\ ~Locked(o) /\ job.object = o
    <3>1. Running /\ job.at # "save"
      BY <2>1 DEF Running, Locked
    <3>2. SUFFICES ASSUME job.at = "calling"
                   PROVE  /\ job.effect <= s.sequence
                          /\ s.effect = job.effect => s.view.phase # "committing"
      BY <1>1, <2>1, <3>1, <3>2 DEF JobOK, Inductive, Committing
    <3>3. /\ job.effect \in Nat /\ job.effect <= objects[o].snapshot.sequence
          /\ objects[o].snapshot.sequence \in Nat
          /\ s.sequence = objects[o].snapshot.sequence + 1
      BY <2>1, <3>1, <3>2
      DEF Inductive, JobOK, Effects, Follows, Held, Shapes, Copies, Snapshots
    <3>4. s.view.phase = "committing" => s.effect = s.sequence
      BY DEF CopyOK, EffectIsIssued
    <3> QED BY <3>3, <3>4
  <2>2. CASE Running' /\ UNCHANGED job /\ job.object # o
    <3>1. Running /\ objects'[job.object] = objects[job.object]
      BY <2>2 DEF Running, Save, Inductive, Shapes, References, Held
    <3> QED BY <2>2, <3>1
        DEF JobOK, Inductive, Committing, AckedAs, CommitDescription
  <2>3. CASE job'.at \notin {"save", "calling"}
    BY <2>3 DEF JobOK
  <2> QED BY <2>1, <2>2, <2>3 DEF JobOK
<1> QED BY <1>1, <1>3, <1>5, <1>6 DEF Inductive
-----------------------------------------------------------------------------
\* One step for each action.

LEMMA InitKeeps == Init => Inductive
<1> SUFFICES ASSUME Init PROVE Inductive
  OBVIOUS
<1>1. /\ stored = None /\ variation = None /\ acks = {} /\ registered = None /\ job = None
      /\ \A o \in Objects : ~Held(o)
      /\ \A r \in Requests : requests[r].at = "idle"
  BY DEF Init, Held, Idle
<1>2. Shapes
  BY DEF Init, Shapes, Idle
<1>3. References /\ StoredOK /\ ObjectsOK /\ ObjectsAgree /\ JobOK
  BY <1>1 DEF References, StoredOK, ObjectsOK, ObjectsAgree, JobOK, Running
<1> QED BY <1>2, <1>3 DEF Inductive

\* A new object next to what is there: a copy of the saved snapshot.
LEMMA Copying ==
  ASSUME Inductive, UNCHANGED <<first, variation, acks>>,
         NEW o \in Objects, ~Held(o), NEW n \in Copies,
         objects' = [objects EXCEPT ![o] = n],
         stored' \in Rows, n.snapshot = stored'.snapshot, n.context = stored'.context,
         UNCHANGED stored \/ \A p \in Objects : ~Held(p),
         StoredOK', variation = None => n.fresh
  PROVE  /\ objects' \in [Objects -> Copies \cup {None}]
         /\ \A p \in Objects : Held(p)' <=> p = o \/ Held(p)
         /\ \A p \in Objects \ {o} : objects'[p] = objects[p]
         /\ ObjectsOK' /\ ObjectsAgree'
<1>1. n # None /\ stored' # None
  BY NoneAssumption
<1>2. /\ objects' \in [Objects -> Copies \cup {None}] /\ objects'[o] = n
      /\ \A p \in Objects \ {o} : objects'[p] = objects[p]
  BY DEF Inductive, Shapes
<1>3. \A p \in Objects : Held(p)' <=> p = o \/ Held(p)
  BY <1>1, <1>2 DEF Held
<1>4. ObjectOK(n)'
  <2>1. CopyOK(n) /\ Same(n, stored') /\ n.snapshot.sequence <= stored'.snapshot.sequence
    <3>1. stored'.snapshot.sequence \in Nat
      BY DEF Rows, Snapshots
    <3> QED BY <1>1, <3>1
        DEF StoredOK, CopyOK, Same, CommitDescription, Committing
  <2>2. Committing(n) => AckedAs(n)' \/ (~Acked(n.snapshot.effect)' /\ Agrees(n)')
    <3>1. PICK k : k = stored'
      OBVIOUS
    <3>2. Committing(k) => AckedAs(k)' \/ (~Acked(k.snapshot.effect)' /\ Agrees(k)')
      BY <1>1, <3>1 DEF StoredOK, Committing, AckedAs, CommitDescription, Acked, Agrees
    <3>3. n.snapshot = k.snapshot /\ n.context = k.context
      BY <3>1
    <3> QED BY <3>2, <3>3 DEF Committing, AckedAs, CommitDescription, Agrees
  <2>3. Latest(n)'
    BY DEF Latest
  <2> QED BY <2>1, <2>2, <2>3 DEF ObjectOK
<1>5. ASSUME NEW p \in Objects \ {o}, Held(p)
      PROVE  ObjectOK(objects[p])' /\ Same(objects[p], n) /\ Same(n, objects[p])
  <2>1. PICK k : k = objects[p]
    OBVIOUS
  <2>2. UNCHANGED stored /\ ObjectOK(k)
    BY <1>5, <2>1 DEF Inductive, ObjectsOK
  <2>3. ObjectOK(k)'
    BY <2>2 DEF ObjectOK, AckedAs, Acked, Agrees, Latest
  <2>4. Same(k, stored) /\ Same(k, n) /\ Same(n, k)
    BY <2>2 DEF ObjectOK, Same, Committing, CommitDescription
  <2> QED BY <1>2, <1>5, <2>1, <2>3, <2>4
<1>6. ObjectsOK'
  BY <1>2, <1>3, <1>4, <1>5 DEF ObjectsOK
<1>7. ObjectsAgree'
  <2>1. Same(n, n)
    BY DEF Same
  <2>2. \A p, q \in Objects \ {o} : Held(p) /\ Held(q) => Same(objects[p], objects[q])
    BY DEF Inductive, ObjectsAgree
  <2> QED BY <1>2, <1>3, <1>5, <2>1, <2>2 DEF ObjectsAgree
<1> QED BY <1>2, <1>3, <1>6, <1>7

LEMMA StartKeeps == ASSUME Inductive, Start PROVE Inductive'
<1> DEFINE u == Unstarted(first)
           S(v) == [view |-> v, sequence |-> 0, effect |-> IF Busy(v) THEN 0 ELSE None,
                    rendered |-> FALSE]
           C(v) == [description |-> v.source, committed |-> v.source]
<1>1. PICK o \in Objects, v \in Started(u) :
        /\ Free(o) /\ registered' = o
        /\ stored' = [snapshot |-> S(v), context |-> C(v)]
        /\ objects' = [objects EXCEPT ![o] =
                         [snapshot |-> S(v), context |-> C(v), fresh |-> TRUE]]
        /\ job' = Scheduled(o, S(v))
  BY DEF Start
<1>2. /\ stored = None /\ variation = None /\ acks = {}
      /\ UNCHANGED <<first, variation, acks, requests>>
      /\ \A p \in Objects : ~Held(p)
      /\ first \in VariationAuthority
      /\ ~Running /\ job \in Jobs \cup {None}
      /\ \A r \in Requests : requests[r].at = "idle"
  <2>1. /\ stored = None /\ variation = None /\ acks = {}
        /\ UNCHANGED <<first, variation, acks, requests>>
        /\ \A p \in Objects : ~Held(p)
    BY DEF Start, Inductive, References
  <2>2. first \in VariationAuthority /\ job \in Jobs \cup {None}
    BY NewAuthorityType DEF Inductive, Shapes
  <2> QED BY <2>1, <2>2 DEF Inductive, References, Held
<1>3. u \in Views /\ u.authority = first /\ u.document = None
  BY <1>2 DEF Unstarted, Views
<1>4. /\ LiveView(v) /\ SameSaved(u, v)
      /\ v.phase \in {"asking", "rest", "committing"}
      /\ v.phase = "committing" => \A d : ProposedFor(u, v, d)
  BY <1>3, StartedView
<1>5. PICK s : s = S(v)
  OBVIOUS
<1>6. PICK context : context = C(v)
  OBVIOUS
<1>7. /\ s.view = v /\ s.sequence = 0 /\ (s.effect # None => s.effect = 0)
      /\ v.phase = "committing" => s.effect = 0
      /\ context.description = v.source /\ s \in Snapshots /\ context \in Contexts
  <2>1. 0 # None
    BY NoneAssumption DEF Effects
  <2> QED BY <1>4, <1>5, <1>6, <2>1 DEF LiveView, Snapshots, Views, Contexts, Effects, Busy
<1> HIDE DEF S, C, u
<1>8. PICK k : k = [snapshot |-> s, context |-> context]
  OBVIOUS
<1>9. PICK n : n = [snapshot |-> s, context |-> context, fresh |-> TRUE]
  OBVIOUS
<1>10. /\ k \in Rows /\ k.snapshot = s /\ k.context = context /\ stored' = k
       /\ n \in Copies /\ n.snapshot = s /\ n.context = context /\ n.fresh
       /\ objects' = [objects EXCEPT ![o] = n]
  BY <1>1, <1>5, <1>6, <1>7, <1>8, <1>9 DEF Rows, Copies
<1>11. CopyOK(k)
  <2>1. SourceIsKept(v, context)
    BY <1>7 DEF SourceIsKept
  <2>2. ProposalIsNext(v, context)
    BY <1>4 DEF ProposalIsNext, ProposedFor, SameSaved
  <2>3. EffectIsIssued(s)
    BY <1>7 DEF EffectIsIssued
  <2> QED BY <1>7, <1>10, <2>1, <2>2, <2>3 DEF CopyOK
<1>12. StoredOK'
  <2>1. v.authority = first /\ v.document = None
    BY <1>3, <1>4 DEF SameSaved
  <2>2. Agrees(k)' /\ ~Acked(s.effect)'
    BY <1>2, <1>7, <1>10, <2>1 DEF Agrees, Acked
  <2> QED BY <1>2, <1>4, <1>7, <1>10, <1>11, <2>1, <2>2 DEF StoredOK, Committing
<1>13. /\ objects' \in [Objects -> Copies \cup {None}]
       /\ \A p \in Objects : Held(p)' <=> p = o \/ Held(p)
       /\ ObjectsOK' /\ ObjectsAgree'
  BY <1>2, <1>10, <1>12, Copying
<1>14. job' \in {job, NewJob(o)}
  BY <1>1 DEF Scheduled
<1>15. /\ job' \in Jobs \cup {None}
       /\ Running' => job'.object = o /\ job'.at = "look"
  BY <1>2, <1>14, JobStarts DEF Running
<1>16. Shapes'
  BY <1>1, <1>2, <1>10, <1>13, <1>15 DEF Inductive, Shapes
<1>17. stored' # None
  BY <1>10, NoneAssumption
<1>18. References'
  BY <1>1, <1>2, <1>13, <1>15, <1>17 DEF References
<1>19. JobOK'
  BY <1>15 DEF JobOK
<1> QED BY <1>12, <1>13, <1>16, <1>18, <1>19 DEF Inductive

LEMMA OpenKeeps ==
  ASSUME Inductive, NEW r \in Requests, Open(r)
  PROVE  Inductive'
<1>1. /\ stored # None /\ stored \in Rows /\ UNCHANGED <<first, stored, variation, acks>>
      /\ StoredOK
  BY DEF Open, rows, Inductive, Shapes
<1>2. CASE /\ registered # None
           /\ requests' = [requests EXCEPT ![r] = [at |-> "holding", object |-> registered]]
           /\ UNCHANGED <<objects, registered, job>>
  <2>1. Shapes'
    BY <1>1, <1>2 DEF Inductive, Shapes
  <2>2. \A q \in Requests :
          requests'[q].at # "idle" => requests'[q].object \in {requests[q].object, registered}
            /\ \/ requests'[q].object = requests[q].object /\ requests[q].at # "idle"
               \/ requests'[q].object = registered
    BY <1>2 DEF Inductive, Shapes
  <2>3. References'
    BY <1>1, <1>2, <2>2 DEF Inductive, References, Held, Running
  <2>4. /\ objects' \in [Objects -> Copies \cup {None}]
        /\ \A o \in Objects : objects'[o] \in {objects[o], None}
    BY <1>2 DEF Inductive, Shapes
  <2>5. StoredOK' /\ ObjectsOK' /\ ObjectsAgree'
    BY <1>1, <2>4, Forgetting
  <2>6. JobOK'
    BY <1>1, <1>2 DEF Inductive, JobOK, Running, Committing, AckedAs, CommitDescription
  <2> QED BY <2>1, <2>3, <2>5, <2>6 DEF Inductive
<1>3. ASSUME NEW o \in Objects, registered = None, Free(o), registered' = o,
             objects' = [objects EXCEPT ![o] =
               [snapshot |-> stored.snapshot, context |-> stored.context,
                fresh |-> stored.snapshot.view.authority.revision = 0]],
             job' = Scheduled(o, stored.snapshot),
             requests' = [requests EXCEPT ![r] = [at |-> "holding", object |-> o]]
      PROVE  Inductive'
  <2>1. PICK n : n = [snapshot |-> stored.snapshot, context |-> stored.context,
                      fresh |-> stored.snapshot.view.authority.revision = 0]
    OBVIOUS
  <2>2. /\ n \in Copies /\ n.snapshot = stored.snapshot /\ n.context = stored.context
        /\ n.fresh <=> stored.snapshot.view.authority.revision = 0
    BY <1>1, <2>1 DEF Rows, Copies
  <2>3. variation = None => n.fresh
    <3>1. first.revision = 0
      BY DEF Inductive, Shapes, NewDescription, NewDirectDdl
    <3> QED BY <1>1, <2>2, <3>1 DEF StoredOK
  <2>4. StoredOK'
    BY <1>1 DEF StoredOK, Agrees, Acked, AckedAs, IsAhead
  <2>5. ~Held(o)
    BY <1>3 DEF Free, Held
  <2>6. /\ objects' \in [Objects -> Copies \cup {None}]
        /\ \A p \in Objects : Held(p)' <=> p = o \/ Held(p)
        /\ \A p \in Objects \ {o} : objects'[p] = objects[p]
        /\ ObjectsOK' /\ ObjectsAgree'
    BY <1>1, <1>3, <2>1, <2>2, <2>3, <2>4, <2>5, Copying
  <2>7. job' \in {job, NewJob(o)} /\ (Running => job' = job)
    BY <1>3 DEF Scheduled
  <2>8. job' \in Jobs \cup {None} /\ (job' # job => job'.object = o /\ job'.at = "look")
    BY <2>7, JobStarts DEF Inductive, Shapes
  <2>9. Shapes'
    BY <1>1, <1>3, <2>6, <2>8 DEF Inductive, Shapes
  <2>10. \A q \in Requests : requests'[q].at # "idle" =>
           requests'[q].object = o \/ (requests'[q] = requests[q])
    BY <1>3 DEF Inductive, Shapes
  <2>11. References'
    BY <1>1, <1>3, <2>6, <2>7, <2>8, <2>10 DEF Inductive, References, Held, Running
  <2>12. JobOK'
    <3>1. CASE job' = job /\ Running
      <4>1. objects'[job.object] = objects[job.object] /\ Running
        BY <2>5, <2>6, <3>1 DEF Inductive, References, Held
      <4> QED BY <1>1, <3>1, <4>1
          DEF Inductive, JobOK, Running, Committing, AckedAs, CommitDescription
    <3>2. CASE job' # job \/ ~Running
      BY <2>7, <2>8, <3>2, JobStarts DEF JobOK, Running
    <3> QED BY <3>1, <3>2
  <2> QED BY <2>4, <2>6, <2>9, <2>11, <2>12 DEF Inductive
<1> QED BY <1>2, <1>3 DEF Open

\* Requests that are typed and hold what is there.
RequestsHold(value) ==
  /\ value \in [Requests -> [at: {"idle", "holding", "scheduling"},
                             object: Objects \cup {None}]]
  /\ \A r \in Requests : value[r].at # "idle" => Held(value[r].object)

LEMMA RequestsMove ==
  ASSUME Inductive, NEW r \in Requests
  PROVE  /\ RequestsHold(requests) /\ RequestsHold([requests EXCEPT ![r] = Idle])
         /\ requests[r].at = "holding" =>
              RequestsHold([requests EXCEPT ![r].at = "scheduling"])
         /\ requests[r].at # "idle" => Held(requests[r].object)
<1>1. RequestsHold(requests)
  BY DEF Inductive, Shapes, References, RequestsHold
<1>2. RequestsHold([requests EXCEPT ![r] = Idle])
  BY <1>1 DEF RequestsHold, Idle
<1>3. requests[r].at = "holding" => RequestsHold([requests EXCEPT ![r].at = "scheduling"])
  BY <1>1 DEF RequestsHold
<1> QED BY <1>1, <1>2, <1>3 DEF RequestsHold

LEMMA LeaveKeeps ==
  ASSUME Inductive, NEW r \in Requests, Leave(r)
  PROVE  Inductive'
<1>1. /\ UNCHANGED <<first, stored, variation, acks>> /\ objects' = Kept(objects)
      /\ registered' = registered /\ job' = job /\ RequestsHold(requests')
      /\ requests[r].at # "idle"
  BY RequestsMove DEF Leave, rows
<1>2. /\ job' \in Jobs \cup {None} /\ (Running' <=> Running)
      /\ Running' => Held(job'.object)
      /\ stored # None
  BY <1>1 DEF Inductive, Shapes, References, Running, Held
<1>3. /\ Shapes' /\ References' /\ StoredOK' /\ ObjectsOK' /\ ObjectsAgree'
      /\ Running' => objects'[job'.object] = objects[job'.object]
  BY <1>1, <1>2, Keeping DEF RequestsHold
<1>4. JobOK'
  <2>1. Running => objects'[job.object] = objects[job.object]
    BY <1>1, <1>2, <1>3
  <2> QED BY <1>1, <1>2, <2>1 DEF Inductive, JobOK, Committing, AckedAs, CommitDescription
<1> QED BY <1>3, <1>4 DEF Inductive

LEMMA CommandKeeps ==
  ASSUME Inductive, NEW r \in Requests, Command(r)
  PROVE  Inductive'
<1>1. PICK o : o = requests[r].object
  OBVIOUS
<1>2. /\ UNCHANGED <<first, variation, acks, registered, job>> /\ ~Locked(o)
      /\ RequestsHold(requests') /\ Held(o)
  BY <1>1, RequestsMove DEF Command
<1>3. PICK name \in Commands : \E s \in Commanded(name, objects[o].snapshot) :
        Save(o, s, CommandContext(name, s.view, objects[o].context), objects[o].fresh, objects)
  BY <1>1 DEF Command
<1>4. PICK s \in Commanded(name, objects[o].snapshot) :
        Save(o, s, CommandContext(name, s.view, objects[o].context), objects[o].fresh, objects)
  BY <1>3
<1>5. PICK context : context = CommandContext(name, s.view, objects[o].context)
  OBVIOUS
<1>6. objects[o] \in Copies /\ CopyOK(objects[o]) /\ o \in Objects
  BY <1>2 DEF Inductive, Shapes, Held, ObjectsOK, ObjectOK
<1>7. /\ s \in Snapshots /\ context \in Contexts
      /\ CopyOK([snapshot |-> s, context |-> context])
      /\ Follows(objects[o], [snapshot |-> s, context |-> context])
  BY <1>5, <1>6, CommandFollows
<1>8. Save(o, s, context, objects[o].fresh, objects)
  BY <1>4, <1>5
<1> QED BY <1>2, <1>6, <1>7, <1>8, SavingKeeps DEF RequestsHold

LEMMA ScheduleKeeps ==
  ASSUME Inductive, NEW r \in Requests, Schedule(r)
  PROVE  Inductive'
<1>1. PICK o : o = requests[r].object
  OBVIOUS
<1>2. /\ UNCHANGED <<first, stored, variation, acks>> /\ objects' = Kept(objects)
      /\ registered' = registered /\ RequestsHold(requests') /\ Held(o) /\ o \in Objects
      /\ job' \in {job, NewJob(o)} /\ (Running => job' = job)
  BY <1>1, RequestsMove DEF Schedule, rows, Scheduled, Held
<1>3. /\ job' \in Jobs \cup {None}
      /\ job' # job => /\ job' = NewJob(o) /\ job'.object = o /\ job'.at = "look"
      /\ stored # None
  BY <1>2, JobStarts DEF Inductive, Shapes, References
<1>4. Running' => Held(job'.object)
  BY <1>2, <1>3 DEF Inductive, References, Running
<1>5. /\ Shapes' /\ References' /\ StoredOK' /\ ObjectsOK' /\ ObjectsAgree'
      /\ Running' => objects'[job'.object] = objects[job'.object]
  BY <1>2, <1>3, <1>4, Keeping DEF RequestsHold
<1>6. JobOK'
  <2>1. CASE job' = job
    <3>1. (Running' <=> Running) /\ (Running => objects'[job.object] = objects[job.object])
      BY <1>5, <2>1 DEF Running
    <3> QED BY <1>2, <2>1, <3>1 DEF Inductive, JobOK, Committing, AckedAs, CommitDescription
  <2>2. CASE job' # job
    BY <1>3, <2>2 DEF JobOK
  <2> QED BY <2>1, <2>2
<1> QED BY <1>5, <1>6 DEF Inductive

LEMMA EvictKeeps == ASSUME Inductive, Evict PROVE Inductive'
<1>1. /\ UNCHANGED <<first, stored, variation, acks>> /\ objects' = Kept(objects)
      /\ registered' = None /\ job' = None /\ requests' = requests /\ stored # None
      /\ ~Running'
  BY DEF Evict, rows, Inductive, References, Held, Running
<1>2. /\ requests' \in [Requests -> [at: {"idle", "holding", "scheduling"},
                                     object: Objects \cup {None}]]
      /\ \A r \in Requests : requests'[r].at # "idle" => Held(requests'[r].object)
  BY <1>1 DEF Inductive, Shapes, References
<1>3. Shapes' /\ References' /\ StoredOK' /\ ObjectsOK' /\ ObjectsAgree'
  BY <1>1, <1>2, Keeping
<1> QED BY <1>1, <1>3 DEF Inductive, JobOK

LEMMA CrashKeeps == ASSUME Inductive, Crash PROVE Inductive'
<1>1. /\ UNCHANGED <<first, stored, variation, acks>> /\ stored # None
      /\ objects' = [o \in Objects |-> None] /\ registered' = None /\ job' = None
      /\ requests' = [r \in Requests |-> Idle]
  BY DEF Crash, rows
<1>2. StoredOK' /\ ObjectsOK' /\ ObjectsAgree'
  BY <1>1, Forgetting
<1>3. Shapes'
  BY <1>1 DEF Inductive, Shapes, Idle
<1>4. References' /\ JobOK'
  BY <1>1 DEF References, Running, JobOK, Idle
<1> QED BY <1>2, <1>3, <1>4 DEF Inductive

LEMMA JobLeaveKeeps == ASSUME Inductive, JobLeave PROVE Inductive'
<1>1. /\ UNCHANGED <<first, stored, variation, acks>> /\ objects' = Kept(objects)
      /\ registered' = registered /\ requests' = requests /\ stored # None
      /\ job' \in Jobs /\ job'.at = "done"
  BY JobStarts DEF JobLeave, rows, Inductive, References, Held
<1>2. /\ requests' \in [Requests -> [at: {"idle", "holding", "scheduling"},
                                     object: Objects \cup {None}]]
      /\ \A r \in Requests : requests'[r].at # "idle" => Held(requests'[r].object)
      /\ ~Running'
  BY <1>1 DEF Inductive, Shapes, References, Running
<1>3. Shapes' /\ References' /\ StoredOK' /\ ObjectsOK' /\ ObjectsAgree'
  BY <1>1, <1>2, Keeping
<1> QED BY <1>2, <1>3 DEF Inductive, JobOK
-----------------------------------------------------------------------------
\* The worker's steps.

\* The object a worker drives.
LEMMA Working ==
  ASSUME Inductive, Running
  PROVE  /\ Worker = job.object /\ Worker \in Objects /\ Held(Worker)
         /\ objects[Worker] \in Copies /\ CopyOK(objects[Worker]) /\ ObjectOK(objects[Worker])
         /\ objects[Worker].snapshot \in Snapshots /\ objects[Worker].context \in Contexts
         /\ objects[Worker].snapshot.view \in Views
         /\ job \in Jobs /\ stored # None /\ RequestsHold(requests)
<1>1. Worker = job.object /\ Held(job.object)
  BY DEF Worker, Inductive, References
<1>2. job \in Jobs /\ stored # None /\ RequestsHold(requests)
  BY <1>1 DEF Running, Inductive, Shapes, References, RequestsHold, Held
<1>3. objects[Worker] \in Copies /\ ObjectOK(objects[Worker]) /\ Worker \in Objects
  BY <1>1 DEF Inductive, Shapes, Held, ObjectsOK
<1> QED BY <1>1, <1>2, <1>3 DEF ObjectOK, Copies, Snapshots

LEMMA JobLookKeeps == ASSUME Inductive, JobLook PROVE Inductive'
<1>1. Running /\ UNCHANGED <<first, variation, acks>>
  BY DEF JobLook
<1>2. CASE JobFails
  BY <1>1, <1>2, FailingKeeps
<1>3. ASSUME NEW at \in {"leaving", "render", "effect"}, job' = [job EXCEPT !.at = at],
             UNCHANGED <<stored, objects, registered, requests>>
      PROVE  Inductive'
  <2>1. job' \in Jobs /\ job'.object = job.object /\ job'.at = at
    <3>1. job \in Jobs
      BY <1>1, Working
    <3> QED BY <1>3, <3>1 DEF Jobs
  <2>2. JobOK'
    BY <2>1 DEF JobOK
  <2> QED BY <1>1, <1>3, <2>1, <2>2, JobMoves DEF rows
<1> QED BY <1>2, <1>3 DEF JobLook

LEMMA JobRenderKeeps == ASSUME Inductive, JobRender PROVE Inductive'
<1>1. PICK o : o = Worker
  OBVIOUS
<1>2. /\ Running /\ UNCHANGED <<first, variation, acks>>
      /\ o \in Objects /\ Held(o) /\ objects[o] \in Copies /\ CopyOK(objects[o])
      /\ objects[o].context \in Contexts /\ job \in Jobs /\ RequestsHold(requests)
  BY <1>1, Working DEF JobRender
<1>3. CASE JobFails
  BY <1>2, <1>3, FailingKeeps
<1>4. CASE /\ objects[o].snapshot.view.phase = "completing"
           /\ Save(o, Drawn(objects[o].snapshot), objects[o].context, objects[o].fresh,
                   objects)
           /\ job' = [job EXCEPT !.at = "effect"]
           /\ UNCHANGED <<registered, requests>>
  <2>1. PICK s : s = Drawn(objects[o].snapshot)
    OBVIOUS
  <2>2. /\ s \in Snapshots
        /\ CopyOK([snapshot |-> s, context |-> objects[o].context])
        /\ Follows(objects[o], [snapshot |-> s, context |-> objects[o].context])
    BY <1>2, <1>4, <2>1, DrawnFollows
  <2>3. job' \in Jobs /\ job'.object = job.object /\ job'.at = "effect"
    BY <1>2, <1>4, JobTypes
  <2> QED BY <1>2, <1>4, <2>1, <2>2, <2>3, SavingKeeps DEF RequestsHold
<1> QED BY <1>1, <1>3, <1>4 DEF JobRender

\* No order of steps leads a worker to a commit that the store refuses.
LEMMA NoConflict ==
  ASSUME Inductive, Running, Committing(objects[Worker])
  PROVE  CommitResult(objects[Worker]) \in {"replayed", "committed"}
  BY Working, CommitIsTaken

LEMMA JobCommitKeeps == ASSUME Inductive, JobCommit PROVE Inductive'
<1>1. PICK o : o = Worker
  OBVIOUS
<1>2. PICK result : result = CommitResult(objects[o])
  OBVIOUS
<1>3. /\ Running /\ UNCHANGED first /\ Committing(objects[o])
      /\ o \in Objects /\ Held(o) /\ o = job.object /\ job \in Jobs
      /\ stored # None /\ RequestsHold(requests)
      /\ result \in {"replayed", "committed"}
  BY <1>1, <1>2, Working, NoConflict DEF JobCommit, Committing
<1>4. /\ job' = [job EXCEPT !.at = "save", !.result = result]
      /\ objects' = [objects EXCEPT ![o] = Told(objects[o])]
      /\ IF result = "committed"
         THEN /\ variation' = [authority |-> objects[o].snapshot.view.proposal.next,
                               document |-> objects[o].snapshot.view.proposal.document,
                               description |-> CommitDescription(objects[o])]
              /\ acks' = acks \cup {[effect |-> objects[o].snapshot.effect,
                                     description |-> CommitDescription(objects[o])]}
         ELSE UNCHANGED <<variation, acks>>
      /\ UNCHANGED <<stored, registered, requests>>
  BY <1>1, <1>2, <1>3 DEF JobCommit
<1>5. /\ objects' \in [Objects -> Copies \cup {None}]
      /\ variation' \in Variations \cup {None}
      /\ acks' \subseteq [effect: Effects, description: Descriptions \cup {None}]
      /\ \A p \in Objects : Held(p)' <=> Held(p)
      /\ StoredOK' /\ ObjectsOK' /\ ObjectsAgree'
      /\ objects'[o].snapshot = objects[o].snapshot
      /\ objects'[o].context.committed = CommitDescription(objects'[o])
      /\ AckedAs(objects[o])'
  BY <1>2, <1>3, <1>4, CommitKeeps
<1>6. job' \in Jobs /\ job'.object = o /\ job'.at = "save" /\ job'.result = result
  <2>1. job \in Jobs /\ job' = [job EXCEPT !.at = "save", !.result = result]
        /\ result \in {"committed", "replayed", "failed", None}
    BY <1>3, <1>4
  <2> QED BY <1>3, <2>1 DEF Jobs
<1>7. Shapes'
  BY <1>3, <1>4, <1>5, <1>6 DEF Inductive, Shapes
<1>8. References'
  BY <1>3, <1>4, <1>5, <1>6 DEF Inductive, References, Held
<1>9. Committing(objects[o])' /\ (objects[o].context.committed = CommitDescription(objects[o]))'
  BY <1>3, <1>5 DEF Committing
<1>10. JobOK'
  BY <1>3, <1>5, <1>6, <1>9 DEF JobOK
<1> QED BY <1>5, <1>7, <1>8, <1>10 DEF Inductive

LEMMA JobSaveKeeps == ASSUME Inductive, JobSave PROVE Inductive'
<1>1. PICK o : o = Worker
  OBVIOUS
<1>2. /\ Running /\ UNCHANGED <<first, variation, acks>>
      /\ o \in Objects /\ Held(o) /\ o = job.object /\ job \in Jobs
      /\ objects[o] \in Copies /\ objects[o].context \in Contexts
      /\ objects[o].snapshot.view \in Views /\ RequestsHold(requests)
      /\ Committing(objects[o]) /\ AckedAs(objects[o]) /\ job.result # "failed"
      /\ objects[o].context.committed = CommitDescription(objects[o])
  BY <1>1, Working DEF JobSave, Inductive, JobOK
<1>3. CASE JobFails
  BY <1>2, <1>3, FailingKeeps
<1>4. ASSUME NEW v \in Acknowledged(objects[o].snapshot.view),
             Save(o, After(objects[o].snapshot, v), objects[o].context, objects[o].fresh,
                  objects),
             job' = [job EXCEPT !.at = "look", !.result = None, !.steps = @ + 1],
             UNCHANGED <<registered, requests>>
      PROVE  Inductive'
  <2>1. /\ LiveView(v) /\ v.phase \in {"rest", "completing"}
        /\ v.authority = objects[o].snapshot.view.proposal.next
        /\ v.document = objects[o].snapshot.view.proposal.document
    BY <1>2, AcknowledgedView DEF Committing
  <2>2. PICK s : s = After(objects[o].snapshot, v)
    OBVIOUS
  <2>3. /\ s \in Snapshots
        /\ CopyOK([snapshot |-> s, context |-> objects[o].context])
        /\ Follows(objects[o], [snapshot |-> s, context |-> objects[o].context])
    BY <1>2, <2>1, <2>2, CommitFollows
  <2>4. job' \in Jobs /\ job'.object = job.object /\ job'.at = "look"
    BY <1>2, <1>4, JobTypes
  <2> QED BY <1>2, <1>4, <2>2, <2>3, <2>4, SavingKeeps DEF RequestsHold
<1> QED BY <1>1, <1>2, <1>3, <1>4 DEF JobSave

LEMMA JobCallKeeps == ASSUME Inductive, JobCall PROVE Inductive'
<1>1. /\ Running /\ job \in Jobs /\ Worker = job.object
      /\ objects[Worker].snapshot \in Snapshots /\ CopyOK(objects[Worker])
      /\ ~Committing(objects[Worker])
      /\ UNCHANGED <<first, rows, objects, registered, requests>>
  BY Working DEF JobCall, Committing
<1>2. CASE job' = [job EXCEPT !.at = "look", !.steps = @ + 1]
  <2>1. job' \in Jobs /\ job'.object = job.object /\ job'.at = "look"
    BY <1>1, <1>2, JobTypes
  <2>2. JobOK'
    BY <2>1 DEF JobOK
  <2> QED BY <1>1, <2>1, <2>2, JobMoves
<1>3. ASSUME NEW e, e = objects[Worker].snapshot.effect, e # None,
             job' = [job EXCEPT !.at = "calling", !.effect = e]
      PROVE  Inductive'
  <2>1. e \in Effects /\ e <= objects[job.object].snapshot.sequence
    BY <1>1, <1>3 DEF Snapshots, CopyOK, EffectIsIssued
  <2>2. job' \in Jobs /\ job'.object = job.object /\ job'.at = "calling" /\ job'.effect = e
    BY <1>1, <1>3, <2>1 DEF Jobs
  <2>3. JobOK'
    BY <1>1, <2>1, <2>2 DEF JobOK, Committing
  <2> QED BY <1>1, <2>2, <2>3, JobMoves
<1> QED BY <1>2, <1>3 DEF JobCall

LEMMA JobAnsweredKeeps == ASSUME Inductive, JobAnswered PROVE Inductive'
<1>1. PICK o : o = Worker
  OBVIOUS
<1>2. PICK next : next = [job EXCEPT !.at = "look", !.effect = None, !.steps = @ + 1]
  OBVIOUS
<1>3. /\ Running /\ UNCHANGED <<first, variation, acks>> /\ job.at = "calling"
      /\ o \in Objects /\ Held(o) /\ o = job.object /\ job \in Jobs
      /\ objects[o] \in Copies /\ CopyOK(objects[o]) /\ objects[o].context \in Contexts
      /\ objects[o].snapshot \in Snapshots /\ RequestsHold(requests)
  BY <1>1, Working DEF JobAnswered
<1>4. next \in Jobs /\ next.object = job.object /\ next.at = "look"
  BY <1>2, <1>3, JobTypes
<1>5. CASE job' = next /\ UNCHANGED <<stored, objects, registered, requests>>
  <2>1. JobOK'
    BY <1>4, <1>5 DEF JobOK
  <2> QED BY <1>3, <1>4, <1>5, <2>1, JobMoves DEF rows
<1>6. CASE JobFails
  BY <1>3, <1>6, FailingKeeps
<1>7. ASSUME Awaited(objects[o].snapshot), NEW v \in Answered(objects[o].snapshot.view),
             Save(o, After(objects[o].snapshot, v), objects[o].context, objects[o].fresh,
                  objects),
             job' = next, UNCHANGED <<registered, requests>>
      PROVE  Inductive'
  <2>1. objects[o].snapshot.view.phase \in {"asking", "completing"}
    <3>1. /\ job.effect \in Effects /\ ~Committing(objects[o])
          /\ objects[o].snapshot.effect = job.effect
      BY <1>3, <1>7 DEF Inductive, JobOK, Awaited
    <3> QED BY <1>3, <3>1, NoneAssumption DEF Snapshots, Busy, Committing
  <2>2. PICK s : s = After(objects[o].snapshot, v)
    OBVIOUS
  <2>3. /\ s \in Snapshots
        /\ CopyOK([snapshot |-> s, context |-> objects[o].context])
        /\ Follows(objects[o], [snapshot |-> s, context |-> objects[o].context])
    BY <1>3, <2>1, <2>2, AnswerFollows
  <2> QED BY <1>3, <1>4, <1>7, <2>2, <2>3, SavingKeeps DEF RequestsHold
<1> QED BY <1>1, <1>2, <1>5, <1>6, <1>7 DEF JobAnswered
-----------------------------------------------------------------------------
\* The invariant.

LEMMA StutterKeeps == ASSUME Inductive, UNCHANGED vars PROVE Inductive'
<1>1. UNCHANGED <<first, stored, variation, acks, objects, registered, job, requests>>
  BY DEF vars, rows
<1>2. Shapes' /\ References'
  BY <1>1 DEF Inductive, Shapes, References, Held, Running
<1>3. /\ objects' \in [Objects -> Copies \cup {None}]
      /\ \A o \in Objects : objects'[o] \in {objects[o], None}
  BY <1>1 DEF Inductive, Shapes
<1>4. StoredOK' /\ ObjectsOK' /\ ObjectsAgree'
  BY <1>1, <1>3, Forgetting
<1>5. JobOK'
  BY <1>1 DEF Inductive, JobOK, Running, Committing, AckedAs, CommitDescription
<1> QED BY <1>2, <1>4, <1>5 DEF Inductive

LEMMA NextKeeps == ASSUME Inductive, [Next]_vars PROVE Inductive'
<1>1. CASE Start
  BY <1>1, StartKeeps
<1>2. CASE Job
  BY <1>2, JobLookKeeps, JobRenderKeeps, JobCommitKeeps, JobSaveKeeps, JobCallKeeps,
     JobAnsweredKeeps, JobLeaveKeeps DEF Job
<1>3. ASSUME NEW r \in Requests, Request(r)
      PROVE  Inductive'
  BY <1>3, OpenKeeps, LeaveKeeps, CommandKeeps, ScheduleKeeps DEF Request
<1>4. CASE Evict
  BY <1>4, EvictKeeps
<1>5. CASE Crash
  BY <1>5, CrashKeeps
<1>6. CASE UNCHANGED vars
  BY <1>6, StutterKeeps
<1> QED BY <1>1, <1>2, <1>3, <1>4, <1>5, <1>6 DEF Next

\* The copies in memory, the saved snapshot, the variation's row and the
\* acknowledged actions stay related as HostInvariant says.
THEOREM InductiveInvariant == Spec => []Inductive
  BY InitKeeps, NextKeeps, PTL DEF Spec

\* Every snapshot that is saved or held in memory is one the machine makes,
\* with an effect exactly while it is busy; whatever is referred to is there.
THEOREM TypeCorrect == Spec => []TypeOK
<1>1. ASSUME Inductive PROVE TypeOK
  <2>1. /\ first \in {NewDescription, NewDirectDdl}
        /\ stored # None => stored.snapshot \in Snapshots /\ stored.context \in Contexts
        /\ variation # None =>
             variation \in [authority: VariationAuthority, document: Documents,
                            description: Descriptions \cup {None}]
        /\ acks \subseteq [effect: Effects, description: Descriptions \cup {None}]
        /\ registered \in Objects \cup {None}
    BY <1>1 DEF Inductive, Shapes, Rows, Variations
  <2>2. \A o \in Objects : objects[o] # None =>
          /\ objects[o].snapshot \in Snapshots /\ objects[o].context \in Contexts
          /\ objects[o].fresh \in BOOLEAN
    BY <1>1 DEF Inductive, Shapes, Copies
  <2>3. /\ Running => objects[Worker] # None
        /\ \A r \in Requests : requests[r].at # "idle" => objects[requests[r].object] # None
    BY <1>1 DEF Inductive, References, Held, Worker
  <2> QED BY <2>1, <2>2, <2>3 DEF TypeOK
<1> QED BY <1>1, InductiveInvariant, PTL

\* A saved snapshot that waits for no commit shows the variation's row, whatever
\* crashed between the two transactions that write them.
THEOREM RowsAgree == Spec => []SettledAgrees
<1>1. ASSUME Inductive PROVE SettledAgrees
  <2>1. CASE stored = None
    BY <1>1, <2>1 DEF Inductive, References, SettledAgrees, StoredView, Unstarted
  <2>2. CASE stored # None
    <3>1. StoredView.phase \notin {"committing", "cancelled"} => Agrees(stored)
      BY <1>1, <2>2 DEF Inductive, StoredOK, StoredView
    <3> QED BY <2>2, <3>1 DEF Agrees, SettledAgrees, StoredView
  <2> QED BY <2>1, <2>2
<1> QED BY <1>1, InductiveInvariant, PTL

\* A worker that is about to commit is never refused for the description it
\* sends: the store has the action acknowledged with it, or the row it changes
\* carries it.
THEOREM CommitsAreAdmitted == Spec => []CommitIsAdmitted
<1>1. ASSUME Inductive PROVE CommitIsAdmitted
  BY <1>1, NoConflict DEF CommitIsAdmitted, Committing
<1> QED BY <1>1, InductiveInvariant, PTL
-----------------------------------------------------------------------------
\* The description that is saved with a document.

LEMMA CommitWrites ==
  ASSUME Inductive, DescriptionReasons \subseteq Stage1Reasons, JobCommit, SavedDescriptionIsRead
  PROVE  SavedDescriptionIsRead'
<1>1. PICK o : o = Worker
  OBVIOUS
<1>2. PICK c : c = objects[o]
  OBVIOUS
<1>3. PICK p : p = c.snapshot.view.proposal
  OBVIOUS
<1>4. /\ c \in Copies /\ CopyOK(c) /\ Committing(c) /\ c.snapshot.view.authority \in VariationAuthority
      /\ p.next \in VariationAuthority
  BY <1>1, <1>2, <1>3, Working DEF JobCommit, Views, Committing
<1>5. CASE UNCHANGED variation
  BY <1>5 DEF SavedDescriptionIsRead
<1>6. CASE variation' = [authority |-> p.next, document |-> p.document,
                         description |-> CommitDescription(c)]
  <2> SUFFICES ASSUME p.next.authority = "description_authoritative"
               PROVE  p.document \in Written[CommitDescription(c)]
    BY <1>6 DEF SavedDescriptionIsRead
  <2>1. p.next # NoProposal
    BY <1>4, NoProposalIsNoRecord
  <2>2. /\ p.reason \in DescriptionReasons
        /\ p.document \in Written[c.context.description]
    BY <1>3, <1>4, <2>1, ProposedRecord DEF CopyOK, ProposalIsNext, Committing
  <2>3. CommitDescription(c) = c.context.description
    BY <1>3, <2>2 DEF CommitDescription
  <2> QED BY <2>2, <2>3
<1> QED BY <1>1, <1>2, <1>3, <1>5, <1>6 DEF JobCommit

\* Where the host takes every reason of a run for a description's, the
\* description saved with a document that descriptions may write is one that
\* writes it, however runs were given up, refused or interrupted before.
THEOREM DescriptionsAreRead ==
  ASSUME DescriptionReasons \subseteq Stage1Reasons
  PROVE  Spec => []SavedDescriptionIsRead
<1>1. Init => SavedDescriptionIsRead
  BY DEF Init, SavedDescriptionIsRead
<1>2. ASSUME Inductive, SavedDescriptionIsRead, [Next]_vars
      PROVE  SavedDescriptionIsRead'
  <2>1. CASE JobCommit
    BY <1>2, <2>1, CommitWrites
  <2>2. CASE UNCHANGED variation
    BY <1>2, <2>2 DEF SavedDescriptionIsRead
  <2>3. JobCommit \/ UNCHANGED variation
    BY <1>2 DEF Next, Job, Request, Start, Open, Leave, Command, Schedule, Evict, Crash,
       JobLook, JobRender, JobSave, JobCall, JobAnswered, JobLeave, vars, rows
  <2> QED BY <2>1, <2>2, <2>3
<1> QED BY <1>1, <1>2, InductiveInvariant, PTL DEF Spec
-----------------------------------------------------------------------------
\* The saved snapshots are a behaviour of one machine.

\* A save replaces the very snapshot its object has.
LEMMA SavedOver ==
  ASSUME Inductive, NEW o \in Objects, Held(o), NEW s \in Snapshots,
         NEW context \in Contexts, NEW fresh,
         Save(o, s, context, fresh, objects), UNCHANGED first
  PROVE  StoredView = objects[o].snapshot.view /\ StoredView' = s.view
<1>1. stored # None /\ ObjectOK(objects[o])
  BY DEF Inductive, References, ObjectsOK
<1>2. StoredView = objects[o].snapshot.view
  BY <1>1 DEF ObjectOK, Same, Save, StoredView
<1>3. stored' = [snapshot |-> s, context |-> context]
  BY DEF Save
<1>4. stored' # None
  <2>1. stored' \in Rows
    BY <1>3 DEF Rows
  <2> QED BY <2>1, NoneAssumption
<1> QED BY <1>2, <1>3, <1>4 DEF StoredView

\* What MachineSteps makes of a view is what MachineView does.
LEMMA MachineOperators ==
  ASSUME NEW v
  PROVE  /\ Machine!Started(v) = Started(v) /\ Machine!Answered(v) = Answered(v)
         /\ Machine!Acknowledged(v) = Acknowledged(v) /\ Machine!Settled(v) = Settled(v)
         /\ Machine!Generated(v) = Generated(v) /\ Machine!Edited(v) = Edited(v)
         /\ Machine!HolesCompleted(v) = HolesCompleted(v)
         /\ Machine!Cancelled(v) = Cancelled(v)
<1>1. /\ Machine!NoProposal = NoProposal
      /\ \A a, authoring : Machine!ProposeAdvance(a, authoring) = ProposeAdvance(a, authoring)
  BY DEF Machine!NoProposal, NoProposal, Machine!ProposeAdvance, ProposeAdvance
<1>2. \A a : /\ Machine!ProposeUserMutation(a) = ProposeUserMutation(a)
             /\ Machine!ProposeStage1Result(a) = ProposeStage1Result(a)
  BY <1>1 DEF Machine!ProposeUserMutation, ProposeUserMutation,
     Machine!ProposeStage1Result, ProposeStage1Result
<1>3. /\ \A d : Machine!Asked(v, d) = Asked(v, d)
      /\ Machine!Settled(v) = Settled(v) /\ Machine!Completing(v) = Completing(v)
  BY DEF Machine!Asked, Asked, Machine!Settled, Settled, Machine!Completing, Completing
<1>4. \A documents, reason, next :
        Machine!Proposed(v, documents, reason, next) = Proposed(v, documents, reason, next)
  BY <1>1 DEF Machine!Proposed, Proposed
<1>5. Machine!ProposedByUser(v) = ProposedByUser(v)
  BY <1>2, <1>4 DEF Machine!ProposedByUser, ProposedByUser
<1>6. Machine!Started(v) = Started(v)
  BY <1>3, <1>5 DEF Machine!Started, Started
<1>7. Machine!Answered(v) = Answered(v)
  BY <1>2, <1>3, <1>4, <1>5 DEF Machine!Answered, Answered
<1>8. Machine!Acknowledged(v) = Acknowledged(v)
  BY DEF Machine!Acknowledged, Acknowledged, Machine!Settled, Settled,
     Machine!Completing, Completing
<1>9. Machine!Generated(v) = Generated(v)
  BY <1>1, <1>2, <1>3 DEF Machine!Generated, Generated
<1>10. Machine!Edited(v) = Edited(v)
  BY <1>5 DEF Machine!Edited, Edited
<1>11. Machine!HolesCompleted(v) = HolesCompleted(v)
  BY <1>3 DEF Machine!HolesCompleted, HolesCompleted
<1>12. Machine!Cancelled(v) = Cancelled(v)
  BY DEF Machine!Cancelled, Cancelled
<1> QED BY <1>3, <1>6, <1>7, <1>8, <1>9, <1>10, <1>11, <1>12

\* A step of the machine, or none.
MachineMoves == [Machine!Next]_StoredView

LEMMA Unmoved == ASSUME UNCHANGED <<first, stored>> PROVE MachineMoves
  BY DEF MachineMoves, StoredView, Unstarted

LEMMA StartMoves == ASSUME Inductive, Start PROVE MachineMoves
<1>1. PICK v \in Started(Unstarted(first)) : \E context :
        stored' = [snapshot |-> [view |-> v, sequence |-> 0,
                                 effect |-> IF Busy(v) THEN 0 ELSE None, rendered |-> FALSE],
                   context |-> context]
  BY DEF Start
<1>2. StoredView = Unstarted(first) /\ StoredView.phase = "unstarted"
  BY DEF Start, StoredView, Unstarted
<1>3. stored' # None
  BY StartKeeps, NoneAssumption DEF Start, Inductive, References, Held, Free
<1>4. StoredView' = v
  BY <1>1, <1>3 DEF StoredView
<1>5. Machine!Start
  BY <1>1, <1>2, <1>4, MachineOperators DEF Machine!Start
<1> QED BY <1>5 DEF MachineMoves, Machine!Next

LEMMA CommandMoves == ASSUME Inductive, NEW r \in Requests, Command(r) PROVE MachineMoves
<1>1. PICK o : o = requests[r].object
  OBVIOUS
<1>2. o \in Objects /\ Held(o) /\ objects[o] \in Copies /\ CopyOK(objects[o]) /\ UNCHANGED first
  BY <1>1, RequestsMove DEF Command, Inductive, Shapes, Held, ObjectsOK, ObjectOK
<1>3. PICK name \in Commands : \E s \in Commanded(name, objects[o].snapshot) :
        Save(o, s, CommandContext(name, s.view, objects[o].context), objects[o].fresh, objects)
  BY <1>1 DEF Command
<1>4. PICK s \in Commanded(name, objects[o].snapshot) :
        Save(o, s, CommandContext(name, s.view, objects[o].context), objects[o].fresh, objects)
  BY <1>3
<1>5. s \in Snapshots /\ CommandContext(name, s.view, objects[o].context) \in Contexts
  BY <1>2, CommandFollows
<1>6. PICK v : v = objects[o].snapshot.view
  OBVIOUS
<1>7. StoredView = v /\ StoredView' = s.view
  BY <1>2, <1>4, <1>5, <1>6, SavedOver
<1>8. objects[o].snapshot \in Snapshots /\ v \in Views /\ LiveView(v)
  BY <1>2, <1>6 DEF Copies, Snapshots, LiveView
<1>9. \/ s.view = v
      \/ s.view \in Generated(v) \cup Edited(v) \cup HolesCompleted(v) \cup Cancelled(v)
  <2>1. \A w : LiveView(w) => After(objects[o].snapshot, w).view = w
    BY <1>8, AfterSnapshot
  <2>2. \A w \in Generated(v) \cup Edited(v) \cup HolesCompleted(v) \cup Cancelled(v) :
          LiveView(w)
    BY <1>8, CommandedViews
  <2>3. CASE name \in {"generate", "edit", "complete", "cancel"}
    <3>1. \E w \in Generated(v) \cup Edited(v) \cup HolesCompleted(v) \cup Cancelled(v) :
            s = After(objects[o].snapshot, w)
      BY <1>4, <1>6, <2>3 DEF Commanded
    <3> QED BY <2>1, <2>2, <3>1
  <2>4. CASE name = "decline"
    <3>1. s = After(objects[o].snapshot, v)
      BY <1>4, <1>6, <2>4 DEF Commanded
    <3> QED BY <1>8, <2>1, <3>1
  <2>5. CASE name = "perform"
    <3>1. s = Drawn(objects[o].snapshot) /\ v.phase # "committing"
      BY <1>4, <1>6, <2>5 DEF Commanded
    <3> QED BY <1>2, <1>6, <1>8, <3>1, DrawnSnapshot DEF CopyOK
  <2> QED BY <2>3, <2>4, <2>5, HostAssumption
<1>10. CASE s.view = v
  BY <1>7, <1>10 DEF MachineMoves
<1>11. CASE s.view \in Generated(v) \cup Edited(v) \cup HolesCompleted(v) \cup Cancelled(v)
  <2>1. Machine!Command
    BY <1>7, <1>11, MachineOperators DEF Machine!Command
  <2> QED BY <2>1 DEF MachineMoves, Machine!Next
<1> QED BY <1>9, <1>10, <1>11

LEMMA RenderMoves == ASSUME Inductive, JobRender PROVE MachineMoves
<1>1. PICK o : o = Worker
  OBVIOUS
<1>2. /\ o \in Objects /\ Held(o) /\ objects[o] \in Copies /\ CopyOK(objects[o])
      /\ objects[o].snapshot \in Snapshots /\ objects[o].context \in Contexts
      /\ UNCHANGED first
  BY <1>1, Working DEF JobRender
<1>3. CASE UNCHANGED stored
  BY <1>2, <1>3, Unmoved
<1>4. CASE /\ objects[o].snapshot.view.phase = "completing"
           /\ Save(o, Drawn(objects[o].snapshot), objects[o].context, objects[o].fresh,
                   objects)
  <2>1. /\ Drawn(objects[o].snapshot) \in Snapshots
        /\ Drawn(objects[o].snapshot).view = objects[o].snapshot.view
    BY <1>2, <1>4, DrawnSnapshot DEF CopyOK
  <2>2. StoredView' = StoredView
    BY <1>2, <1>4, <2>1, SavedOver
  <2> QED BY <2>2 DEF MachineMoves
<1> QED BY <1>1, <1>3, <1>4 DEF JobRender, JobFails

LEMMA SaveMoves == ASSUME Inductive, JobSave PROVE MachineMoves
<1>1. PICK o : o = Worker
  OBVIOUS
<1>2. /\ o \in Objects /\ Held(o) /\ objects[o].snapshot \in Snapshots
      /\ objects[o].context \in Contexts /\ objects[o].snapshot.view \in Views
      /\ Committing(objects[o]) /\ job.result # "failed" /\ UNCHANGED first
  BY <1>1, Working DEF JobSave, Inductive, JobOK
<1>3. CASE UNCHANGED stored
  BY <1>2, <1>3, Unmoved
<1>4. ASSUME NEW v \in Acknowledged(objects[o].snapshot.view),
             Save(o, After(objects[o].snapshot, v), objects[o].context, objects[o].fresh,
                  objects)
      PROVE  MachineMoves
  <2>1. LiveView(v)
    BY <1>2, AcknowledgedView DEF Committing
  <2>2. After(objects[o].snapshot, v) \in Snapshots /\ After(objects[o].snapshot, v).view = v
    BY <1>2, <2>1, AfterSnapshot
  <2>3. StoredView = objects[o].snapshot.view /\ StoredView' = v
    BY <1>2, <1>4, <2>2, SavedOver
  <2>4. Machine!Acknowledge
    BY <1>2, <1>4, <2>3, MachineOperators DEF Machine!Acknowledge, Committing
  <2> QED BY <2>4 DEF MachineMoves, Machine!Next
<1> QED BY <1>1, <1>2, <1>3, <1>4 DEF JobSave, JobFails

LEMMA AnswerMoves == ASSUME Inductive, JobAnswered PROVE MachineMoves
<1>1. PICK o : o = Worker
  OBVIOUS
<1>2. /\ Running /\ job.at = "calling" /\ o = job.object
      /\ o \in Objects /\ Held(o) /\ objects[o] \in Copies /\ CopyOK(objects[o])
      /\ objects[o].snapshot \in Snapshots /\ objects[o].context \in Contexts
      /\ objects[o].snapshot.view \in Views /\ UNCHANGED first
  BY <1>1, Working DEF JobAnswered
<1>3. CASE UNCHANGED stored
  BY <1>2, <1>3, Unmoved
<1>4. ASSUME Awaited(objects[o].snapshot), NEW v \in Answered(objects[o].snapshot.view),
             Save(o, After(objects[o].snapshot, v), objects[o].context, objects[o].fresh,
                  objects)
      PROVE  MachineMoves
  <2>1. objects[o].snapshot.view.phase \in {"asking", "completing"}
    <3>1. /\ job.effect \in Effects /\ ~Committing(objects[o])
          /\ objects[o].snapshot.effect = job.effect
      BY <1>2, <1>4 DEF Inductive, JobOK, Awaited
    <3> QED BY <1>2, <3>1, NoneAssumption DEF Snapshots, Busy, Committing
  <2>2. LiveView(v)
    BY <1>2, <2>1, AnsweredView
  <2>3. After(objects[o].snapshot, v) \in Snapshots /\ After(objects[o].snapshot, v).view = v
    BY <1>2, <2>2, AfterSnapshot
  <2>4. StoredView = objects[o].snapshot.view /\ StoredView' = v
    BY <1>2, <1>4, <2>3, SavedOver
  <2>5. Machine!Answer
    BY <1>4, <2>1, <2>4, MachineOperators DEF Machine!Answer
  <2> QED BY <2>5 DEF MachineMoves, Machine!Next
<1> QED BY <1>1, <1>3, <1>4 DEF JobAnswered, JobFails

\* The saved snapshots are the states of one machine, whichever objects, in
\* whichever processes, saved them: no save is lost and none is made twice.
THEOREM ImplementsMachine == Spec => OneMachine
<1>1. Init => Machine!Init
  BY DEF Init, Machine!Init, StoredView, Unstarted, Machine!Unstarted,
     Machine!NewDescription, Machine!NewDirectDdl, NewDescription, NewDirectDdl
<1>2. Inductive /\ [Next]_vars => MachineMoves
  <2> SUFFICES ASSUME Inductive, [Next]_vars PROVE MachineMoves
    OBVIOUS
  <2>1. CASE Start
    BY <2>1, StartMoves
  <2>2. CASE \E r \in Requests : Command(r)
    BY <2>2, CommandMoves
  <2>3. CASE JobRender
    BY <2>3, RenderMoves
  <2>4. CASE JobSave
    BY <2>4, SaveMoves
  <2>5. CASE JobAnswered
    BY <2>5, AnswerMoves
  <2>6. CASE UNCHANGED <<first, stored>>
    BY <2>6, Unmoved
  <2>7. \/ Start \/ (\E r \in Requests : Command(r)) \/ JobRender \/ JobSave \/ JobAnswered
        \/ UNCHANGED <<first, stored>>
    BY DEF Next, Job, Request, Open, Leave, Schedule, Evict, Crash,
       JobLook, JobCommit, JobCall, JobLeave, JobFails, vars, rows
  <2> QED BY <2>1, <2>2, <2>3, <2>4, <2>5, <2>6, <2>7
<1> QED BY <1>1, <1>2, InductiveInvariant, PTL DEF Spec, OneMachine, Machine!Spec, MachineMoves
=============================================================================
