---------------------------- MODULE MachineSteps ----------------------------
(***************************************************************************)
(* The behaviours of one execution as its host sees them: one input after  *)
(* another, each with one of the outcomes MachineView gives it.            *)
(***************************************************************************)
EXTENDS MachineView

VARIABLE view   \* the snapshot of the execution

Init == view \in {Unstarted(NewDescription), Unstarted(NewDirectDdl)}

Start   == view.phase = "unstarted" /\ view' \in Started(view)
Answer  == view.phase \in {"asking", "completing"} /\ view' \in Answered(view)
Acknowledge == view.phase = "committing" /\ view' \in Acknowledged(view)
Refuse  == view.phase = "committing" /\ view' = Settled(view)
Command == view' \in Generated(view) \cup Edited(view) \cup HolesCompleted(view)
                     \cup Cancelled(view)

Next == Start \/ Answer \/ Acknowledge \/ Refuse \/ Command

Spec == Init /\ [][Next]_view
=============================================================================
