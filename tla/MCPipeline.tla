----------------------------- MODULE MCPipeline -----------------------------
(***************************************************************************)
(* Instances of the authoring machine for TLC.  The documents: two that    *)
(* read whole; one adopted residual with holes; one with holes and no      *)
(* Score; one the compiler boundary refuses.                               *)
(***************************************************************************)
EXTENDS PipelineInvariant

CONSTANTS whole, other, residual, holed, refused

Policy(attempts, attempt, total, delay) ==
  [max_attempts |-> attempts, attempt_timeout |-> attempt,
   total_timeout |-> total, retry_delay |-> delay]

\* Two attempts, and a budget in time that can be spent before the attempts.
Short == Policy(2, 2, 3, 1)
\* Three attempts that time alone does not bound.
Patient == Policy(3, 1, 9, 0)

AllKinds(p)  == [kind \in PolicyKinds |-> p]
MCShort      == AllKinds(Short)
\* The stages without a policy of their own fall back to another one.
MCFallbacks  == [kind \in PolicyKinds |->
                   IF kind \in {"catalog", "stage1", "hole"} THEN Short ELSE None]
MCPatient    == [kind \in PolicyKinds |->
                   IF kind \in {"laws", "image", "hole"} THEN Patient ELSE Short]

Config(composition, laws, colors, review, description_colors) ==
  [composition |-> composition, laws |-> laws, colors |-> colors,
   review |-> review, description_colors |-> description_colors]

StagesConfigs == {Config("none", FALSE, FALSE, FALSE, FALSE),
                  Config("default", FALSE, TRUE, FALSE, FALSE),
                  Config("read", TRUE, TRUE, FALSE, FALSE)}
WrittenConfigs == {Config("none", FALSE, TRUE, TRUE, TRUE),
                   Config("none", FALSE, FALSE, FALSE, TRUE)}
DdlConfigs == {Config("none", TRUE, TRUE, FALSE, FALSE),
               Config("none", TRUE, FALSE, FALSE, FALSE)}
RestConfigs == {Config("read", TRUE, TRUE, TRUE, TRUE)}
DocumentConfigs == {Config("default", FALSE, TRUE, FALSE, FALSE)} \cup DdlConfigs \cup RestConfigs
RegenerateConfigs == {Config("default", TRUE, FALSE, FALSE, FALSE)}
=============================================================================
