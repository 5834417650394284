-------------------------- MODULE MCEffectLanes ---------------------------
(***************************************************************************)
(* The dispatch lanes on one turn that reads, writes and reads again, with *)
(* a prompt preparation that arrives beside it.                            *)
(***************************************************************************)
EXTENDS EffectClaims, TLC

CONSTANTS read1, write, read2, prompt, t1, none

LaneEffects == {read1, write, read2, prompt}
LaneKind == [e \in LaneEffects |->
               IF e = prompt THEN "prompt_artifacts" ELSE "local_tool"]
LaneTurn == [e \in LaneEffects |-> IF e = prompt THEN none ELSE t1]
LanePosition == read1 :> 1 @@ write :> 2 @@ read2 :> 3 @@ prompt :> 4
LaneParallel == {read1, read2}

=============================================================================
