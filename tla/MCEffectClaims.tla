-------------------------- MODULE MCEffectClaims --------------------------
(***************************************************************************)
(* Claims, wakes and interrupts on one model call and one gated deferred   *)
(* eval, while host workers come and go.                                   *)
(***************************************************************************)
EXTENDS EffectClaims, TLC

CONSTANTS model, eval, t1, none

ClaimEffects == {model, eval}
ClaimKind == [e \in ClaimEffects |-> IF e = model THEN "model_call" ELSE "local_tool"]
ClaimTurn == [e \in ClaimEffects |-> IF e = model THEN none ELSE t1]
ClaimPosition == model :> 1 @@ eval :> 2

=============================================================================
