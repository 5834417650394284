------------------------ MODULE MCEffectSettlement ------------------------
(***************************************************************************)
(* Settlement on one turn whose first answer has one or two tool calls.    *)
(***************************************************************************)
EXTENDS EffectSettlement

CONSTANTS a, b, s1, s2

OneCall == <<a>>
TwoCalls == <<a, b>>

=============================================================================
