-------------------------- MODULE AssistantLedsMC --------------------------
(***************************************************************************)
(* The instance of AssistantLeds that TLC checks: all lifecycles are alike *)
(* and may be permuted.                                                    *)
(***************************************************************************)
EXTENDS AssistantLeds, TLC

Symmetry == Permutations(Jobs)
=============================================================================
