-------------------------- MODULE VoicePipelineMC --------------------------
(***************************************************************************)
(* The instance of VoicePipeline that TLC checks.  All requests are alike, *)
(* and no liveness property is checked: they may be permuted.              *)
(***************************************************************************)
EXTENDS VoicePipeline, TLC

Symmetry == Permutations(Requests)
=============================================================================
