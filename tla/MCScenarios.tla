---------------------------- MODULE MCScenarios ----------------------------
(* Constants of the model-checked instances of Scenarios. *)
EXTENDS Scenarios

CONSTANTS r1, k1, k2
=============================================================================
