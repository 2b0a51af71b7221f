--------------------------- MODULE MCCanaryCircuit --------------------------
(***************************************************************************)
(* CanaryCircuit for TLC.                                                  *)
(***************************************************************************)
EXTENDS CanaryCircuit, TLC

TaskSymmetry == Permutations(Task)
=============================================================================
