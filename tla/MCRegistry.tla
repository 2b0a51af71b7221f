----------------------------- MODULE MCRegistry -----------------------------
(***************************************************************************)
(* Registry for TLC: the instances are interchangeable, the slots are not  *)
(* (the lowest available number is allocated).                             *)
(***************************************************************************)
EXTENDS Registry, TLC

InstanceSymmetry == Permutations(Instance)
=============================================================================
