---------------------------- MODULE MCAuditRepair ---------------------------
(***************************************************************************)
(* AuditRepair for TLC.                                                    *)
(***************************************************************************)
EXTENDS RepairHealth, TLC

RepairSymmetry == Permutations(Plain)
=============================================================================
