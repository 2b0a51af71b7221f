----------------------------- MODULE MCAuditPrune ---------------------------
(***************************************************************************)
(* AuditPrune for TLC.                                                     *)
(***************************************************************************)
EXTENDS PruneHealth, TLC
=============================================================================
