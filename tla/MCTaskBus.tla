----------------------------- MODULE MCTaskBus -----------------------------
(***************************************************************************)
(* TaskBus for TLC. The sessions are interchangeable: no action and no     *)
(* property singles one out, and Legacy is none or all of them.            *)
(***************************************************************************)
EXTENDS TaskBusLife, TLC

SessionSymmetry == Permutations(Session)
=============================================================================
