---------------------------- MODULE MCWatchCancel ---------------------------
(***************************************************************************)
(* WatchCancel for TLC.                                                    *)
(***************************************************************************)
EXTENDS WatchCancel, TLC
=============================================================================
