------------------------------ MODULE MCOaWriter ----------------------------
(***************************************************************************)
(* OaWriter for TLC.                                                       *)
(***************************************************************************)
EXTENDS OaWriter, TLC
=============================================================================
