------------------------- MODULE MCRequalification --------------------------
(***************************************************************************)
(* Requalification for TLC: a panel of one task for each alias, one        *)
(* ordinary task, two recovery pairs and two post-reset shadows.           *)
(***************************************************************************)
EXTENDS Requalification, TLC

CONSTANTS inc, cand, s1, s2, o1, o2, r1, r2, r3, r4, p1, p2, canary, probe

MCOrder == <<inc, cand>>
MCPanel == inc :> <<s1>> @@ cand :> <<s2>>
MCPairs == <<<<r1, r2>>, <<r3, r4>>>>
MCShadows == <<p1, p2>>
=============================================================================
