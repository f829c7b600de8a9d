---------------------------- MODULE MCDynamicPool ---------------------------
(* Instances of DynamicPool for TLC.                                       *)
EXTENDS DynamicPool, TLC

CONSTANTS w1, w2, w3, c1, c2, t1, t2, t3, t4
=============================================================================
