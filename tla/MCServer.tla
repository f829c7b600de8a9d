------------------------------ MODULE MCServer ------------------------------
(* Instances of Server for TLC.                                            *)
EXTENDS Server, TLC

CONSTANTS c1, c2, c3, c4, c5
=============================================================================
