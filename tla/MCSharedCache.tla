---------------------------- MODULE MCSharedCache ---------------------------
(* Instances of SharedCache for TLC.                                       *)
EXTENDS SharedCache, TLC

CONSTANTS r1, r2, w1, w2, k1, k2

(* Every writer adds k1, then k2, as writer_thread adds key_0, key_1, ...  *)
MCAddedKeys == <<k1, k2>>
=============================================================================
