---------------------------- MODULE MCThreadPool ----------------------------
(* The instance of ThreadPool for TLC. Its members are not interchanged by *)
(* a symmetry, which liveness properties do not allow.                     *)
EXTENDS ThreadPool

CONSTANTS w1, w2, c1, c2, t1, t2, t3, t4
=============================================================================
