------------------------------ MODULE FourPrograms -----------------------------
(***************************************************************************)
(* ThreadPrograms with names of its own for what RateLimiter calls the     *)
(* same, so that one module can speak about both: Programs_proofs does,    *)
(* for they are all programs of one kind.                                  *)
(***************************************************************************)
VARIABLES program,
          place,    \* where the main thread is
          created,
          places,   \* where each thread is
          status,
          stale

Four == INSTANCE ThreadPrograms WITH main <- place, pc <- places

FourSpec == Four!Spec
FourFairSpec == Four!FairSpec

(* The types, and the threads that exist are the first ones of the arrays  *)
(* of handles.                                                             *)
FourTypeOK == Four!TypeOK

(* A queue, key or condition variable is only released when every thread   *)
(* that was created has ended (lines 107-119 of pthreads3.c, 74-79 of      *)
(* pthreads5.c).                                                           *)
ReleasedLast == Four!ReleasedLast

(* A program that returns 0 has run all its threads to their end, and none *)
(* of them read an argument in a frame main had left.                      *)
SuccessMeansDone == Four!SuccessMeansDone

(* The program ends, unless it waits for what was never initialised.       *)
ProgramEnds == Four!ProgramEnds
=============================================================================
