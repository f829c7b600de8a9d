----------------------------- MODULE RateLimiter ----------------------------
(***************************************************************************)
(* The rate limiter of pthreads/pthreads4.c: a heap-allocated counting     *)
(* semaphore that admits max_requests of the threads main creates. A       *)
(* failure to create a thread makes main destroy the limiter the other     *)
(* threads are using.                                                      *)
(***************************************************************************)
EXTENDS Integers, FiniteSets

CONSTANTS Threads,      \* the num_threads threads of main
          MaxRequests   \* max_requests

ASSUME ThreadsAssumption == IsFiniteSet(Threads)
ASSUME RequestsAssumption == MaxRequests \in Nat \ {0}

VARIABLES pc,       \* where each thread is
          main,     \* where the main thread is
          permits   \* the value of the semaphore

vars == <<pc, main, permits>>

At(l) == {t \in Threads : pc[t] = l}

(* After free the memory of the semaphore holds anything; more permits     *)
(* than threads make no difference.                                        *)
Garbage == 0 .. Cardinality(Threads)

(* rate_limiter_create. If it fails, main returns 1 before it does         *)
(* anything else.                                                          *)
CreateLimiter == /\ main = "start"
                 /\ \/ main' = "create" /\ permits' = MaxRequests
                    \/ main' = "failed" /\ UNCHANGED permits
                 /\ UNCHANGED pc

CreateThread(t) == /\ main = "create"
                   /\ pc[t] = "unborn"
                   /\ pc' = [pc EXCEPT ![t] = "acquire"]
                   /\ UNCHANGED <<main, permits>>

(* A thread cannot be created: the limiter is destroyed and freed, with    *)
(* main still to return from the program.                                  *)
CreateThreadFails == /\ main = "create"
                     /\ At("unborn") # {}
                     /\ main' = "abort"
                     /\ permits' \in Garbage
                     /\ UNCHANGED pc

CreateDone == /\ main = "create"
              /\ At("unborn") = {}
              /\ main' = "join"
              /\ UNCHANGED <<pc, permits>>

(* rate_limiter_acquire.                                                   *)
Acquire(t) == /\ permits > 0
              /\ pc[t] = "acquire"
              /\ permits' = permits - 1
              /\ pc' = [pc EXCEPT ![t] = "task"]
              /\ UNCHANGED main

(* Mutants: the permit is given back twice; it is not given back.          *)
TwoPermits == 2
NoPermit == 0

PermitsBack == 1

(* rate_limiter_release, after the task.                                   *)
Release(t) == /\ pc[t] = "task"
              /\ permits' = permits + PermitsBack
              /\ pc' = [pc EXCEPT ![t] = "ended"]
              /\ UNCHANGED main

(* Mutant: the threads are not joined.                                     *)
NotJoined == TRUE

AllEnded == At("ended") = Threads

(* The joins and rate_limiter_destroy.                                     *)
Join == /\ main = "join"
        /\ AllEnded
        /\ main' = "freed"
        /\ permits' \in Garbage
        /\ UNCHANGED pc

(* main returns, and the process with all its threads ends.                *)
Return == /\ \/ main = "freed" /\ main' = "ended"
             \/ main = "abort" /\ main' = "failed"
          /\ UNCHANGED <<pc, permits>>

Init == /\ pc = [t \in Threads |-> "unborn"]
        /\ main = "start"
        /\ permits = 0

Thread(t) == Acquire(t) \/ Release(t)
Main == CreateLimiter \/ CreateThreadFails \/ CreateDone \/ Join \/ Return

Over == main \in {"ended", "failed"}
Terminated == Over /\ UNCHANGED vars

Next == \/ /\ ~Over
           /\ \/ \E t \in Threads : Thread(t) \/ CreateThread(t)
              \/ Main
        \/ Terminated

(* Every thread keeps running: one that can take a permit eventually does, *)
(* since each of the others takes only one.                                *)
Fairness == /\ \A t \in Threads : WF_vars(Thread(t)) /\ WF_vars(CreateThread(t))
            /\ WF_vars(Main)

Spec == Init /\ [][Next]_vars
FairSpec == Spec /\ Fairness

-----------------------------------------------------------------------------
(* Properties.                                                             *)

Live == main \in {"create", "join"}

(* Every variable keeps its type; while the limiter exists there are never *)
(* more permits than max_requests.                                         *)
TypeOK == /\ pc \in [Threads -> {"unborn", "acquire", "task", "ended"}]
          /\ main \in {"start", "create", "join", "abort", "freed", "ended", "failed"}
          /\ permits \in Nat
          /\ Live => permits <= MaxRequests

(* While the limiter exists a permit is either free or held by one thread  *)
(* inside its task; so at most max_requests tasks run at a time (line 18   *)
(* of pthreads4.c).                                                        *)
PermitsConserved == Live => permits + Cardinality(At("task")) = MaxRequests

(* Every thread gets its turn and ends before the program does, and so     *)
(* before the limiter is freed (lines 99-104), unless main gives up: lines *)
(* 92-95 free it while other threads use it.                               *)
EveryThreadEnds ==
  \A t \in Threads :
    pc[t] = "acquire" ~> (pc[t] = "ended" \/ main \in {"abort", "failed"})
=============================================================================
