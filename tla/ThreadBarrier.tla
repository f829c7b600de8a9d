---------------------------- MODULE ThreadBarrier ---------------------------
(***************************************************************************)
(* The barrier program of pthreads/pthreads2.c: NUM_THREADS threads, with  *)
(* the identifiers 0 .. NUM_THREADS - 1, meet once at a barrier. The       *)
(* barrier itself belongs to the C library; it is modelled as POSIX        *)
(* specifies it, and its destruction as glibc performs it.                 *)
(***************************************************************************)
EXTENDS Integers, FiniteSets

CONSTANT NumThreads   \* NUM_THREADS

ASSUME NumThreadsAssumption == NumThreads \in Nat \ {0}

Threads == 0 .. NumThreads - 1

VARIABLES pc,       \* where each thread is
          main,     \* where the main thread is
          created,  \* how many threads were created: the i of main's loop
          bar,      \* what pthread_barrier_wait returned to each thread
          special   \* the threads that performed the special action

vars == <<pc, main, created, bar, special>>

SerialThread == -1   \* PTHREAD_BARRIER_SERIAL_THREAD

(* Mutants: a barrier for one thread less, for one thread more.            *)
OneLess == NumThreads - 1
OneMore == NumThreads + 1

(* The number of threads the barrier is initialised with.                  *)
BarrierCount == NumThreads

At(l) == {t \in Threads : pc[t] = l}

(* Mutant: the loop that creates the threads makes one turn too many.      *)
OneTurnMore == created <= NumThreads

MoreThreads == created < NumThreads

(* pthread_barrier_init. If it fails, main returns at once.                *)
InitBarrier == /\ main = "start"
               /\ main' \in {"create", "ended"}
               /\ UNCHANGED <<pc, created, bar, special>>

(* main starts the next thread; if it cannot, it gives up at once.         *)
CreateThread ==
  /\ main = "create" /\ MoreThreads
  /\ \/ /\ pc' = [pc EXCEPT ![created] = "working"]
        /\ created' = created + 1
        /\ UNCHANGED main
     \/ /\ main' = "abort"
        /\ UNCHANGED <<pc, created>>
  /\ UNCHANGED <<bar, special>>

CreateDone == /\ main = "create" /\ created = NumThreads
              /\ main' = "join"
              /\ UNCHANGED <<pc, created, bar, special>>

(* pthread_barrier_wait: a thread that does not complete the number waits. *)
Wait(t) == /\ pc[t] = "working"
           /\ Cardinality(At("waiting")) + 1 < BarrierCount
           /\ pc' = [pc EXCEPT ![t] = "waiting"]
           /\ UNCHANGED <<main, created, bar, special>>

(* The thread that completes it releases all; one of them, no matter       *)
(* which, is told that it is the serial thread.                            *)
WaitLast(t) ==
  /\ pc[t] = "working"
  /\ Cardinality(At("waiting")) + 1 = BarrierCount
  /\ LET met == At("waiting") \cup {t}
     IN /\ pc' = [u \in Threads |-> IF u \in met THEN "released" ELSE pc[u]]
        /\ \E s \in met :
             bar' = [u \in Threads |-> IF u = s THEN SerialThread
                                       ELSE IF u \in met THEN 0 ELSE bar[u]]
  /\ UNCHANGED <<main, created, special>>

(* What follows the wait: an unexpected result ends the thread, otherwise  *)
(* the thread's own identifier, not the result, is compared with           *)
(* PTHREAD_BARRIER_SERIAL_THREAD.                                          *)
Finish(t) ==
  /\ pc[t] = "released"
  /\ pc' = [pc EXCEPT ![t] = "ended"]
  /\ special' = IF bar[t] \in {0, SerialThread} /\ t = SerialThread
                THEN special \cup {t} ELSE special
  /\ UNCHANGED <<main, created, bar>>

(* main joins all threads and destroys the barrier.                        *)
Join == /\ main = "join"
        /\ At("ended") = Threads
        /\ main' = "ended"
        /\ UNCHANGED <<pc, created, bar, special>>

(* pthread_barrier_destroy of glibc returns when nobody is inside.         *)
NobodyInside == At("waiting") = {}

(* main gives up: it destroys the barrier and returns, which ends the      *)
(* other threads.                                                          *)
GiveUp == /\ main = "abort"
          /\ NobodyInside
          /\ main' = "ended"
          /\ UNCHANGED <<pc, created, bar, special>>

Init == /\ pc = [t \in Threads |-> "unborn"]
        /\ main = "start"
        /\ created = 0
        /\ bar = [t \in Threads |-> 0]
        /\ special = {}

Thread(t) == Wait(t) \/ WaitLast(t) \/ Finish(t)
Main == InitBarrier \/ CreateThread \/ CreateDone \/ Join \/ GiveUp

Terminated == main = "ended" /\ UNCHANGED vars

Next == \/ /\ main # "ended"
           /\ \/ \E t \in Threads : Thread(t)
              \/ Main
        \/ Terminated

Fairness == /\ \A t \in Threads : WF_vars(Thread(t))
            /\ WF_vars(Main)

Spec == Init /\ [][Next]_vars
FairSpec == Spec /\ Fairness

-----------------------------------------------------------------------------
(* Properties.                                                             *)

(* Every variable keeps its type; main never creates more threads than the *)
(* arrays have room for.                                                   *)
TypeOK == /\ pc \in [Threads -> {"unborn", "working", "waiting", "released", "ended"}]
          /\ main \in {"start", "create", "join", "abort", "ended"}
          /\ created \in 0 .. NumThreads
          /\ bar \in [Threads -> {0, SerialThread}]
          /\ special \subseteq Threads

(* No thread starts its second phase before every thread has ended its     *)
(* first one (lines 29 and 75-76 of pthreads2.c). In particular no thread  *)
(* gets through the barrier when main could not create them all.           *)
Rendezvous ==
  At("released") \cup At("ended") # {} =>
    At("unborn") \cup At("working") \cup At("waiting") = {}

(* A failure to create a thread is the only thing that can keep the        *)
(* program from ending, and only when another thread is inside the barrier *)
(* already: main then waits in pthread_barrier_destroy for threads that    *)
(* wait for one that will never come (line 54).                            *)
EndsUnlessStuck ==
  <>(main = "ended" \/ (main = "abort" /\ At("waiting") # {}))

(* The comment of lines 18-19: the thread to which pthread_barrier_wait    *)
(* returned PTHREAD_BARRIER_SERIAL_THREAD performs a special action. In    *)
(* the code nobody does.                                                   *)
SerialThreadActs ==
  \A t \in Threads : (pc[t] = "ended" /\ bar[t] = SerialThread) => t \in special
=============================================================================
