---------------------------- MODULE ThreadPrograms ----------------------------
(***************************************************************************)
(* The programs pthreads3.c (blocking queue), pthreads5.c (thread-local    *)
(* storage), pthreads7.c (cancellation) and pthreads8.c (event) of         *)
(* pthreads/. Each main acquires a resource, creates threads one after the *)
(* other and joins them, with failures on the way.                         *)
(*                                                                         *)
(* What the threads are meant to do is missing in these files: many bodies *)
(* consist of a comment. They are modelled as the functions that return at *)
(* once, without a value, that they are.                                   *)
(***************************************************************************)
EXTENDS Integers, Sequences

Programs == {"queue", "tls", "cancel", "event"}

VARIABLES program,  \* which of the programs this is
          main,     \* where the main thread is
          created,  \* how many threads were created
          pc,       \* where each thread is
          status,   \* what main returns, as far as it is known
          stale     \* history: the threads that read an argument main had left

vars == <<program, main, created, pc, status, stale>>

-----------------------------------------------------------------------------
(* What may become of a thread that runs.                                  *)

(* bqueue_create is empty, so that a queue that is not NULL lies anywhere: *)
(* bqueue_enqueue faults, never gets the mutex or the room it waits for,   *)
(* or returns.                                                             *)
Enqueue == {"ended", "faulted", "blocked"}
ProducerThread == Enqueue

(* bqueue_dequeue is empty and returns any item, which is printed.         *)
Dequeue == {"ended"}
ConsumerThread == Dequeue

(* get_thread_local_data is empty and returns any pointer to a string,     *)
(* which is printed.                                                       *)
GetThreadLocalData == {"ended", "faulted"}
ThreadFunction == GetThreadLocalData

(* Empty.                                                                  *)
WorkerThread == {"ended"}
NotifierThread == {"ended"}
WaiterThread == {"ended"}

(* init_shared_state is empty too, so that the destruction of the event's  *)
(* condition variable may wait for threads that never were.                *)
StateUninitialised == TRUE

(* Mutant: the queue is destroyed without joining the producer.            *)
DestroyAtOnce == "release"

(* Where the main of the queue goes when it cannot create a thread: it     *)
(* joins the producer, if there is one, and destroys the queue.            *)
QueueCleansUp == "join"

(* The mains: the threads they create; whether the resource may be         *)
(* refused; where main goes when a thread cannot be created; whether it    *)
(* cancels the thread it created; whether the threads read an argument in  *)
(* main's frame; and whether it may wait forever to destroy a resource.    *)
QueueMain == [threads |-> <<ProducerThread, ConsumerThread>>, refused |-> TRUE,
              failing |-> QueueCleansUp, cancels |-> FALSE, lends |-> FALSE,
              hangs |-> FALSE]
TlsMain == [threads |-> <<ThreadFunction, ThreadFunction, ThreadFunction>>,
            refused |-> TRUE, failing |-> "returned", cancels |-> FALSE,
            lends |-> TRUE, hangs |-> FALSE]
CancelMain == [threads |-> <<WorkerThread>>, refused |-> TRUE,
               failing |-> "returned", cancels |-> TRUE, lends |-> FALSE,
               hangs |-> FALSE]
EventMain == [threads |-> <<NotifierThread, WaiterThread>>, refused |-> FALSE,
              failing |-> "returned", cancels |-> FALSE, lends |-> FALSE,
              hangs |-> StateUninitialised]

P == [queue |-> QueueMain, tls |-> TlsMain,
      cancel |-> CancelMain, event |-> EventMain][program]
Threads == DOMAIN P.threads
Created == {t \in Threads : t <= created}

-----------------------------------------------------------------------------
(* main.                                                                   *)

Fails(to) == main' = to /\ status' = 1

(* bqueue_create, pthread_key_create, init_shared_state.                   *)
Acquire == /\ main = "start"
           /\ \/ main' = "create" /\ UNCHANGED status
              \/ P.refused /\ Fails("returned")
           /\ UNCHANGED <<program, created, pc, stale>>

(* Mutant: the loop makes one turn too many.                               *)
OneTurnMore == created <= Len(P.threads)

MoreThreads == created < Len(P.threads)

CreateThread ==
  /\ main = "create" /\ MoreThreads
  /\ \/ /\ created' = created + 1
        /\ pc' = [pc EXCEPT ![created'] = "ready"]
        /\ UNCHANGED <<main, status>>
     \/ Fails(P.failing) /\ UNCHANGED <<created, pc>>
  /\ UNCHANGED <<program, stale>>

CreateDone == /\ main = "create" /\ created = Len(P.threads)
              /\ main' = IF P.cancels THEN "cancel" ELSE "join"
              /\ UNCHANGED <<program, created, pc, status, stale>>

(* pthread_cancel: an empty body has no point at which it could act. For a *)
(* thread that has ended, older C libraries report that there is none.     *)
Cancel == /\ main = "cancel"
          /\ \/ main' = "join" /\ UNCHANGED status
             \/ pc[1] = "ended" /\ Fails("returned")
          /\ UNCHANGED <<program, created, pc, stale>>

(* Mutants: no thread is joined; a thread that does not exist is, too.     *)
NobodyJoined == TRUE
EverybodyJoined == \A t \in Threads : pc[t] = "ended"

AllJoined == \A t \in Created : pc[t] = "ended"

Join == /\ main = "join"
        /\ AllJoined
        /\ main' = "release"
        /\ UNCHANGED <<program, created, pc, status, stale>>

(* bqueue_destroy, which is empty; pthread_key_delete; the mutex and the   *)
(* condition variable of the event.                                        *)
Release == /\ main = "release"
           /\ \/ main' = "returned"
              \/ P.hangs /\ main' = "hung"
           /\ UNCHANGED <<program, created, pc, status, stale>>

(* The end of the process, which ends all threads.                         *)
Exit == /\ main = "returned"
        /\ main' = "over"
        /\ UNCHANGED <<program, created, pc, status, stale>>

-----------------------------------------------------------------------------
(* A thread first reads its argument, then does what its body does.        *)

ReadArgument(t) ==
  /\ pc[t] = "ready"
  /\ pc' = [pc EXCEPT ![t] = "running"]
  /\ stale' = IF P.lends /\ main = "returned" THEN stale \cup {t} ELSE stale
  /\ UNCHANGED <<program, main, created, status>>

Body(t) == /\ pc[t] = "running"
           /\ \E outcome \in P.threads[t] :
                /\ pc' = [pc EXCEPT ![t] = outcome]
                /\ main' = IF outcome = "faulted" THEN "over" ELSE main
           /\ UNCHANGED <<program, created, status, stale>>

-----------------------------------------------------------------------------
Init == /\ program \in Programs
        /\ main = "start"
        /\ created = 0
        /\ pc = [t \in Threads |-> "unborn"]
        /\ status = 0
        /\ stale = {}

Main == \/ Acquire \/ CreateThread \/ CreateDone \/ Cancel
        \/ Join \/ Release \/ Exit
Thread(t) == ReadArgument(t) \/ Body(t)

Terminated == main = "over" /\ UNCHANGED vars

Next == \/ main # "over" /\ (Main \/ \E t \in Created : Thread(t))
        \/ Terminated

Fairness == WF_vars(Main) /\ \A t \in 1 .. 3 : WF_vars(t \in Created /\ Thread(t))

Spec == Init /\ [][Next]_vars
FairSpec == Spec /\ Fairness

-----------------------------------------------------------------------------
(* Properties.                                                             *)

(* Every variable keeps its type; the threads that exist are the first     *)
(* ones of the arrays.                                                     *)
TypeOK ==
  /\ program \in Programs
  /\ main \in {"start", "create", "cancel", "join", "release", "returned", "hung", "over"}
  /\ created \in 0 .. Len(P.threads)
  /\ pc \in [Threads -> {"unborn", "ready", "running", "ended", "faulted", "blocked"}]
  /\ \A t \in Threads : pc[t] = "unborn" <=> t \notin Created
  /\ status \in {0, 1}
  /\ stale \subseteq Created

(* A queue, key or condition variable is only released when every thread   *)
(* that was created has ended, also when a later one could not be created  *)
(* (lines 107-119 of pthreads3.c, 74-79 of pthreads5.c).                   *)
ReleasedLast == main \in {"release", "hung"} => \A t \in Created : pc[t] = "ended"

(* A program that reports success has run all its threads to their end,    *)
(* and none of them read an argument in a frame main had left. On the way  *)
(* that reports a failure, lines 68-71 of pthreads5.c, a thread can.       *)
SuccessMeansDone ==
  (main = "returned" /\ status = 0) =>
    stale = {} /\ \A t \in Threads : pc[t] = "ended"

(* The program ends, unless a producer never returns from a queue that was *)
(* never created, or main does not from destroying what was never          *)
(* initialised.                                                            *)
ProgramEnds ==
  <>(main \in {"over", "hung"} \/ (main = "join" /\ \E t \in Created : pc[t] = "blocked"))
=============================================================================
