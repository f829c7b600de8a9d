----------------------------- MODULE TaskQueue ------------------------------
(***************************************************************************)
(* What both thread pools of the repository (pthreads/pthreads10.c and     *)
(* pthreads/pthreads6.c) promise the code that submits tasks to them,      *)
(* without threads, mutexes, condition variables or a ring buffer:         *)
(*                                                                         *)
(*   - a task that is accepted is started at most once, in the order of    *)
(*     acceptance, and never more than Bound tasks wait;                   *)
(*   - never more than Servers tasks run at a time;                        *)
(*   - once the pool is closed no task is accepted and none is started.    *)
(***************************************************************************)
EXTENDS Naturals, Sequences, FiniteSets

CONSTANTS Tasks,     \* the tasks a client may submit
          Bound,     \* how many accepted tasks may wait
          Servers    \* how many tasks may run at a time

VARIABLES waiting,   \* the accepted tasks that have not started, oldest first
          running,   \* the tasks being executed
          done,      \* the tasks whose execution has ended
          closed     \* no more tasks are accepted or started

vars == <<waiting, running, done, closed>>

Waiting == {waiting[i] : i \in DOMAIN waiting}

Init == /\ waiting = <<>>
        /\ running = {}
        /\ done = {}
        /\ closed = FALSE

(* Mutant: room is not waited for.                                         *)
Unbounded == TRUE

Room == Len(waiting) < Bound

Accept(t) == /\ ~closed
             /\ t \notin Waiting \cup running \cup done
             /\ Room
             /\ waiting' = Append(waiting, t)
             /\ UNCHANGED <<running, done, closed>>

Start == /\ ~closed
         /\ waiting # <<>>
         /\ Cardinality(running) < Servers
         /\ running' = running \cup {Head(waiting)}
         /\ waiting' = Tail(waiting)
         /\ UNCHANGED <<done, closed>>

Finish(t) == /\ t \in running
             /\ running' = running \ {t}
             /\ done' = done \cup {t}
             /\ UNCHANGED <<waiting, closed>>

Close == /\ closed' = TRUE
         /\ UNCHANGED <<waiting, running, done>>

Next == \/ \E t \in Tasks : Accept(t) \/ Finish(t)
        \/ Start
        \/ Close

Spec == Init /\ [][Next]_vars
=============================================================================
