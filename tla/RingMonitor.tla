----------------------------- MODULE RingMonitor ----------------------------
(***************************************************************************)
(* What the fixed pool of pthreads/pthreads10.c and the growing pool of    *)
(* pthreads/pthreads6.c have in common: a ring buffer of tasks behind one  *)
(* mutex (queue_mutex) and two condition variables (queue_not_empty,       *)
(* queue_not_full), the threads that use them, and what it means that no   *)
(* task and no wakeup is lost. The modules of the two pools extend it.     *)
(***************************************************************************)
EXTENDS Integers, FiniteSets

CONSTANTS Workers,      \* the threads the pool may have
          Callers,      \* the threads that call thread_pool_submit
          Main,         \* the caller that also creates and destroys the pool
          Tasks,        \* the allocated arguments, one per submission
          Capacity,     \* max_tasks
          MaxSpurious,  \* bound on the spurious wakeups of a behaviour
          NoTask,       \* the content of a slot or argument never written
          NoThread      \* the owner of a free mutex

Threads == Workers \cup Callers
Slots == 0 .. Capacity - 1

ASSUME ThreadsAssumption ==
  /\ IsFiniteSet(Workers) /\ IsFiniteSet(Callers)
  /\ Workers \cap Callers = {}
  /\ Main \in Callers
  /\ NoThread \notin Threads
ASSUME CapacityAssumption == Capacity \in Nat \ {0}
ASSUME TasksAssumption == NoTask \notin Tasks
ASSUME SpuriousAssumption == MaxSpurious \in Nat

VARIABLES pc,        \* where each thread is
          mutex,     \* the owner of queue_mutex
          slots,     \* tasks[0 .. capacity - 1]
          head,
          tail,
          count,
          arg,       \* a caller's argument, a worker's local task
          fate,      \* history: what became of each task
          spurious   \* how many spurious wakeups there were

ring == <<slots, head, tail, count>>
data == <<mutex, ring, arg, fate, spurious>>

(* "lock": at pthread_mutex_lock, or woken and reacquiring the mutex;      *)
(* "check": owner, about to test the wait condition; "park": owner, about  *)
(* to sleep. The pools add the places of their own.                        *)
MonitorPC == {"lock", "check", "park", "asleep"}
Fates == {"fresh", "passed", "queued", "running", "done", "dropped"}

Go(t, from, to) == /\ pc[t] = from
                   /\ pc' = [pc EXCEPT ![t] = to]

-----------------------------------------------------------------------------
(* The ring. Mutants: the capacity test is off by one; the count is not    *)
(* tested.                                                                 *)
FullLate == count = Capacity + 1
NeverEmpty == FALSE

Full == count = Capacity
Empty == count = 0
Advance(i) == (i + 1) % Capacity

-----------------------------------------------------------------------------
(* Condition variables. Workers only ever wait on queue_not_empty and      *)
(* callers only on queue_not_full, so the waiters of a condition variable  *)
(* are the sleepers of one of the two sets.                                *)

Asleep(S) == {t \in S : pc[t] = "asleep"}

(* Mutant: a signal that is not sent.                                      *)
SignalledNobody(p, S) == {p}

(* pthread_cond_signal wakes one waiter, if there is one; p is the program *)
(* counters after the signaller's own move.                                *)
Signalled(p, S) == IF Asleep(S) = {}
                   THEN {p}
                   ELSE {[p EXCEPT ![t] = "lock"] : t \in Asleep(S)}

(* Mutants: not_empty is signalled only when the ring was empty; never.    *)
SignalWhenEmpty(p) == IF count = 0 THEN Signalled(p, Workers) ELSE {p}
SignalNobody(p) == {p}

SignalNotEmpty(p) == Signalled(p, Workers)

(* Mutant: not_full is signalled only when the ring was full.              *)
SignalWhenFull(p) == IF count = Capacity THEN Signalled(p, Callers) ELSE {p}

SignalNotFull(p) == Signalled(p, Callers)

(* Mutant: destroy signals not_empty instead of broadcasting it.           *)
BroadcastToOne(p) == CHOOSE q \in Signalled(p, Workers) : TRUE

BroadcastNotEmpty(p) ==
  [t \in Threads |-> IF t \in Asleep(Workers) THEN "lock" ELSE p[t]]

-----------------------------------------------------------------------------
(* The mutex. Mutant: it is not waited for.                                *)
MutexIgnored == TRUE

MutexFree == mutex = NoThread

(* pthread_mutex_lock, and the reacquisition that ends pthread_cond_wait.  *)
Acquire(t) == /\ MutexFree
              /\ Go(t, "lock", "check")
              /\ mutex' = t
              /\ UNCHANGED <<ring, arg, fate, spurious>>

(* The wait condition holds.                                               *)
Stall(t) == /\ Go(t, "check", "park")
            /\ UNCHANGED data

(* pthread_cond_wait releases the mutex and sleeps in one step.            *)
Park(t) == /\ Go(t, "park", "asleep")
           /\ mutex' = NoThread
           /\ UNCHANGED <<ring, arg, fate, spurious>>

(* pthread_cond_wait may return although nobody signalled.                 *)
SpuriousWakeup(t) == /\ spurious < MaxSpurious
                     /\ Go(t, "asleep", "lock")
                     /\ spurious' = spurious + 1
                     /\ UNCHANGED <<mutex, ring, arg, fate>>

-----------------------------------------------------------------------------
(* A call to thread_pool_submit with a freshly allocated argument.         *)
Call(s, t) == /\ fate[t] = "fresh"
              /\ Go(s, "idle", "lock")
              /\ arg' = [arg EXCEPT ![s] = t]
              /\ fate' = [fate EXCEPT ![t] = "passed"]
              /\ UNCHANGED <<mutex, ring, spurious>>

(* task.function(task.argument) returns.                                   *)
Run(w) == /\ Go(w, "run", "lock")
          /\ fate' = [fate EXCEPT ![arg[w]] = "done"]
          /\ arg' = [arg EXCEPT ![w] = NoTask]
          /\ UNCHANGED <<mutex, ring, spurious>>

RingInit == /\ pc = [t \in Threads |-> IF t \in Workers THEN "unborn"
                                       ELSE IF t = Main THEN "init" ELSE "idle"]
            /\ mutex = NoThread
            /\ slots = [i \in Slots |-> NoTask]
            /\ head = 0 /\ tail = 0 /\ count = 0
            /\ arg = [t \in Threads |-> NoTask]
            /\ fate = [t \in Tasks |-> "fresh"]
            /\ spurious = 0

-----------------------------------------------------------------------------
(* Properties.                                                             *)

(* The types of the ring and of what the threads hold; W, C and M are the  *)
(* places of a worker, of a caller and of Main.                            *)
PlacesOK(W, C, M) == /\ pc \in [Threads -> W \cup M]
                     /\ \A w \in Workers : pc[w] \in W
                     /\ \A s \in Callers : pc[s] \in M
                     /\ \A s \in Callers \ {Main} : pc[s] \in C
RingOK == /\ mutex \in Threads \cup {NoThread}
          /\ slots \in [Slots -> Tasks \cup {NoTask}]
          /\ head \in Slots /\ tail \in Slots
          /\ count \in 0 .. Capacity
          /\ arg \in [Threads -> Tasks \cup {NoTask}]
          /\ fate \in [Tasks -> Fates]
          /\ spurious \in 0 .. MaxSpurious

(* The n tasks from the head of the ring on, oldest first.                 *)
Contents(n) == [i \in 1 .. n |-> slots[(head + i - 1) % Capacity]]

(* The threads of S that hold a task, and the tasks they hold.             *)
Holders(S) == {t \in S : arg[t] # NoTask}
Held(S) == {arg[t] : t \in Holders(S)}

With(f) == {t \in Tasks : fate[t] = f}

(* No task is lost, duplicated or invented, when n slots of the ring hold  *)
(* a task: the queued tasks are exactly the ones in the ring, each once;   *)
(* the running ones are exactly the ones workers hold, each held once; the *)
(* ones passed to a submit in progress are exactly the ones callers hold.  *)
Conserved(n) ==
  /\ {Contents(n)[i] : i \in 1 .. n} = With("queued")
  /\ Cardinality(With("queued")) = n
  /\ Held(Workers) = With("running")
  /\ Cardinality(With("running")) = Cardinality(Holders(Workers))
  /\ Held(Callers) = With("passed")
  /\ Cardinality(With("passed")) = Cardinality(Holders(Callers))

(* The threads of S that will test their wait condition before they sleep. *)
Coming(S) ==
  {t \in S : pc[t] \in {"lock", "check", "release", "publish"}}

(* No lost wakeup of the workers: while a worker sleeps, at least as many  *)
(* other workers are on their way to the ring as it has tasks. Every task  *)
(* needs its own signal: one per submission (line 79 of pthreads10.c, line *)
(* 97 of pthreads6.c), not one per transition from empty.                  *)
WorkConserving == Asleep(Workers) # {} => Cardinality(Coming(Workers)) >= count

(* No lost wakeup of the callers: while a caller sleeps, at least as many  *)
(* callers are on their way as the ring has free slots (the signal after   *)
(* every fetch, line 97 of pthreads10.c, line 156 of pthreads6.c).         *)
RoomAnnounced ==
  Asleep(Callers) # {} => Cardinality(Coming(Callers)) >= Capacity - count

NoLostWakeup == WorkConserving /\ RoomAnnounced
=============================================================================
