----------------------------- MODULE DynamicPool ----------------------------
(***************************************************************************)
(* The growing thread pool of pthreads/pthreads6.c: the ring buffer and    *)
(* its monitor (RingMonitor), and a second mutex, pool_mutex, for the      *)
(* number of threads. A submission that fills the ring adds a worker.      *)
(*                                                                         *)
(* The ring is only ever touched by the owner of queue_mutex, and so is    *)
(* num_threads once thread_pool_init has returned; what the owner does     *)
(* between two tests of its wait condition is therefore one step, except   *)
(* that it may have to wait for pool_mutex.                                *)
(***************************************************************************)
EXTENDS RingMonitor

CONSTANT InitialThreads  \* initial_threads

MaxThreads == Cardinality(Workers)

ASSUME InitialAssumption == InitialThreads \in 0 .. MaxThreads

VARIABLES poolMutex,   \* the owner of pool_mutex
          numThreads,
          attempts     \* the i of the loop of thread_pool_init

pool == <<poolMutex, numThreads, attempts>>
vars == <<pc, data, pool>>

(* "resize": owner of queue_mutex, at the lock of pool_mutex; "add": at    *)
(* the lock in add_worker; "unlock": about to release everything.          *)
WorkerPC == MonitorPC \cup {"unborn", "run"}
CallerPC == MonitorPC \cup {"idle", "resize", "add", "unlock"}
MainPC == CallerPC \cup {"init", "closing", "join", "freed"}

Created == {w \in Workers : pc[w] # "unborn"}

-----------------------------------------------------------------------------
(* add_worker and thread_pool_init.                                        *)

(* Lock pool_mutex, create a worker or fail to, unlock. The lock of        *)
(* pool_mutex in add_worker does not succeed while any thread owns it, the *)
(* caller included: it is an ordinary, not a recursive, mutex.             *)
AddWorker(t) ==
  /\ pc[t] = "add"
  /\ poolMutex = NoThread
  /\ LET back == IF mutex = t THEN "unlock" ELSE "init"
     IN \/ \E w \in Workers \ Created :
             /\ pc' = [pc EXCEPT ![w] = "lock", ![t] = back]
             /\ numThreads' = numThreads + 1
        \/ /\ pc' = [pc EXCEPT ![t] = back]
           /\ UNCHANGED numThreads
  /\ UNCHANGED <<data, poolMutex, attempts>>

(* A worker that cannot be created is reported, and the loop goes on.      *)
InitAttempt == /\ attempts < InitialThreads
               /\ Go(Main, "init", "add")
               /\ attempts' = attempts + 1
               /\ UNCHANGED <<data, poolMutex, numThreads>>

InitDone == /\ attempts = InitialThreads
            /\ Go(Main, "init", "idle")
            /\ UNCHANGED <<data, pool>>

-----------------------------------------------------------------------------
(* thread_pool_submit.                                                     *)

(* thread_pool_init has returned and thread_pool_destroy was not entered.  *)
Open == /\ pc[Main] \notin {"init", "closing", "join"}
        /\ pc[Main] = "add" => mutex = Main

SubmitCall(s, t) == Open /\ Call(s, t) /\ UNCHANGED pool

SubmitStall(s) == Full /\ Stall(s) /\ UNCHANGED pool

(* Where the caller goes with the task in the ring.                        *)
AfterStore == IF count + 1 = Capacity /\ numThreads < MaxThreads
              THEN "resize" ELSE "unlock"

SubmitStore(s) ==
  /\ pc[s] = "check" /\ ~Full
  /\ pc' \in SignalNotEmpty([pc EXCEPT ![s] = AfterStore])
  /\ slots' = [slots EXCEPT ![tail] = arg[s]]
  /\ tail' = Advance(tail)
  /\ count' = count + 1
  /\ fate' = [fate EXCEPT ![arg[s]] = "queued"]
  /\ arg' = [arg EXCEPT ![s] = NoTask]
  /\ UNCHANGED <<mutex, pool, head, spurious>>

(* The second test of num_threads comes under both mutexes.                *)
SubmitResize(s) ==
  /\ poolMutex = NoThread
  /\ Go(s, "resize", IF numThreads < MaxThreads THEN "add" ELSE "unlock")
  /\ poolMutex' = s
  /\ UNCHANGED <<data, numThreads, attempts>>

SubmitUnlock(s) ==
  /\ Go(s, "unlock", "idle")
  /\ mutex' = NoThread
  /\ poolMutex' = IF poolMutex = s THEN NoThread ELSE poolMutex
  /\ UNCHANGED <<numThreads, attempts, ring, arg, fate, spurious>>

-----------------------------------------------------------------------------
(* worker: an infinite loop with no way out.                               *)

WorkerStall(w) == Empty /\ Stall(w) /\ UNCHANGED pool

WorkerFetch(w) ==
  /\ pc[w] = "check" /\ ~Empty
  /\ pc' \in SignalNotFull([pc EXCEPT ![w] = "run"])
  /\ arg' = [arg EXCEPT ![w] = slots[head]]
  /\ head' = Advance(head)
  /\ count' = count - 1
  /\ fate' = [fate EXCEPT ![slots[head]] = "running"]
  /\ mutex' = NoThread
  /\ UNCHANGED <<pool, slots, tail, spurious>>

WorkerRun(w) == Run(w) /\ UNCHANGED pool

-----------------------------------------------------------------------------
(* thread_pool_destroy.                                                    *)

DestroyCall == Go(Main, "idle", "closing") /\ UNCHANGED <<data, pool>>

(* Lock, broadcast on not_empty, unlock; nothing tells a worker to stop.   *)
DestroyAnnounce == /\ pc[Main] = "closing"
                   /\ MutexFree
                   /\ pc' = BroadcastNotEmpty([pc EXCEPT ![Main] = "join"])
                   /\ UNCHANGED <<data, pool>>

(* The joins and the releases. A join waits for the end of the worker,     *)
(* which has none, so destroy gets past the loop only if num_threads is 0. *)
DestroyJoin == /\ numThreads = 0
               /\ Asleep(Callers) = {}
               /\ Go(Main, "join", "freed")
               /\ UNCHANGED <<data, pool>>

-----------------------------------------------------------------------------
Init == /\ RingInit
        /\ poolMutex = NoThread
        /\ numThreads = 0 /\ attempts = 0

Monitor(t) == (Acquire(t) \/ Park(t)) /\ UNCHANGED pool
Wakeup(t) == SpuriousWakeup(t) /\ UNCHANGED pool
Worker(w) == WorkerStall(w) \/ WorkerFetch(w) \/ WorkerRun(w)
Submit(s) == \/ SubmitStall(s) \/ SubmitStore(s) \/ SubmitResize(s)
             \/ AddWorker(s) \/ SubmitUnlock(s)
Owner == InitAttempt \/ InitDone \/ DestroyAnnounce \/ DestroyJoin

Terminated == pc[Main] = "freed" /\ UNCHANGED vars

Next == \/ /\ pc[Main] # "freed"
           /\ \/ \E t \in Threads : Monitor(t) \/ Wakeup(t)
              \/ \E w \in Workers : Worker(w)
              \/ \E s \in Callers : Submit(s) \/ \E t \in Tasks : SubmitCall(s, t)
              \/ DestroyCall \/ Owner
        \/ Terminated

(* Every thread that can take a step of the pool's code eventually does.   *)
(* Calls to submit and destroy are the client's choice.                    *)
Fairness == /\ \A t \in Threads : WF_vars(Monitor(t))
            /\ \A w \in Workers : WF_vars(Worker(w))
            /\ \A s \in Callers : WF_vars(Submit(s))
            /\ WF_vars(Owner)

Spec == Init /\ [][Next]_vars
FairSpec == Spec /\ Fairness

-----------------------------------------------------------------------------
(* Properties.                                                             *)

(* Every variable keeps its type; in particular the count never leaves     *)
(* 0..capacity, the indices never leave the array and there are never more *)
(* than max_threads threads.                                               *)
TypeOK == /\ PlacesOK(WorkerPC, CallerPC, MainPC) /\ RingOK
          /\ poolMutex \in Callers \cup {NoThread}
          /\ numThreads \in 0 .. MaxThreads
          /\ attempts \in 0 .. InitialThreads

(* The locking discipline. Lines 90-107 and 150-157 of pthreads6.c never   *)
(* run concurrently, and what a thread tested under queue_mutex still      *)
(* holds when it acts on it; pool_mutex is only held inside queue_mutex,   *)
(* and a caller inside add_worker on behalf of a submission owns it        *)
(* already; num_threads counts the threads that exist.                     *)
MonitorInv ==
  /\ \A t \in Threads :
       /\ pc[t] \in {"check", "park", "resize", "unlock"} => mutex = t
       /\ mutex = t => pc[t] \in {"check", "park", "resize", "add", "unlock"}
       /\ poolMutex = t => mutex = t /\ pc[t] \in {"add", "unlock"}
       /\ pc[t] = "add" => IF mutex = t THEN poolMutex = t ELSE t = Main
  /\ \A s \in Callers : /\ pc[s] = "park" => Full
                        /\ pc[s] = "resize" => Full /\ numThreads < MaxThreads
  /\ \A w \in Workers : pc[w] = "park" => count = 0
  /\ tail = (head + count) % Capacity
  /\ numThreads = Cardinality(Created)

(* The pool implements the bounded FIFO queue; it is never closed, since   *)
(* destroy tells the workers nothing.                                      *)
Queue == INSTANCE TaskQueue
           WITH waiting <- Contents(count),
                running <- Held(Workers),
                done <- With("done"),
                closed <- FALSE,
                Bound <- Capacity,
                Servers <- MaxThreads
ImplementsQueue == Queue!Spec

(* A submission found the ring full below the maximum of threads and went  *)
(* on to add one: lines 100-105.                                           *)
Resizing == poolMutex # NoThread

(* As long as no submission tries to add a worker, every queued task is    *)
(* eventually executed if there is a worker at all.                        *)
TasksServed ==
  \A t \in Tasks :
    (fate[t] = "queued" /\ numThreads > 0) ~> (fate[t] = "done" \/ Resizing)

(* As long as no submission tries to add a worker, a call to submit        *)
(* returns if there is a worker at all.                                    *)
SubmitReturns ==
  \A s \in Callers :
    (pc[s] = "lock" /\ numThreads > 0) ~> (pc[s] \in {"idle", "closing"} \/ Resizing)

(* The comment of lines 85-87: when the ring is full and there are fewer   *)
(* threads than the maximum, submit tries to add a worker and unlocks the  *)
(* mutex of the queue. In the code the caller waits for pool_mutex in      *)
(* add_worker while it owns it.                                            *)
ResizeCompletes ==
  \A s \in Callers : pc[s] = "resize" ~> pc[s] = "idle"

(* The comment of lines 171-173: destroy waits until all threads end,      *)
(* releases the memory and destroys the mutexes and conditions. In the     *)
(* code no thread ever ends.                                               *)
DestroyReturns == pc[Main] = "closing" ~> pc[Main] = "freed"
=============================================================================
