----------------------------- MODULE ThreadPool -----------------------------
(***************************************************************************)
(* The fixed-size thread pool of pthreads/pthreads10.c: the ring buffer    *)
(* and its monitor (RingMonitor), with a shutdown flag.                    *)
(*                                                                         *)
(* A step of the model is what a thread does between two points where      *)
(* another thread can act on what it sees: taking the mutex, testing the   *)
(* wait condition, going to sleep, and each half of the update of the ring *)
(* (slot and index, then count) are separate steps, so that everything     *)
(* the mutex is for can go wrong if the mutex is not used as it should.    *)
(***************************************************************************)
EXTENDS RingMonitor

VARIABLE shutdown

vars == <<pc, data, shutdown>>

(* "publish" and "release": owner of the mutex, between the two halves of  *)
(* the update of the ring.                                                 *)
WorkerPC == MonitorPC \cup {"unborn", "failed", "release", "run", "exited"}
CallerPC == MonitorPC \cup {"idle", "publish"}
MainPC == CallerPC \cup {"init", "closing", "join", "free", "freed", "crashed"}

-----------------------------------------------------------------------------
(* thread_pool_init. The result of pthread_create is not looked at, so a   *)
(* thread that could not be created is simply missing.                     *)

CreateWorker(w) ==
  /\ pc[Main] = "init"
  /\ \/ Go(w, "unborn", "lock")
     \/ Go(w, "unborn", "failed")
  /\ UNCHANGED <<data, shutdown>>

InitDone == /\ \A w \in Workers : pc[w] # "unborn"
            /\ Go(Main, "init", "idle")
            /\ UNCHANGED <<data, shutdown>>

-----------------------------------------------------------------------------
(* thread_pool_submit.                                                     *)

(* Nobody starts a call after thread_pool_destroy was entered; calls may   *)
(* be in progress at that time.                                            *)
SubmitCall(s, t) ==
  /\ pc[Main] \notin {"init", "closing", "join", "free", "freed"}
  /\ Call(s, t)
  /\ UNCHANGED shutdown

(* Mutant: submit does not look at the flag.                               *)
NeverRefused == FALSE

Refused == shutdown

SubmitStall(s) == /\ Full /\ ~Refused
                  /\ Stall(s)
                  /\ UNCHANGED shutdown

(* The pool is closing: the call returns and its task is lost.             *)
SubmitRefuse(s) ==
  /\ Refused
  /\ Go(s, "check", "idle")
  /\ mutex' = NoThread
  /\ fate' = [fate EXCEPT ![arg[s]] = "dropped"]
  /\ arg' = [arg EXCEPT ![s] = NoTask]
  /\ UNCHANGED <<ring, shutdown, spurious>>

SubmitStore(s) ==
  /\ ~Full /\ ~Refused
  /\ Go(s, "check", "publish")
  /\ slots' = [slots EXCEPT ![tail] = arg[s]]
  /\ tail' = Advance(tail)
  /\ UNCHANGED <<mutex, head, count, shutdown, arg, fate, spurious>>

(* count++, the signal and the unlock: a waiter it wakes needs the mutex,  *)
(* so nothing can happen between the signal and the unlock.                *)
SubmitPublish(s) ==
  /\ pc[s] = "publish"
  /\ count' = count + 1
  /\ pc' \in SignalNotEmpty([pc EXCEPT ![s] = "idle"])
  /\ mutex' = NoThread
  /\ fate' = [fate EXCEPT ![arg[s]] = "queued"]
  /\ arg' = [arg EXCEPT ![s] = NoTask]
  /\ UNCHANGED <<slots, head, tail, shutdown, spurious>>

-----------------------------------------------------------------------------
(* worker.                                                                 *)

WorkerStall(w) == /\ Empty /\ ~shutdown
                  /\ Stall(w)
                  /\ UNCHANGED shutdown

WorkerExit(w) == /\ shutdown
                 /\ Go(w, "check", "exited")
                 /\ mutex' = NoThread
                 /\ UNCHANGED <<ring, shutdown, arg, fate, spurious>>

WorkerFetch(w) ==
  /\ ~Empty /\ ~shutdown
  /\ Go(w, "check", "release")
  /\ arg' = [arg EXCEPT ![w] = slots[head]]
  /\ head' = Advance(head)
  /\ fate' = [fate EXCEPT ![slots[head]] = "running"]
  /\ UNCHANGED <<mutex, slots, tail, count, shutdown, spurious>>

WorkerRelease(w) ==
  /\ pc[w] = "release"
  /\ count' = count - 1
  /\ pc' \in SignalNotFull([pc EXCEPT ![w] = "run"])
  /\ mutex' = NoThread
  /\ UNCHANGED <<slots, head, tail, shutdown, arg, fate, spurious>>

WorkerRun(w) == Run(w) /\ UNCHANGED shutdown

-----------------------------------------------------------------------------
(* thread_pool_destroy.                                                    *)

DestroyCall == /\ Go(Main, "idle", "closing")
               /\ UNCHANGED <<data, shutdown>>

(* Lock, shutdown = 1, broadcast on not_empty only, unlock.                *)
DestroyAnnounce == /\ pc[Main] = "closing"
                   /\ MutexFree
                   /\ shutdown' = TRUE
                   /\ pc' = BroadcastNotEmpty([pc EXCEPT ![Main] = "join"])
                   /\ UNCHANGED data

(* Mutant: the workers are not waited for.                                 *)
NotWaitedFor == TRUE

WorkersEnded == \A w \in Workers : pc[w] \in {"exited", "failed"}

(* The joins. The handle of a worker that was not created was never        *)
(* written: joining it crashes, or fails and is ignored.                   *)
DestroyJoin == /\ WorkersEnded
               /\ \/ Go(Main, "join", "free")
                  \/ /\ \E w \in Workers : pc[w] = "failed"
                     /\ Go(Main, "join", "crashed")
               /\ UNCHANGED <<data, shutdown>>

(* free and the destroys. pthread_cond_destroy of glibc returns only when  *)
(* nobody waits on the condition variable any more.                        *)
DestroyFree == /\ Asleep(Callers) = {}
               /\ Go(Main, "free", "freed")
               /\ UNCHANGED <<data, shutdown>>

-----------------------------------------------------------------------------
Init == RingInit /\ shutdown = FALSE

Monitor(t) == (Acquire(t) \/ Park(t)) /\ UNCHANGED shutdown
Wakeup(t) == SpuriousWakeup(t) /\ UNCHANGED shutdown
Worker(w) == \/ CreateWorker(w)
             \/ WorkerStall(w) \/ WorkerExit(w) \/ WorkerFetch(w)
             \/ WorkerRelease(w) \/ WorkerRun(w)
Submit(s) == SubmitStall(s) \/ SubmitRefuse(s) \/ SubmitStore(s) \/ SubmitPublish(s)
Destroy == DestroyAnnounce \/ DestroyJoin \/ DestroyFree

(* The program has ended: the end of main ends every thread.               *)
Ended == pc[Main] \in {"freed", "crashed"}
Terminated == Ended /\ UNCHANGED vars

Next == \/ /\ pc[Main] # "crashed"
           /\ \/ \E t \in Threads : Monitor(t) \/ Wakeup(t)
              \/ \E w \in Workers : Worker(w)
              \/ \E s \in Callers : Submit(s) \/ \E t \in Tasks : SubmitCall(s, t)
              \/ InitDone \/ DestroyCall \/ Destroy
        \/ Terminated

(* Every thread that can take a step of the pool's code eventually does.   *)
(* Calls to submit and destroy are the client's choice.                    *)
Fairness == /\ \A t \in Threads : WF_vars(Monitor(t))
            /\ \A w \in Workers : WF_vars(Worker(w))
            /\ \A s \in Callers : WF_vars(Submit(s))
            /\ WF_vars(InitDone) /\ WF_vars(Destroy)

Spec == Init /\ [][Next]_vars
FairSpec == Spec /\ Fairness

-----------------------------------------------------------------------------
(* Properties.                                                             *)

(* Every variable keeps its type; in particular the count never leaves     *)
(* 0..capacity and the indices never leave the array.                      *)
TypeOK == PlacesOK(WorkerPC, CallerPC, MainPC) /\ RingOK /\ shutdown \in BOOLEAN

Inside(t) == pc[t] \in {"check", "park", "publish", "release"}
Publishing == \E s \in Callers : pc[s] = "publish"
Releasing == \E w \in Workers : pc[w] = "release"

(* The number of tasks in the ring whose slot is neither being filled nor  *)
(* already emptied.                                                        *)
Live == IF Releasing THEN count - 1 ELSE count

(* The strengthening that makes the type invariant inductive: a thread     *)
(* inside the monitor owns the mutex, and what it tested under the mutex   *)
(* still holds when it acts on it. In the code: lines 67-80 and 86-98 of   *)
(* pthreads10.c never run concurrently, and no count is updated from a     *)
(* stale test.                                                             *)
MonitorInv ==
  /\ \A t \in Threads : Inside(t) <=> mutex = t
  /\ \A s \in Callers : /\ pc[s] = "park" => Full /\ ~shutdown
                        /\ pc[s] = "publish" => ~Full /\ ~shutdown
  /\ \A w \in Workers : /\ pc[w] = "park" => count = 0 /\ ~shutdown
                        /\ pc[w] = "release" => count > 0 /\ ~shutdown
  /\ tail = (head + Live + IF Publishing THEN 1 ELSE 0) % Capacity

(* No task is lost, duplicated or invented (lines 75-78 and 94-96), as     *)
(* Conserved says in detail.                                               *)
TaskConservation == Conserved(Live)

(* No wakeup of a worker is lost, and before shutdown none of a caller. It *)
(* does not promise more: destroy wakes no caller (line 107), and one that *)
(* sleeps then sleeps forever.                                             *)
WakeupsKept == IF shutdown THEN WorkConserving ELSE NoLostWakeup

(* Once destroy is past its joins (lines 112-117), nobody touches the ring *)
(* that is freed, no worker takes the mutex, and nobody goes to sleep on a *)
(* condition variable. For the workers that is what the joins are for; a   *)
(* caller that comes late is stopped by the test of shutdown (line 71). It *)
(* has locked the mutex by then, destroyed or not: only the client can     *)
(* keep callers from being that late.                                      *)
Releasable == pc[Main] \in {"free", "freed"}
NoUseAfterFree ==
  [][Releasable => /\ UNCHANGED ring
                   /\ mutex' \notin Workers
                   /\ Asleep(Threads)' \subseteq Asleep(Threads)]_vars

(* The pool implements the bounded FIFO queue: a task enters at the        *)
(* increment of count and leaves when a worker copies it out of its slot.  *)
Queue == INSTANCE TaskQueue
           WITH waiting <- Contents(Live),
                running <- Held(Workers),
                done <- With("done"),
                closed <- shutdown,
                Bound <- Capacity,
                Servers <- Cardinality(Workers)
ImplementsQueue == Queue!Spec

(* Every queued task is eventually executed, unless the pool is shut down  *)
(* first or no worker could be created.                                    *)
TasksServed ==
  \A t \in Tasks :
    (fate[t] = "queued" /\ \E w \in Workers : pc[w] # "failed") ~>
      (fate[t] = "done" \/ shutdown)

(* A call to submit returns, unless the pool is shut down while it waits   *)
(* for room or no worker could be created.                                 *)
SubmitReturns ==
  \A s \in Callers :
    (pc[s] = "lock" /\ \E w \in Workers : pc[w] # "failed") ~>
      (pc[s] \in {"idle", "closing"} \/ shutdown)

(* A call to destroy returns (or the program dies joining a thread that    *)
(* was never created): all workers are woken, none goes back to sleep, and *)
(* the joins end. Only a caller that was asleep for room when shutdown was *)
(* set can keep destroy from returning, since nobody wakes it (line 107).  *)
DestroyReturns ==
  pc[Main] = "closing" ~> (Ended \/ (pc[Main] = "free" /\ Asleep(Callers) # {}))
=============================================================================
