-------------------------- MODULE ThreadPool_proofs --------------------------
(* Proofs about ThreadPool, for any number of workers, callers and tasks   *)
(* and any capacity.                                                       *)
EXTENDS ThreadPool, RingMonitor_proofs

IInv == TypeOK /\ MonitorInv

LEMMA InitIInv == Init => IInv
  <1> SUFFICES ASSUME Init PROVE IInv
    OBVIOUS
  <1> USE ThreadsAssumption, CapacityAssumption, TasksAssumption, SpuriousAssumption
  <1>1. TypeOK
    <2>1. /\ pc \in [Threads -> WorkerPC \cup MainPC]
          /\ \A w \in Workers : pc[w] \in WorkerPC
          /\ \A s \in Callers : pc[s] \in MainPC
          /\ \A s \in Callers \ {Main} : pc[s] \in CallerPC
      BY DEF Init, RingInit, Threads, WorkerPC, MainPC, CallerPC
    <2>2. /\ mutex \in Threads \cup {NoThread}
          /\ slots \in [Slots -> Tasks \cup {NoTask}]
          /\ head \in Slots /\ tail \in Slots
          /\ count \in 0 .. Capacity
          /\ arg \in [Threads -> Tasks \cup {NoTask}]
      BY DEF Init, RingInit, Slots
    <2>3. /\ fate \in [Tasks -> Fates]
          /\ spurious \in 0 .. MaxSpurious
      BY DEF Init, RingInit, Fates
    <2>4. shutdown \in BOOLEAN
      BY DEF Init, RingInit
    <2> QED
      BY <2>1, <2>2, <2>3, <2>4 DEF TypeOK, PlacesOK, RingOK
  <1>2. ~Publishing /\ ~Releasing
    BY DEF Init, RingInit, Threads, Publishing, Releasing
  <1>3. tail = (head + Live + IF Publishing THEN 1 ELSE 0) % Capacity
    BY <1>2, ModOnce DEF Init, RingInit, Live
  <1>4. MonitorInv
    BY <1>3 DEF Init, RingInit, MonitorInv, Inside, Threads
  <1> QED
    BY <1>1, <1>4 DEF IInv

(* Every step keeps the types and the monitor's invariant: one step of the *)
(* proof per action of the pool.                                           *)
LEMMA NextIInv == IInv /\ [Next]_vars => IInv'
  <1> SUFFICES ASSUME IInv, [Next]_vars PROVE IInv'
    OBVIOUS
  <1> USE ThreadsAssumption, CapacityAssumption DEF IInv, Threads, PlacesOK, RingOK,
          WorkerPC, MainPC, CallerPC, MonitorPC, Go, ring, data
  <1>1. ASSUME NEW t \in Threads, Acquire(t), UNCHANGED shutdown PROVE IInv'
    <2>1. TypeOK'
      BY <1>1 DEF Acquire, MutexFree, TypeOK
    <2>2. MonitorInv'
      BY <1>1, <2>1 DEF Acquire, MutexFree, MonitorInv, TypeOK, Inside, Full, Refused, Empty, Live,
          Publishing, Releasing
    <2> QED
      BY <2>1, <2>2
  <1>2. ASSUME NEW t \in Threads, Park(t), UNCHANGED shutdown PROVE IInv'
    <2>1. TypeOK'
      BY <1>2 DEF Park, TypeOK
    <2>2. MonitorInv'
      BY <1>2, <2>1 DEF Park, MonitorInv, TypeOK, Inside, Full, Refused, Empty, Live,
          Publishing, Releasing
    <2> QED
      BY <2>1, <2>2
  <1>3. ASSUME NEW t \in Threads, Wakeup(t) PROVE IInv'
    <2>1. TypeOK'
      BY <1>3, SpuriousAssumption DEF Wakeup, SpuriousWakeup, TypeOK
    <2>2. MonitorInv'
      BY <1>3, <2>1 DEF Wakeup, SpuriousWakeup, MonitorInv, TypeOK, Inside, Full, Refused, Empty, Live,
          Publishing, Releasing
    <2> QED
      BY <2>1, <2>2
  <1>4. ASSUME NEW w \in Workers, CreateWorker(w) PROVE IInv'
    <2>1. TypeOK'
      BY <1>4 DEF CreateWorker, TypeOK
    <2>2. MonitorInv'
      BY <1>4, <2>1 DEF CreateWorker, MonitorInv, TypeOK, Inside, Full, Refused, Empty, Live,
          Publishing, Releasing
    <2> QED
      BY <2>1, <2>2
  <1>5. ASSUME NEW w \in Workers, WorkerStall(w) PROVE IInv'
    <2>1. TypeOK'
      BY <1>5 DEF WorkerStall, Stall, TypeOK
    <2>2. MonitorInv'
      BY <1>5, <2>1 DEF WorkerStall, Stall, MonitorInv, TypeOK, Inside, Full, Refused, Empty, Live,
          Publishing, Releasing
    <2> QED
      BY <2>1, <2>2
  <1>6. ASSUME NEW w \in Workers, WorkerExit(w) PROVE IInv'
    <2>1. TypeOK'
      BY <1>6 DEF WorkerExit, TypeOK
    <2>2. MonitorInv'
      BY <1>6, <2>1 DEF WorkerExit, MonitorInv, TypeOK, Inside, Full, Refused, Empty, Live,
          Publishing, Releasing
    <2> QED
      BY <2>1, <2>2
  <1>7. ASSUME NEW w \in Workers, WorkerFetch(w) PROVE IInv'
    <2> USE <1>7 DEF WorkerFetch
    <2>1. TypeOK'
      BY AdvanceInSlots DEF TypeOK, Slots, Fates
    <2>2. ~Publishing /\ ~Releasing /\ ~Publishing' /\ Releasing'
      BY DEF MonitorInv, TypeOK, Inside, Publishing, Releasing
    <2>3. (tail = (head + Live + IF Publishing THEN 1 ELSE 0) % Capacity)'
      <3>1. tail = (head + count) % Capacity /\ count \in 1 .. Capacity /\ head \in Slots
        BY <2>2 DEF MonitorInv, Live, TypeOK, RingOK, Empty
      <3>2. tail' = tail /\ head' = Advance(head) /\ Live' = count - 1
        BY <2>2 DEF Live
      <3>3. (Advance(head) + (count - 1)) % Capacity = (head + count) % Capacity
        BY <3>1, AdvanceAdd
      <3> QED
        BY <2>2, <3>1, <3>2, <3>3, AdvanceInSlots DEF Slots
    <2>4. MonitorInv'
      BY <2>1, <2>3 DEF MonitorInv, TypeOK, Inside, Full, Refused, Empty
    <2> QED
      BY <2>1, <2>4
  <1>8. ASSUME NEW w \in Workers, WorkerRelease(w) PROVE IInv'
    <2> USE <1>8 DEF WorkerRelease, SignalNotFull
    <2> DEFINE p == [pc EXCEPT ![w] = "run"]
    <2>3. pc' = p \/ \E t \in Callers : pc[t] = "asleep" /\ pc' = [p EXCEPT ![t] = "lock"]
      BY SignalledCases
    <2>4. count > 0
      BY DEF MonitorInv
    <2>1. TypeOK'
      BY <2>3, <2>4 DEF TypeOK
    <2>2. MonitorInv'
      BY SignalledCases, <2>1 DEF MonitorInv, TypeOK, Inside, Full, Refused, Empty, Live,
          Publishing, Releasing
    <2> QED
      BY <2>1, <2>2
  <1>9. ASSUME NEW w \in Workers, WorkerRun(w) PROVE IInv'
    <2>1. TypeOK'
      BY <1>9 DEF WorkerRun, Run, TypeOK, Fates
    <2>2. MonitorInv'
      BY <1>9, <2>1 DEF WorkerRun, Run, MonitorInv, TypeOK, Inside, Full, Refused, Empty, Live,
          Publishing, Releasing, Fates
    <2> QED
      BY <2>1, <2>2
  <1>10. ASSUME NEW s \in Callers, NEW t \in Tasks, SubmitCall(s, t) PROVE IInv'
    <2>1. TypeOK'
      BY <1>10 DEF SubmitCall, Call, TypeOK, Fates
    <2>2. MonitorInv'
      BY <1>10, <2>1 DEF SubmitCall, Call, MonitorInv, TypeOK, Inside, Full, Refused, Empty, Live,
          Publishing, Releasing, Fates
    <2> QED
      BY <2>1, <2>2
  <1>11. ASSUME NEW s \in Callers, SubmitStall(s) PROVE IInv'
    <2>1. TypeOK'
      BY <1>11 DEF SubmitStall, Stall, TypeOK
    <2>2. MonitorInv'
      BY <1>11, <2>1 DEF SubmitStall, Stall, MonitorInv, TypeOK, Inside, Full, Refused, Empty, Live,
          Publishing, Releasing
    <2> QED
      BY <2>1, <2>2
  <1>12. ASSUME NEW s \in Callers, SubmitRefuse(s) PROVE IInv'
    <2>1. TypeOK'
      BY <1>12 DEF SubmitRefuse, TypeOK, Fates
    <2>2. MonitorInv'
      BY <1>12, <2>1 DEF SubmitRefuse, MonitorInv, TypeOK, Inside, Full, Refused, Empty, Live,
          Publishing, Releasing, Fates
    <2> QED
      BY <2>1, <2>2
  <1>13. ASSUME NEW s \in Callers, SubmitStore(s) PROVE IInv'
    <2> USE <1>13 DEF SubmitStore
    <2>1. TypeOK'
      BY AdvanceInSlots DEF TypeOK, Slots
    <2>2. ~Publishing /\ ~Releasing /\ Publishing' /\ ~Releasing'
      BY DEF MonitorInv, TypeOK, Inside, Publishing, Releasing
    <2>3. (tail = (head + Live + IF Publishing THEN 1 ELSE 0) % Capacity)'
      <3>1. tail = (head + count) % Capacity /\ count \in 0 .. Capacity - 1 /\ head \in Slots
        BY <2>2 DEF MonitorInv, Live, TypeOK, Full
      <3>2. tail' = Advance(tail) /\ head' = head /\ Live' = count
        BY <2>2 DEF Live
      <3>3. Advance((head + count) % Capacity) = (head + (count + 1)) % Capacity
        BY <3>1, AddAdvance
      <3> QED
        BY <2>2, <3>1, <3>2, <3>3 DEF Slots
    <2>4. MonitorInv'
      BY <2>1, <2>3 DEF MonitorInv, TypeOK, Inside, Full, Refused, Empty
    <2> QED
      BY <2>1, <2>4
  <1>14. ASSUME NEW s \in Callers, SubmitPublish(s) PROVE IInv'
    <2> USE <1>14 DEF SubmitPublish, SignalNotEmpty
    <2> DEFINE p == [pc EXCEPT ![s] = "idle"]
    <2>3. pc' = p \/ \E t \in Workers : pc[t] = "asleep" /\ pc' = [p EXCEPT ![t] = "lock"]
      BY SignalledCases
    <2>4. count < Capacity
      BY DEF MonitorInv, TypeOK, Full
    <2>1. TypeOK'
      <3>1. /\ pc' \in [Threads -> WorkerPC \cup MainPC]
            /\ \A w \in Workers : pc'[w] \in WorkerPC
            /\ \A c \in Callers : pc'[c] \in MainPC
            /\ \A c \in Callers \ {Main} : pc'[c] \in CallerPC
        BY <2>3, ThreadsAssumption DEF TypeOK, Threads
      <3>2. /\ arg' \in [Threads -> Tasks \cup {NoTask}]
            /\ fate' \in [Tasks -> Fates]
        BY DEF TypeOK, Fates
      <3>3. count' \in 0 .. Capacity
        BY <2>4, CapacityAssumption DEF TypeOK
      <3>4. shutdown' \in BOOLEAN
        BY DEF TypeOK
      <3> QED
        BY <3>1, <3>2, <3>3, <3>4 DEF TypeOK
    <2>2. MonitorInv'
      BY SignalledCases, <2>1 DEF MonitorInv, TypeOK, Inside, Full, Refused, Empty, Live,
          Publishing, Releasing
    <2> QED
      BY <2>1, <2>2
  <1>15. ASSUME InitDone PROVE IInv'
    <2>1. TypeOK'
      BY <1>15 DEF InitDone, TypeOK
    <2>2. MonitorInv'
      BY <1>15, <2>1 DEF InitDone, MonitorInv, TypeOK, Inside, Full, Refused, Empty, Live,
          Publishing, Releasing
    <2> QED
      BY <2>1, <2>2
  <1>16. ASSUME DestroyCall PROVE IInv'
    <2>1. TypeOK'
      BY <1>16 DEF DestroyCall, TypeOK
    <2>2. MonitorInv'
      BY <1>16, <2>1 DEF DestroyCall, MonitorInv, TypeOK, Inside, Full, Refused, Empty, Live,
          Publishing, Releasing
    <2> QED
      BY <2>1, <2>2
  <1>17. ASSUME DestroyAnnounce PROVE IInv'
    <2>1. TypeOK'
      BY <1>17 DEF DestroyAnnounce, MutexFree, TypeOK, BroadcastNotEmpty, Asleep
    <2>2. MonitorInv'
      BY <1>17, <2>1 DEF DestroyAnnounce, MutexFree, MonitorInv, TypeOK, Inside, Full, Refused, Empty, Live,
          Publishing, Releasing, BroadcastNotEmpty, Asleep
    <2> QED
      BY <2>1, <2>2
  <1>18. ASSUME DestroyJoin PROVE IInv'
    <2>1. TypeOK'
      BY <1>18 DEF DestroyJoin, WorkersEnded, TypeOK
    <2>2. MonitorInv'
      BY <1>18, <2>1 DEF DestroyJoin, WorkersEnded, MonitorInv, TypeOK, Inside, Full, Refused, Empty, Live,
          Publishing, Releasing
    <2> QED
      BY <2>1, <2>2
  <1>19. ASSUME DestroyFree PROVE IInv'
    <2>1. TypeOK'
      BY <1>19 DEF DestroyFree, TypeOK
    <2>2. MonitorInv'
      BY <1>19, <2>1 DEF DestroyFree, MonitorInv, TypeOK, Inside, Full, Refused, Empty, Live,
          Publishing, Releasing
    <2> QED
      BY <2>1, <2>2
  <1>20. CASE UNCHANGED vars
    BY <1>20 DEF vars, TypeOK, MonitorInv, Inside, Full, Refused, Empty, Live, Publishing, Releasing
  <1> QED
    BY <1>1, <1>2, <1>3, <1>4, <1>5, <1>6, <1>7, <1>8, <1>9, <1>10, <1>11, <1>12, <1>13, <1>14, <1>15, <1>16, <1>17, <1>18, <1>19, <1>20 DEF Next, Monitor, Worker, Submit, Destroy, Terminated

(* The pool's variables keep their types, for every number of threads and  *)
(* every capacity: count stays within 0..capacity, the indices within the  *)
(* array (lines 75-78, 94-96).                                             *)
THEOREM TypeCorrect == Spec => []TypeOK
  <1>1. IInv => TypeOK
    BY DEF IInv
  <1> QED
    BY InitIInv, NextIInv, <1>1, PTL DEF Spec

(* The critical sections of submit, worker and destroy exclude each other, *)
(* and what a thread tested there still holds when it acts on it.          *)
THEOREM MonitorCorrect == Spec => []MonitorInv
  <1>1. IInv => MonitorInv
    BY DEF IInv
  <1> QED
    BY InitIInv, NextIInv, <1>1, PTL DEF Spec

(* Who is still about when destroy is past the announcement, and past the  *)
(* joins: no worker, and no caller that did not find shutdown set.         *)
Closed == pc[Main] \in {"join", "free", "freed"} => shutdown
WorkersGone == Releasable => \A w \in Workers : pc[w] \in {"exited", "failed"}

(* Where main may come from when it is past the announcement: a signal     *)
(* moves nobody there.                                                     *)
LEMMA NextMain ==
  ASSUME IInv, Next, pc'[Main] \in {"join", "free", "freed"}
  PROVE  \/ DestroyAnnounce /\ pc'[Main] = "join"
         \/ DestroyJoin /\ pc[Main] = "join"
         \/ DestroyFree /\ pc[Main] = "free"
         \/ pc'[Main] = pc[Main]
  <1> USE ThreadsAssumption DEF IInv, TypeOK, PlacesOK, RingOK, Threads, Go, ring
  <1>1. Main \in Threads /\ Main \notin Workers /\ DOMAIN pc = Threads
    OBVIOUS
  <1>2. ASSUME NEW t \in Threads, Monitor(t) \/ Wakeup(t)
        PROVE  pc'[Main] = pc[Main]
    BY <1>1, <1>2 DEF Monitor, Acquire, Park, Wakeup, SpuriousWakeup
  <1>3. ASSUME NEW v \in Workers, Worker(v)
        PROVE  pc'[Main] = pc[Main]
    <2>1. CASE WorkerRelease(v)
      <3> DEFINE p == [pc EXCEPT ![v] = "run"]
      <3>1. pc' \in Signalled(p, Callers)
        BY <2>1 DEF WorkerRelease, SignalNotFull
      <3>2. DOMAIN p = Threads /\ p[Main] = pc[Main]
        BY <1>1
      <3> HIDE DEF p
      <3>3. pc' = p \/ \E t \in Callers : pc' = [p EXCEPT ![t] = "lock"]
        BY ONLY <3>1, SignalledCases
      <3>4. pc'[Main] \in {p[Main], "lock"}
        BY <3>2, <3>3, <1>1
      <3> QED
        BY <3>2, <3>4
    <2>2. CASE CreateWorker(v) \/ WorkerStall(v) \/ WorkerExit(v) \/ WorkerFetch(v) \/ WorkerRun(v)
      BY <1>1, <2>2 DEF CreateWorker, Stall, Run, WorkerStall, WorkerExit, WorkerFetch, WorkerRun
    <2> QED
      BY <1>3, <2>1, <2>2 DEF Worker
  <1>4. ASSUME NEW s \in Callers, Submit(s)
        PROVE  pc'[Main] = pc[Main]
    <2>1. CASE SubmitPublish(s)
      <3> DEFINE p == [pc EXCEPT ![s] = "idle"]
      <3>1. pc' \in Signalled(p, Workers)
        BY <2>1 DEF SubmitPublish, SignalNotEmpty
      <3>2. DOMAIN p = Threads /\ p[Main] \in {"idle", pc[Main]}
        BY <1>1
      <3> HIDE DEF p
      <3>3. pc' = p \/ \E t \in Workers : pc' = [p EXCEPT ![t] = "lock"]
        BY ONLY <3>1, SignalledCases
      <3>4. pc'[Main] = p[Main]
        BY <3>2, <3>3, <1>1
      <3> QED
        BY <3>2, <3>4
    <2>2. CASE SubmitStall(s) \/ SubmitRefuse(s) \/ SubmitStore(s)
      BY <1>1, <2>2 DEF SubmitStall, Stall, SubmitRefuse, SubmitStore
    <2> QED
      BY <1>4, <2>1, <2>2 DEF Submit
  <1>5. ASSUME NEW s \in Callers, NEW t \in Tasks, SubmitCall(s, t)
        PROVE  pc'[Main] = pc[Main]
    BY <1>1, <1>5 DEF SubmitCall, Call
  <1>6. CASE InitDone \/ DestroyCall
    BY <1>1, <1>6 DEF InitDone, DestroyCall
  <1>7. CASE DestroyAnnounce
    BY <1>1, <1>7 DEF DestroyAnnounce, BroadcastNotEmpty, Asleep
  <1>8. CASE DestroyJoin \/ DestroyFree
    BY <1>1, <1>8 DEF DestroyJoin, DestroyFree
  <1>9. CASE Terminated
    BY <1>9 DEF Terminated, vars
  <1> QED
    BY <1>2, <1>3, <1>4, <1>5, <1>6, <1>7, <1>8, <1>9 DEF Next, Destroy

LEMMA NextClosed == IInv /\ Closed /\ [Next]_vars => Closed'
  <1> SUFFICES ASSUME IInv, Closed, [Next]_vars, pc'[Main] \in {"join", "free", "freed"}
               PROVE  shutdown'
    BY DEF Closed
  <1>1. CASE UNCHANGED vars
    BY <1>1 DEF vars, Closed
  <1>2. CASE DestroyAnnounce
    BY <1>2 DEF DestroyAnnounce
  <1>3. CASE Next /\ ~DestroyAnnounce
    <2>1. shutdown
      BY <1>3, NextMain DEF Closed
    <2>2. shutdown' = shutdown
      BY <1>3 DEF Next, Monitor, Wakeup, Worker, Submit, Destroy, CreateWorker, WorkerStall,
         WorkerExit, WorkerFetch, WorkerRelease, WorkerRun, SubmitStall, SubmitRefuse,
         SubmitStore, SubmitPublish, SubmitCall, InitDone, DestroyCall, DestroyJoin,
         DestroyFree, Terminated, vars
    <2> QED
      BY <2>1, <2>2
  <1> QED
    BY <1>1, <1>2, <1>3

(* A worker that has ended, or was never created, stays so once destroy is *)
(* past its joins.                                                         *)
LEMMA NextWorkersGone ==
  IInv /\ WorkersGone /\ [Next]_vars => WorkersGone'
  <1> SUFFICES ASSUME IInv, WorkersGone, [Next]_vars,
                      pc'[Main] \in {"free", "freed"},
                      NEW w \in Workers
               PROVE  pc'[w] \in {"exited", "failed"}
    BY DEF WorkersGone, Releasable
  <1> USE ThreadsAssumption DEF IInv, TypeOK, PlacesOK, RingOK, Threads, Go, ring
  <1>1. Main # w /\ Main \in Threads /\ w \in Threads
    OBVIOUS
  <1>2. CASE DestroyJoin
    BY <1>1, <1>2 DEF DestroyJoin, WorkersEnded
  <1>3. ASSUME pc[Main] \in {"free", "freed"}, Next
        PROVE  pc'[w] = pc[w]
    <2>0. pc[w] \in {"exited", "failed"}
      BY <1>3 DEF WorkersGone, Releasable
    <2>1. ASSUME NEW t \in Threads, Monitor(t) \/ Wakeup(t)
          PROVE  pc'[w] = pc[w]
      BY <2>0, <2>1 DEF Monitor, Acquire, Park, Wakeup, SpuriousWakeup
    <2>2. ASSUME NEW v \in Workers, Worker(v)
          PROVE  pc'[w] = pc[w]
      <3>1. CASE CreateWorker(v)
        BY <3>1, <1>3 DEF CreateWorker
      <3>2. CASE WorkerRelease(v)
        <4> DEFINE p == [pc EXCEPT ![v] = "run"]
        <4>1. pc' \in Signalled(p, Callers)
          BY <3>2 DEF WorkerRelease, SignalNotFull
        <4>2. pc[v] = "release"
          BY <3>2 DEF WorkerRelease
        <4>3. v # w
          BY <4>2, <2>0
        <4>4. DOMAIN p = Threads /\ p[w] = pc[w]
          BY <4>3, <1>1
        <4> HIDE DEF p
        <4>5. pc'[w] = p[w]
          BY ONLY <4>1, <4>4, <1>1, <2>0, SignalKeeps
        <4> QED
          BY <4>4, <4>5
      <3>3. CASE WorkerStall(v) \/ WorkerExit(v) \/ WorkerFetch(v) \/ WorkerRun(v)
        BY <3>3, <2>0 DEF WorkerStall, Stall, Run, WorkerExit, WorkerFetch, WorkerRun
      <3> QED
        BY <2>2, <3>1, <3>2, <3>3 DEF Worker
    <2>3. ASSUME NEW s \in Callers, Submit(s)
          PROVE  pc'[w] = pc[w]
      <3>1. CASE SubmitPublish(s)
        <4> DEFINE p == [pc EXCEPT ![s] = "idle"]
        <4>1. pc' \in Signalled(p, Workers)
          BY <3>1 DEF SubmitPublish, SignalNotEmpty
        <4>2. DOMAIN p = Threads /\ p[w] = pc[w]
          OBVIOUS
        <4> HIDE DEF p
        <4> QED
          BY <4>1, <4>2, <1>1, <2>0, SignalKeeps
      <3>2. CASE SubmitStall(s) \/ SubmitRefuse(s) \/ SubmitStore(s)
        BY <3>2, <2>0 DEF SubmitStall, Stall, SubmitRefuse, SubmitStore
      <3> QED
        BY <2>3, <3>1, <3>2 DEF Submit
    <2>4. ASSUME NEW s \in Callers, NEW t \in Tasks, SubmitCall(s, t)
          PROVE  pc'[w] = pc[w]
      BY <2>0, <2>4 DEF SubmitCall, Call
    <2>5. CASE InitDone \/ DestroyCall \/ DestroyAnnounce \/ DestroyJoin \/ DestroyFree
      BY <1>1, <1>3, <2>5 DEF InitDone, DestroyCall, DestroyAnnounce, DestroyJoin, DestroyFree
    <2> QED
      BY <1>3, <2>1, <2>2, <2>3, <2>4, <2>5 DEF Next, Destroy, Terminated, vars
  <1>4. CASE UNCHANGED vars
    BY <1>4 DEF vars, WorkersGone, Releasable
  <1>5. CASE Next /\ ~DestroyJoin /\ pc[Main] \notin {"free", "freed"}
    BY <1>5, NextMain
  <1> QED
    BY <1>2, <1>3, <1>4, <1>5 DEF WorkersGone, Releasable

(* What a step can do then: only a caller moves, it finds shutdown set     *)
(* when it has the mutex, and no caller was between its test and the       *)
(* update of the ring or its sleep, since MonitorInv says that those       *)
(* callers find shutdown unset.                                            *)
LEMMA ReleasedStep ==
  ASSUME IInv, Closed, WorkersGone, Next, Releasable
  PROVE  /\ UNCHANGED ring
         /\ mutex' \notin Workers
         /\ Asleep(Threads)' \subseteq Asleep(Threads)
  <1> USE ThreadsAssumption
  <1>1. /\ Main \in Threads /\ Main \notin Workers
        /\ pc[Main] \in {"free", "freed"} /\ shutdown
        /\ \A w \in Workers : pc[w] \in {"exited", "failed"}
    BY DEF Closed, WorkersGone, Releasable, Threads
  <1>2. /\ mutex \notin Workers
        /\ \A t \in Threads : pc[t] \notin {"park", "publish"}
    BY <1>1 DEF IInv, MonitorInv, Inside, Threads
  <1>3. DOMAIN pc = Threads /\ NoThread \notin Workers
    BY DEF IInv, TypeOK, PlacesOK, Threads
  <1> USE <1>1, <1>2, <1>3 DEF Go, ring, data, Asleep
  <1>4. ASSUME NEW t \in Threads, Monitor(t) \/ Wakeup(t)
        PROVE  /\ UNCHANGED ring /\ mutex' \notin Workers
               /\ Asleep(Threads)' \subseteq Asleep(Threads)
    BY <1>4 DEF Monitor, Acquire, Park, Wakeup, SpuriousWakeup
  <1>5. ASSUME NEW w \in Workers, Worker(w) PROVE FALSE
    BY <1>5 DEF Worker, CreateWorker, WorkerStall, Stall, WorkerExit, WorkerFetch,
                WorkerRelease, WorkerRun, Run
  <1>6. ASSUME NEW s \in Callers, Submit(s)
        PROVE  /\ UNCHANGED ring /\ mutex' \notin Workers
               /\ Asleep(Threads)' \subseteq Asleep(Threads)
    <2>1. s \in Threads
      BY DEF Threads
    <2>2. SubmitRefuse(s)
      BY <1>6, <2>1 DEF Submit, SubmitStall, SubmitStore, SubmitPublish, Refused
    <2> QED
      BY <2>1, <2>2 DEF SubmitRefuse
  <1>7. ASSUME NEW s \in Callers, NEW t \in Tasks, SubmitCall(s, t) PROVE FALSE
    BY <1>7 DEF SubmitCall
  <1>8. ASSUME InitDone \/ DestroyCall \/ Destroy
        PROVE  /\ UNCHANGED ring /\ mutex' \notin Workers
               /\ Asleep(Threads)' \subseteq Asleep(Threads)
    BY <1>8 DEF InitDone, DestroyCall, Destroy, DestroyAnnounce, DestroyJoin, DestroyFree
  <1>9. CASE Terminated
    BY <1>9 DEF Terminated, vars
  <1> QED
    BY <1>4, <1>5, <1>6, <1>7, <1>8, <1>9 DEF Next

(* When destroy frees the ring and destroys the mutex (lines 112-117) no   *)
(* thread touches the ring, no worker the mutex, and nobody goes to sleep  *)
(* any more, for every number of workers and of callers that are late.     *)
THEOREM SafeRelease == Spec => NoUseAfterFree
  <1>1. Init => Closed /\ WorkersGone
    BY ThreadsAssumption DEF Init, RingInit, Closed, WorkersGone, Releasable, Threads
  <1>2. IInv /\ Closed /\ WorkersGone /\ [Next]_vars =>
          [Releasable => /\ UNCHANGED ring
                        /\ mutex' \notin Workers
                        /\ Asleep(Threads)' \subseteq Asleep(Threads)]_vars
    BY ReleasedStep
  <1> QED
    BY InitIInv, NextIInv, <1>1, <1>2, NextClosed, NextWorkersGone, PTL
       DEF Spec, NoUseAfterFree

-----------------------------------------------------------------------------
(* A thread holds a task exactly while the code has one in hand, and the   *)
(* slot that a caller has filled but not yet counted holds its task.       *)
HoldInv ==
  /\ \A w \in Workers : arg[w] # NoTask <=> pc[w] \in {"release", "run"}
  /\ \A s \in Callers : arg[s] # NoTask <=> pc[s] \in MonitorPC \cup {"publish"}
  /\ \A s \in Callers : pc[s] = "publish" => slots[(head + count) % Capacity] = arg[s]

QInv == HoldInv /\ Placed(Contents(Live), arg, fate)

(* The ring holds Live tasks.                                              *)
LEMMA ContentsType ==
  ASSUME IInv
  PROVE  /\ Live \in 0 .. Capacity
         /\ Contents(Live) = Ring(slots, head, Live)
         /\ Contents(Live) \in Seq(Content) /\ Len(Contents(Live)) = Live
         /\ arg \in [Threads -> Content] /\ fate \in [Tasks -> Fates]
  <1>1. /\ slots \in [Slots -> Content] /\ head \in Slots /\ count \in 0 .. Capacity
        /\ arg \in [Threads -> Content] /\ fate \in [Tasks -> Fates]
    BY DEF IInv, TypeOK, RingOK, Content
  <1>2. Releasing => count > 0
    BY DEF IInv, MonitorInv, Releasing
  <1>3. Live \in 0 .. Capacity
    BY <1>1, <1>2, CapacityAssumption DEF Live
  <1>4. Contents(Live) = Ring(slots, head, Live)
    BY DEF Contents, Ring
  <1> QED
    BY <1>1, <1>3, <1>4, RingType

LEMMA SameContents ==
  ASSUME slots' = slots, head' = head, Live' = Live
  PROVE  Contents(Live)' = Contents(Live)
  BY DEF Contents

LEMMA InitQInv == Init => QInv
  <1> SUFFICES ASSUME Init PROVE QInv
    OBVIOUS
  <1>1. HoldInv
    BY ThreadsAssumption DEF Init, RingInit, HoldInv, Threads, MonitorPC
  <1>2. ~Releasing
    BY DEF Init, RingInit, Threads, Releasing
  <1>3. Len(Contents(Live)) = 0 /\ Contents(Live) \in Seq(Content)
    BY <1>2, InitIInv, ContentsType DEF Init, RingInit, Live
  <1>4. Placed(Contents(Live), arg, fate)
    BY <1>3, PlacedInit DEF Init, RingInit
  <1> QED
    BY <1>1, <1>4 DEF QInv

(* What a step of the pool does to its tasks: it rests, or it is one of    *)
(* the five moves. Tasks enter and begin only before shutdown.             *)
Move(q, r) ==
  \/ Rests(q, r) /\ (UNCHANGED shutdown \/ shutdown' = TRUE)
  \/ /\ UNCHANGED shutdown
     /\ \/ \E s \in Callers : (\E t \in Tasks : Passes(s, t, q, r)) \/ Drops(s, q, r)
        \/ \E w \in Workers : Ends(w, q, r)
  \/ /\ ~shutdown /\ UNCHANGED shutdown
     /\ \/ Len(q) < Capacity /\ \E s \in Callers : Enters(s, q, r)
        \/ \E w \in Workers : Begins(w, q, r)

LEMMA NextMove ==
  IInv /\ QInv /\ [Next]_vars => HoldInv' /\ Move(Contents(Live), Contents(Live)')
  <1> SUFFICES ASSUME IInv, QInv, [Next]_vars
               PROVE  HoldInv' /\ Move(Contents(Live), Contents(Live)')
    OBVIOUS
  <1> DEFINE Goal == HoldInv' /\ Move(Contents(Live), Contents(Live)')
             Rest == /\ HoldInv'
                     /\ Contents(Live)' = Contents(Live)
                     /\ UNCHANGED <<arg, fate, shutdown>>
  <1>0. Rest => Goal
    BY DEF Move, Rests
  <1>00. IInv'
    BY NextIInv
  <1> USE ThreadsAssumption, CapacityAssumption, TasksAssumption
      DEF IInv, TypeOK, QInv, Threads, PlacesOK, RingOK, WorkerPC, MainPC, CallerPC,
          MonitorPC, Go, ring, data
  <1>1. ASSUME NEW t \in Threads, Acquire(t), UNCHANGED shutdown PROVE Rest
    <2> USE <1>1 DEF Acquire, MutexFree
    <2>1. HoldInv'
      BY DEF HoldInv
    <2>2. Live' = Live
      BY DEF Live, Releasing
    <2> QED
      BY <2>1, <2>2, SameContents
  <1>2. ASSUME NEW t \in Threads, Park(t), UNCHANGED shutdown PROVE Rest
    <2> USE <1>2 DEF Park
    <2>1. HoldInv'
      BY DEF HoldInv
    <2>2. Live' = Live
      BY DEF Live, Releasing
    <2> QED
      BY <2>1, <2>2, SameContents
  <1>3. ASSUME NEW t \in Threads, Wakeup(t) PROVE Rest
    <2> USE <1>3 DEF Wakeup, SpuriousWakeup
    <2>1. HoldInv'
      BY DEF HoldInv
    <2>2. Live' = Live
      BY DEF Live, Releasing
    <2> QED
      BY <2>1, <2>2, SameContents
  <1>4. ASSUME NEW w \in Workers, CreateWorker(w) PROVE Rest
    <2> USE <1>4 DEF CreateWorker
    <2>1. HoldInv'
      BY DEF HoldInv
    <2>2. Live' = Live
      BY DEF Live, Releasing
    <2> QED
      BY <2>1, <2>2, SameContents
  <1>5. ASSUME NEW w \in Workers, WorkerStall(w) PROVE Rest
    <2> USE <1>5 DEF WorkerStall, Stall
    <2>1. HoldInv'
      BY DEF HoldInv
    <2>2. Live' = Live
      BY DEF Live, Releasing
    <2> QED
      BY <2>1, <2>2, SameContents
  <1>6. ASSUME NEW w \in Workers, WorkerExit(w) PROVE Rest
    <2> USE <1>6 DEF WorkerExit
    <2>1. HoldInv'
      BY DEF HoldInv
    <2>2. Live' = Live
      BY DEF Live, Releasing
    <2> QED
      BY <2>1, <2>2, SameContents
  <1>7. ASSUME NEW s \in Callers, SubmitStall(s) PROVE Rest
    <2> USE <1>7 DEF SubmitStall, Stall
    <2>1. HoldInv'
      BY DEF HoldInv
    <2>2. Live' = Live
      BY DEF Live, Releasing
    <2> QED
      BY <2>1, <2>2, SameContents
  <1>8. ASSUME InitDone PROVE Rest
    <2> USE <1>8 DEF InitDone
    <2>1. HoldInv'
      BY DEF HoldInv
    <2>2. Live' = Live
      BY DEF Live, Releasing
    <2> QED
      BY <2>1, <2>2, SameContents
  <1>9. ASSUME DestroyCall PROVE Rest
    <2> USE <1>9 DEF DestroyCall
    <2>1. HoldInv'
      BY DEF HoldInv
    <2>2. Live' = Live
      BY DEF Live, Releasing
    <2> QED
      BY <2>1, <2>2, SameContents
  <1>10. ASSUME DestroyJoin PROVE Rest
    <2> USE <1>10 DEF DestroyJoin
    <2>1. HoldInv'
      BY DEF HoldInv
    <2>2. Live' = Live
      BY DEF Live, Releasing
    <2> QED
      BY <2>1, <2>2, SameContents
  <1>11. ASSUME DestroyFree PROVE Rest
    <2> USE <1>11 DEF DestroyFree
    <2>1. HoldInv'
      BY DEF HoldInv
    <2>2. Live' = Live
      BY DEF Live, Releasing
    <2> QED
      BY <2>1, <2>2, SameContents
  <1>12. ASSUME UNCHANGED vars PROVE Rest
    <2> USE <1>12 DEF vars
    <2>1. HoldInv'
      BY DEF HoldInv
    <2>2. Live' = Live
      BY DEF Live, Releasing
    <2> QED
      BY <2>1, <2>2, SameContents
  <1>13. ASSUME DestroyAnnounce PROVE Goal
    <2> USE <1>13 DEF DestroyAnnounce, BroadcastNotEmpty, Asleep
    <2>1. HoldInv'
      BY DEF HoldInv
    <2>2. Live' = Live
      BY DEF Live, Releasing
    <2>3. Contents(Live)' = Contents(Live)
      BY <2>2, SameContents
    <2> QED
      BY <2>1, <2>3 DEF Move, Rests
  <1>14. ASSUME NEW s \in Callers, SubmitStore(s) PROVE Rest
    <2> USE <1>14 DEF SubmitStore
    <2>1. ~Publishing /\ ~Releasing /\ ~Releasing'
      BY DEF MonitorInv, Inside, Publishing, Releasing
    <2>2. Live = count /\ Live' = count /\ tail = (head + count) % Capacity
      BY <2>1 DEF Live, MonitorInv
    <2>3. count \in 0 .. Capacity - 1
      BY DEF Full
    <2>4. Contents(Live)' = Contents(Live)
      <3>1. slots' = [slots EXCEPT ![(head + count) % Capacity] = arg[s]] /\ head' = head
        BY <2>2
      <3>2. slots \in [Slots -> Content] /\ head \in Slots
        BY DEF Content
      <3>3. Ring([slots EXCEPT ![(head + count) % Capacity] = arg[s]], head, count)
              = Ring(slots, head, count)
        BY <2>3, <3>2, RingStore
      <3> QED
        BY <2>2, <3>1, <3>3 DEF Contents, Ring
    <2>5. HoldInv'
      BY <2>1, <2>2 DEF HoldInv, Publishing
    <2> QED
      BY <2>4, <2>5
  <1>15. ASSUME NEW w \in Workers, WorkerRelease(w) PROVE Rest
    <2> USE <1>15 DEF WorkerRelease, SignalNotFull
    <2> DEFINE p == [pc EXCEPT ![w] = "run"]
    <2>1. pc' = p \/ \E t \in Callers : pc[t] = "asleep" /\ pc' = [p EXCEPT ![t] = "lock"]
      BY SignalledCases
    <2>2. Releasing /\ ~Publishing
      BY DEF MonitorInv, Inside, Releasing, Publishing
    <2>3. ~Releasing'
      BY <2>1 DEF MonitorInv, Inside, Releasing
    <2>4. Live' = Live
      BY <2>2, <2>3 DEF Live
    <2>5. HoldInv'
      BY <2>1, <2>2 DEF HoldInv, Publishing
    <2> QED
      BY <2>4, <2>5, SameContents
  <1>16. ASSUME NEW s \in Callers, NEW t \in Tasks, SubmitCall(s, t) PROVE Goal
    <2> USE <1>16 DEF SubmitCall, Call
    <2>1. HoldInv'
      BY DEF HoldInv
    <2>2. Live' = Live
      BY DEF Live, Releasing
    <2>3. Passes(s, t, Contents(Live), Contents(Live)')
      BY <2>2, SameContents DEF Passes, HoldInv
    <2> QED
      BY <2>1, <2>3 DEF Move
  <1>17. ASSUME NEW s \in Callers, SubmitRefuse(s) PROVE Goal
    <2> USE <1>17 DEF SubmitRefuse
    <2>1. HoldInv'
      BY DEF HoldInv
    <2>2. Live' = Live
      BY DEF Live, Releasing
    <2>3. Drops(s, Contents(Live), Contents(Live)')
      BY <2>2, SameContents DEF Drops, HoldInv
    <2> QED
      BY <2>1, <2>3 DEF Move
  <1>18. ASSUME NEW s \in Callers, SubmitPublish(s) PROVE Goal
    <2> USE <1>18 DEF SubmitPublish, SignalNotEmpty
    <2> DEFINE p == [pc EXCEPT ![s] = "idle"]
    <2>1. pc' = p \/ \E t \in Workers : pc[t] = "asleep" /\ pc' = [p EXCEPT ![t] = "lock"]
      <3>1. pc' \in Signalled(p, Workers)
        OBVIOUS
      <3> HIDE DEF p
      <3> QED
        BY ONLY <3>1, SignalledCases
    <2>2. ~Releasing /\ ~Releasing'
      BY <2>1 DEF MonitorInv, Inside, Releasing
    <2>3. Live = count /\ Live' = count + 1 /\ count \in 0 .. Capacity - 1 /\ ~shutdown
      BY <2>2 DEF Live, MonitorInv, Full
    <2>4. arg[s] # NoTask /\ slots[(head + count) % Capacity] = arg[s]
      BY DEF HoldInv
    <2>5. Ring(slots, head, count + 1) = Append(Ring(slots, head, count), arg[s])
      BY <2>3, <2>4, RingAppend DEF Content
    <2>6. Contents(Live)' = Append(Contents(Live), arg[s])
      BY <2>3, <2>5 DEF Contents, Ring
    <2>7. Len(Contents(Live)) < Capacity
      BY <2>3, ContentsType
    <2>8. HoldInv'
      BY <2>1 DEF HoldInv, MonitorInv, Inside
    <2>9. Enters(s, Contents(Live), Contents(Live)')
      BY <2>4, <2>6 DEF Enters
    <2> QED
      BY <2>3, <2>7, <2>8, <2>9 DEF Move
  <1>19. ASSUME NEW w \in Workers, WorkerFetch(w) PROVE Goal
    <2> USE <1>19 DEF WorkerFetch
    <2>1. ~Releasing /\ Releasing' /\ ~Publishing
      BY DEF MonitorInv, Inside, Releasing, Publishing
    <2>2. Live = count /\ Live' = count - 1 /\ count \in 1 .. Capacity /\ ~shutdown
      BY <2>1 DEF Live, Empty
    <2>3. /\ Ring(slots, head, count) # <<>>
          /\ Head(Ring(slots, head, count)) = slots[head]
          /\ Ring(slots, Advance(head), count - 1) = Tail(Ring(slots, head, count))
      BY <2>2, RingTail DEF Content
    <2>4. /\ Contents(Live) # <<>> /\ Head(Contents(Live)) = slots[head]
          /\ Contents(Live)' = Tail(Contents(Live))
      BY <2>2, <2>3 DEF Contents, Ring
    <2>5. arg[w] = NoTask
      BY DEF HoldInv
    <2>6. slots[head] \in Tasks
      <3> HIDE <1>19 DEF WorkerFetch, HoldInv
      <3>1. /\ Contents(Live) \in Seq(Content)
            /\ arg \in [Threads -> Content] /\ fate \in [Tasks -> Fates]
        BY ContentsType
      <3>2. Placed(Contents(Live), arg, fate)
        OBVIOUS
      <3> QED
        BY <2>4, <2>5, <3>1, <3>2, PlacedStart
    <2>7. HoldInv'
      BY <2>1, <2>6 DEF HoldInv, Publishing
    <2>8. Begins(w, Contents(Live), Contents(Live)')
      BY <2>4, <2>5 DEF Begins
    <2> QED
      BY <2>2, <2>7, <2>8 DEF Move
  <1>20. ASSUME NEW w \in Workers, WorkerRun(w) PROVE Goal
    <2> USE <1>20 DEF WorkerRun, Run
    <2>1. HoldInv'
      BY DEF HoldInv
    <2>2. Live' = Live
      BY DEF Live, Releasing
    <2>3. Ends(w, Contents(Live), Contents(Live)')
      BY <2>2, SameContents DEF Ends, HoldInv
    <2> QED
      BY <2>1, <2>3 DEF Move
  <1> HIDE DEF Rest, Goal
  <1>21. Goal
    BY <1>0, <1>1, <1>2, <1>3, <1>4, <1>5, <1>6, <1>7, <1>8, <1>9, <1>10, <1>11, <1>12, <1>13,
       <1>14, <1>15, <1>16, <1>17, <1>18, <1>19, <1>20
       DEF Next, Monitor, Worker, Submit, Destroy, Terminated
  <1> QED
    BY <1>21 DEF Goal

LEMMA NextQInv == IInv /\ QInv /\ [Next]_vars => QInv'
  <1> SUFFICES ASSUME IInv, QInv, [Next]_vars PROVE QInv'
    OBVIOUS
  <1>1. HoldInv' /\ Move(Contents(Live), Contents(Live)')
    BY NextMove
  <1>2. Placed(Contents(Live)', arg', fate')
    BY <1>1, ContentsType, MovePlaced DEF QInv, Move
  <1> QED
    BY <1>1, <1>2 DEF QInv

(* No task is lost, duplicated or invented, for any number of workers,     *)
(* callers and tasks and any capacity: lines 67-80 and 86-98 of            *)
(* pthreads10.c keep each task in exactly one place.                       *)
THEOREM TasksConserved == Spec => []TaskConservation
  <1>1. IInv /\ QInv => TaskConservation
    <2> SUFFICES ASSUME IInv, QInv PROVE TaskConservation
      OBVIOUS
    <2>1. slots \in [Slots -> Content] /\ head \in Slots
      BY DEF IInv, TypeOK, RingOK, Content
    <2> QED
      BY <2>1, ContentsType, PlacedConserved DEF QInv, TaskConservation
  <1>2. Init => IInv /\ QInv
    BY InitIInv, InitQInv
  <1>3. IInv /\ QInv /\ [Next]_vars => (IInv /\ QInv)'
    BY NextIInv, NextQInv
  <1> QED
    BY <1>1, <1>2, <1>3, PTL DEF Spec

-----------------------------------------------------------------------------
(* The bounded queue counts as the pool does.                              *)
LEMMA SameCardinality == ASSUME NEW S PROVE Queue!Cardinality(S) = Cardinality(S)
  BY DEF Queue!Cardinality, Cardinality

LEMMA InitQueue == Init => Queue!Init
  <1> SUFFICES ASSUME Init PROVE Queue!Init
    OBVIOUS
  <1>1. ~Releasing
    BY DEF Init, RingInit, Threads, Releasing
  <1>2. Len(Contents(Live)) = 0 /\ Contents(Live) \in Seq(Content)
    BY <1>1, InitIInv, ContentsType DEF Init, RingInit, Live
  <1>3. Contents(Live) = <<>>
    BY <1>2, EmptySeq
  <1>4. Held(Workers) = {} /\ With("done") = {}
    BY DEF Init, RingInit, Held, Holders, With, Threads
  <1> QED
    BY <1>3, <1>4 DEF Queue!Init, Init

(* Every step of the pool is a step of the bounded queue, or none.         *)
LEMMA NextQueue == IInv /\ QInv /\ [Next]_vars => [Queue!Next]_Queue!vars
  <1> SUFFICES ASSUME IInv, QInv, [Next]_vars PROVE [Queue!Next]_Queue!vars
    OBVIOUS
  <1> DEFINE q == Contents(Live)
             r == Contents(Live)'
  <1>1. Move(q, r)
    BY NextMove
  <1>2. /\ q \in Seq(Content)
        /\ arg \in [Threads -> Content] /\ fate \in [Tasks -> Fates]
        /\ Placed(q, arg, fate)
    BY ContentsType DEF QInv
  <1>3. Held(Workers) = With("running")
    BY <1>2, PlacedHeld
  <1>4. Held(Workers)' = With("running")'
    <2>1. Placed(Contents(Live), arg, fate)'
      BY NextQInv DEF QInv
    <2>2. Placed(r, arg', fate')
      BY <2>1
    <2> HIDE DEF r
    <2> QED
      BY <2>2 DEF Placed, Exact, Held, Holders, Holding, With
  <1>5. ASSUME r = q, With("running")' = With("running"), With("done")' = With("done")
        PROVE  UNCHANGED <<Contents(Live), Held(Workers), With("done")>>
    BY <1>3, <1>4, <1>5
  <1> HIDE DEF q, r
  <1>6. CASE Rests(q, r) /\ (UNCHANGED shutdown \/ shutdown' = TRUE)
    <2>1. UNCHANGED <<Contents(Live), Held(Workers), With("done")>>
      BY <1>2, <1>5, <1>6, MoveOthers
    <2> QED
      BY <1>6, <2>1 DEF Queue!Next, Queue!Close, Queue!vars
  <1>7. ASSUME UNCHANGED shutdown,
               \E s \in Callers : (\E t \in Tasks : Passes(s, t, q, r)) \/ Drops(s, q, r)
        PROVE  UNCHANGED Queue!vars
    <2>1. UNCHANGED <<Contents(Live), Held(Workers), With("done")>>
      BY <1>2, <1>5, <1>7, MoveOthers
    <2> QED
      BY <1>7, <2>1 DEF Queue!vars
  <1>8. ASSUME UNCHANGED shutdown, NEW w \in Workers, Ends(w, q, r)
        PROVE  Queue!Next
    <2>1. /\ arg[w] \in Tasks /\ arg[w] \in With("running")
          /\ With("running")' = With("running") \ {arg[w]}
          /\ With("done")' = With("done") \cup {arg[w]}
      BY <1>2, <1>8, MoveEnds
    <2>2. Contents(Live)' = Contents(Live)
      BY <1>8 DEF Ends, q, r
    <2>3. Queue!Finish(arg[w])
      BY <1>3, <1>4, <1>8, <2>1, <2>2 DEF Queue!Finish
    <2> QED
      BY <2>1, <2>3 DEF Queue!Next
  <1>9. ASSUME ~shutdown, UNCHANGED shutdown, Len(q) < Capacity,
               NEW s \in Callers, Enters(s, q, r)
        PROVE  Queue!Next
    <2>1. /\ arg[s] \in Tasks
          /\ \A i \in DOMAIN q : q[i] # arg[s]
          /\ arg[s] \notin With("running") \cup With("done")
          /\ With("running")' = With("running") /\ With("done")' = With("done")
      BY <1>2, <1>9, MoveEnters
    <2>2. Contents(Live)' = Append(Contents(Live), arg[s])
      BY <1>9 DEF Enters, q, r
    <2>3. arg[s] \notin Queue!Waiting \cup Held(Workers) \cup With("done")
      BY <1>3, <2>1 DEF Queue!Waiting, q
    <2>4. Queue!Room
      BY <1>9 DEF Queue!Room, q
    <2>5. Queue!Accept(arg[s])
      BY <1>3, <1>4, <1>9, <2>1, <2>2, <2>3, <2>4 DEF Queue!Accept
    <2> QED
      BY <2>1, <2>5 DEF Queue!Next
  <1>10. ASSUME ~shutdown, UNCHANGED shutdown, NEW w \in Workers, Begins(w, q, r)
         PROVE  Queue!Next
    <2>1. /\ Cardinality(With("running")) < Cardinality(Workers)
          /\ With("running")' = With("running") \cup {Head(q)}
          /\ With("done")' = With("done")
      BY <1>2, <1>10, MoveBegins
    <2>2. Contents(Live) # <<>> /\ Contents(Live)' = Tail(Contents(Live))
      BY <1>10 DEF Begins, q, r
    <2>3. Queue!Cardinality(Held(Workers)) < Cardinality(Workers)
      BY <1>3, <2>1, SameCardinality
    <2>4. Held(Workers)' = Held(Workers) \cup {Head(Contents(Live))}
      BY <1>3, <1>4, <2>1 DEF q
    <2>5. Queue!Start
      BY <1>10, <2>1, <2>2, <2>3, <2>4 DEF Queue!Start
    <2> QED
      BY <2>5 DEF Queue!Next
  <1> QED
    BY <1>1, <1>6, <1>7, <1>8, <1>9, <1>10 DEF Move

(* The pool implements the bounded FIFO queue, for any number of workers,  *)
(* callers and tasks and any capacity: tasks start at most once, in the    *)
(* order of the increments of count, at most capacity of them wait and at  *)
(* most as many run as there are workers, and none starts after shutdown.  *)
THEOREM Implements == Spec => ImplementsQueue
  <1>1. Init => IInv /\ QInv
    BY InitIInv, InitQInv
  <1>2. IInv /\ QInv /\ [Next]_vars => (IInv /\ QInv)'
    BY NextIInv, NextQInv
  <1> QED
    BY <1>1, <1>2, InitQueue, NextQueue, PTL DEF Spec, ImplementsQueue, Queue!Spec

-----------------------------------------------------------------------------
(* Wakeups. A closed pool has no sleeping worker, and none goes back to    *)
(* sleep; until then both condition variables are served.                  *)
WakeInv == /\ WorkConserving
           /\ ~shutdown => RoomAnnounced
           /\ shutdown => Asleep(Workers) = {}

LEMMA InitWakeInv == Init => WakeInv
  BY DEF Init, RingInit, WakeInv, WorkConserving, RoomAnnounced, Asleep, Threads

(* A step that puts nobody to sleep, takes nobody off the way to the ring  *)
(* and leaves the count alone.                                             *)
LEMMA WakeCalm ==
  ASSUME IInv, WakeInv, Calm(Workers), ~shutdown => Calm(Callers),
         UNCHANGED <<count, shutdown>>
  PROVE  WakeInv'
  <1> USE ThreadsAssumption, CapacityAssumption
  <1>1. count \in Int /\ Capacity - count \in Int
    BY DEF IInv, TypeOK, RingOK
  <1>2. WorkConserving'
    BY <1>1, ServedCalm DEF WakeInv, WorkConserving, Served
  <1>3. ~shutdown' => RoomAnnounced'
    BY <1>1, ServedCalm DEF WakeInv, RoomAnnounced, Served
  <1>4. shutdown' => Asleep(Workers)' = {}
    BY DEF WakeInv, Calm
  <1> QED
    BY <1>2, <1>3, <1>4 DEF WakeInv

(* A worker finds the ring empty.                                          *)
LEMMA WakeEmpty ==
  ASSUME IInv, WakeInv, count = 0, ~shutdown, Calm(Callers),
         UNCHANGED <<count, shutdown>>
  PROVE  WakeInv'
  <1> USE ThreadsAssumption, CapacityAssumption
  <1>1. Capacity - count \in Int /\ count' = 0
    BY DEF IInv, TypeOK, RingOK
  <1>2. WorkConserving'
    BY <1>1, ServedNobody DEF WorkConserving, Served
  <1>3. RoomAnnounced'
    BY <1>1, ServedCalm DEF WakeInv, RoomAnnounced, Served
  <1> QED
    BY <1>2, <1>3 DEF WakeInv

(* A caller finds it full.                                                 *)
LEMMA WakeFull ==
  ASSUME IInv, WakeInv, Full, ~shutdown, Calm(Workers),
         UNCHANGED <<count, shutdown>>
  PROVE  WakeInv'
  <1> USE ThreadsAssumption, CapacityAssumption
  <1>1. count \in Int /\ Capacity - count' = 0
    BY DEF IInv, TypeOK, RingOK, Full
  <1>2. WorkConserving'
    BY <1>1, ServedCalm DEF WakeInv, WorkConserving, Served
  <1>3. RoomAnnounced'
    BY <1>1, ServedNobody DEF RoomAnnounced, Served
  <1> QED
    BY <1>2, <1>3 DEF WakeInv

LEMMA NextWakeInv == IInv /\ WakeInv /\ [Next]_vars => WakeInv'
  <1> SUFFICES ASSUME IInv, WakeInv, [Next]_vars PROVE WakeInv'
    OBVIOUS
  <1> USE ThreadsAssumption, CapacityAssumption
      DEF IInv, TypeOK, Threads, PlacesOK, RingOK, WorkerPC, MainPC, CallerPC,
          MonitorPC, Go, ring, data
  <1>0. IInv'
    BY NextIInv
  <1>1. ASSUME NEW t \in Threads, Acquire(t), UNCHANGED shutdown PROVE WakeInv'
    <2>1. Calm(Workers) /\ (~shutdown => Calm(Callers)) /\ UNCHANGED <<count, shutdown>>
      BY <1>1 DEF Acquire, Calm, Asleep, Coming
    <2> QED
      BY <2>1, WakeCalm
  <1>2. ASSUME NEW t \in Threads, Wakeup(t) PROVE WakeInv'
    <2>1. Calm(Workers) /\ (~shutdown => Calm(Callers)) /\ UNCHANGED <<count, shutdown>>
      BY <1>2 DEF Wakeup, SpuriousWakeup, Calm, Asleep, Coming
    <2> QED
      BY <2>1, WakeCalm
  <1>3. ASSUME NEW w \in Workers, CreateWorker(w) PROVE WakeInv'
    <2>1. Calm(Workers) /\ (~shutdown => Calm(Callers)) /\ UNCHANGED <<count, shutdown>>
      BY <1>3 DEF CreateWorker, Calm, Asleep, Coming
    <2> QED
      BY <2>1, WakeCalm
  <1>4. ASSUME NEW w \in Workers, WorkerFetch(w) PROVE WakeInv'
    <2>1. Calm(Workers) /\ (~shutdown => Calm(Callers)) /\ UNCHANGED <<count, shutdown>>
      BY <1>4 DEF WorkerFetch, Calm, Asleep, Coming
    <2> QED
      BY <2>1, WakeCalm
  <1>5. ASSUME NEW w \in Workers, WorkerRun(w) PROVE WakeInv'
    <2>1. Calm(Workers) /\ (~shutdown => Calm(Callers)) /\ UNCHANGED <<count, shutdown>>
      BY <1>5 DEF WorkerRun, Run, Calm, Asleep, Coming
    <2> QED
      BY <2>1, WakeCalm
  <1>6. ASSUME NEW s \in Callers, NEW t \in Tasks, SubmitCall(s, t) PROVE WakeInv'
    <2>1. Calm(Workers) /\ (~shutdown => Calm(Callers)) /\ UNCHANGED <<count, shutdown>>
      BY <1>6 DEF SubmitCall, Call, Calm, Asleep, Coming
    <2> QED
      BY <2>1, WakeCalm
  <1>7. ASSUME NEW s \in Callers, SubmitRefuse(s) PROVE WakeInv'
    <2>1. Calm(Workers) /\ (~shutdown => Calm(Callers)) /\ UNCHANGED <<count, shutdown>>
      BY <1>7 DEF SubmitRefuse, Refused, Calm, Asleep, Coming
    <2> QED
      BY <2>1, WakeCalm
  <1>8. ASSUME NEW s \in Callers, SubmitStore(s) PROVE WakeInv'
    <2>1. Calm(Workers) /\ (~shutdown => Calm(Callers)) /\ UNCHANGED <<count, shutdown>>
      BY <1>8 DEF SubmitStore, Calm, Asleep, Coming
    <2> QED
      BY <2>1, WakeCalm
  <1>9. ASSUME InitDone \/ DestroyCall \/ DestroyJoin \/ DestroyFree PROVE WakeInv'
    <2>1. Calm(Workers) /\ (~shutdown => Calm(Callers)) /\ UNCHANGED <<count, shutdown>>
      BY <1>9 DEF InitDone, DestroyCall, DestroyJoin, DestroyFree, Calm, Asleep, Coming
    <2> QED
      BY <2>1, WakeCalm
  <1>10. ASSUME UNCHANGED vars PROVE WakeInv'
    <2>1. Calm(Workers) /\ (~shutdown => Calm(Callers)) /\ UNCHANGED <<count, shutdown>>
      BY <1>10 DEF vars, Calm, Asleep, Coming
    <2> QED
      BY <2>1, WakeCalm
  <1>11. ASSUME NEW w \in Workers, WorkerStall(w) PROVE WakeInv'
    <2>1. Calm(Callers) /\ count = 0 /\ ~shutdown /\ UNCHANGED <<count, shutdown>>
      BY <1>11 DEF WorkerStall, Stall, Empty, Calm, Asleep, Coming
    <2> QED
      BY <2>1, WakeEmpty
  <1>12. ASSUME NEW w \in Workers, Park(w), UNCHANGED shutdown PROVE WakeInv'
    <2>1. Calm(Callers) /\ count = 0 /\ ~shutdown /\ UNCHANGED <<count, shutdown>>
      BY <1>12 DEF Park, MonitorInv, Calm, Asleep, Coming
    <2> QED
      BY <2>1, WakeEmpty
  <1>13. ASSUME NEW s \in Callers, SubmitStall(s) PROVE WakeInv'
    <2>1. Calm(Workers) /\ Full /\ ~shutdown /\ UNCHANGED <<count, shutdown>>
      BY <1>13 DEF SubmitStall, Stall, Refused, Calm, Asleep, Coming
    <2> QED
      BY <2>1, WakeFull
  <1>14. ASSUME NEW s \in Callers, Park(s), UNCHANGED shutdown PROVE WakeInv'
    <2>1. Calm(Workers) /\ Full /\ ~shutdown /\ UNCHANGED <<count, shutdown>>
      BY <1>14 DEF Park, MonitorInv, Calm, Asleep, Coming
    <2> QED
      BY <2>1, WakeFull
  <1>15. ASSUME NEW w \in Workers, WorkerExit(w) PROVE WakeInv'
    <2>1. Asleep(Workers)' = {} /\ shutdown'
      BY <1>15 DEF WorkerExit, WakeInv, Asleep
    <2> QED
      BY <2>1 DEF WakeInv, WorkConserving
  <1>16. ASSUME DestroyAnnounce PROVE WakeInv'
    <2>1. Asleep(Workers)' = {} /\ shutdown'
      BY <1>16 DEF DestroyAnnounce, BroadcastNotEmpty, Asleep
    <2> QED
      BY <2>1 DEF WakeInv, WorkConserving
  <1>17. ASSUME NEW s \in Callers, SubmitPublish(s) PROVE WakeInv'
    <2> DEFINE p == [pc EXCEPT ![s] = "idle"]
    <2>1. pc' \in Signalled(p, Workers) /\ pc[s] = "publish"
      BY <1>17 DEF SubmitPublish, SignalNotEmpty
    <2>2. count' = count + 1 /\ shutdown' = shutdown /\ ~shutdown
      BY <1>17 DEF SubmitPublish, MonitorInv
    <2>3. /\ p \in [Threads -> WorkerPC \cup MainPC] /\ p[s] = "idle"
          /\ \A u \in Threads \ {s} : p[u] = pc[u]
      OBVIOUS
    <2> HIDE DEF p
    <2>4. IF Asleep(Workers) = {} THEN pc' = p
          ELSE \E t \in Workers : pc[t] = "asleep" /\ pc' = [p EXCEPT ![t] = "lock"]
      BY ONLY <2>1, SignalWakes
    <2>5. /\ Calm(Workers)
          /\ Asleep(Workers) # {} => \E t \in Coming(Workers)' : t \notin Coming(Workers)
      BY <2>1, <2>3, <2>4 DEF Calm, Asleep, Coming
    <2>6. /\ Asleep(Callers)' \subseteq Asleep(Callers)
          /\ Coming(Callers) \subseteq Coming(Callers)' \cup {s}
      BY <2>1, <2>3, <2>4 DEF Asleep, Coming
    <2>7. /\ count \in Int /\ count' \in Int
          /\ Capacity - count \in Int /\ Capacity - count' \in Int
          /\ count' <= count + 1 /\ Capacity - count' <= (Capacity - count) - 1
      BY <2>2
    <2>8. WorkConserving'
      BY <2>5, <2>7, ServedSignal DEF WakeInv, WorkConserving, Served
    <2>9. RoomAnnounced'
      BY <2>2, <2>6, <2>7, ServedOne DEF WakeInv, RoomAnnounced, Served
    <2> QED
      BY <2>2, <2>8, <2>9 DEF WakeInv
  <1>18. ASSUME NEW w \in Workers, WorkerRelease(w) PROVE WakeInv'
    <2> DEFINE p == [pc EXCEPT ![w] = "run"]
    <2>1. pc' \in Signalled(p, Callers) /\ pc[w] = "release"
      BY <1>18 DEF WorkerRelease, SignalNotFull
    <2>2. count' = count - 1 /\ shutdown' = shutdown /\ ~shutdown
      BY <1>18 DEF WorkerRelease, MonitorInv
    <2>3. /\ p \in [Threads -> WorkerPC \cup MainPC] /\ p[w] = "run"
          /\ \A u \in Threads \ {w} : p[u] = pc[u]
      OBVIOUS
    <2> HIDE DEF p
    <2>4. IF Asleep(Callers) = {} THEN pc' = p
          ELSE \E t \in Callers : pc[t] = "asleep" /\ pc' = [p EXCEPT ![t] = "lock"]
      BY ONLY <2>1, SignalWakes
    <2>5. /\ Calm(Callers)
          /\ Asleep(Callers) # {} => \E t \in Coming(Callers)' : t \notin Coming(Callers)
      BY <2>1, <2>3, <2>4 DEF Calm, Asleep, Coming
    <2>6. /\ Asleep(Workers)' \subseteq Asleep(Workers)
          /\ Coming(Workers) \subseteq Coming(Workers)' \cup {w}
      BY <2>1, <2>3, <2>4 DEF Asleep, Coming
    <2>7. /\ count \in Int /\ count' \in Int
          /\ Capacity - count \in Int /\ Capacity - count' \in Int
          /\ count' <= count - 1 /\ Capacity - count' <= (Capacity - count) + 1
      BY <2>2
    <2>8. WorkConserving'
      BY <2>6, <2>7, ServedOne DEF WakeInv, WorkConserving, Served
    <2>9. RoomAnnounced'
      BY <2>2, <2>5, <2>7, ServedSignal DEF WakeInv, RoomAnnounced, Served
    <2> QED
      BY <2>2, <2>8, <2>9 DEF WakeInv
  <1> QED
    BY <1>1, <1>2, <1>3, <1>4, <1>5, <1>6, <1>7, <1>8, <1>9, <1>10, <1>11, <1>12, <1>13,
       <1>14, <1>15, <1>16, <1>17, <1>18
       DEF Next, Monitor, Worker, Submit, Destroy, Terminated

(* No wakeup is lost, for any number of threads and any capacity: one      *)
(* signal per task (line 79) and one per freed slot (line 97) are enough   *)
(* for the sleeping workers and, until shutdown, for the sleeping callers. *)
THEOREM NoWakeupLost == Spec => []WakeupsKept
  <1>1. WakeInv => WakeupsKept
    BY DEF WakeInv, WakeupsKept, NoLostWakeup
  <1>2. Init => IInv /\ WakeInv
    BY InitIInv, InitWakeInv
  <1>3. IInv /\ WakeInv /\ [Next]_vars => (IInv /\ WakeInv)'
    BY NextIInv, NextWakeInv
  <1> QED
    BY <1>1, <1>2, <1>3, PTL DEF Spec
=============================================================================
