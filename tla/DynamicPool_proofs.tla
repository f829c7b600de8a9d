-------------------------- MODULE DynamicPool_proofs --------------------------
(* Proofs about DynamicPool, for any number of workers, callers and tasks  *)
(* and any capacity.                                                       *)
EXTENDS DynamicPool, RingMonitor_proofs, FiniteSetTheorems

(* While thread_pool_init runs no other caller is inside the pool, so that *)
(* the threads it adds cannot invalidate a test of num_threads.            *)
InitAlone ==
  (pc[Main] = "init" \/ (pc[Main] = "add" /\ mutex # Main)) =>
    \A s \in Callers \ {Main} : pc[s] = "idle"

IInv == TypeOK /\ MonitorInv /\ InitAlone

LEMMA CreatedFinite ==
  /\ IsFiniteSet(Created) /\ Cardinality(Created) \in Nat
  /\ Cardinality(Created) <= MaxThreads
  /\ MaxThreads \in Nat
  BY ThreadsAssumption, FS_Subset, FS_CardinalityType DEF Created, MaxThreads

LEMMA InitIInv == Init => IInv
  <1> SUFFICES ASSUME Init PROVE IInv
    OBVIOUS
  <1> USE ThreadsAssumption, CapacityAssumption, SpuriousAssumption, InitialAssumption
          DEF Init, RingInit, Threads
  <1>1. PlacesOK(WorkerPC, CallerPC, MainPC)
    BY DEF PlacesOK, WorkerPC, CallerPC, MainPC
  <1>2. RingOK
    BY DEF RingOK, Slots, Fates
  <1>3. Created = {}
    BY DEF Created
  <1>4. numThreads = Cardinality(Created)
    BY <1>3, FS_EmptySet
  <1>5. TypeOK
    BY <1>1, <1>2, CreatedFinite DEF TypeOK
  <1>6. tail = (head + count) % Capacity
    BY ModOnce
  <1>7. MonitorInv
    BY <1>4, <1>6 DEF MonitorInv
  <1> QED
    BY <1>5, <1>7 DEF IInv, InitAlone

(* A step that creates no worker leaves the count of threads right.        *)
LEMMA CountKept ==
  ASSUME numThreads = Cardinality(Created), numThreads' = numThreads,
         \A w \in Workers : pc'[w] = "unborn" <=> pc[w] = "unborn"
  PROVE  (numThreads = Cardinality(Created))'
  <1>1. Created' = Created
    BY DEF Created
  <1> QED
    BY <1>1

(* Every step keeps the invariant: one step of the proof per action.       *)
LEMMA NextIInv == IInv /\ [Next]_vars => IInv'
  <1> SUFFICES ASSUME IInv, [Next]_vars PROVE IInv'
    OBVIOUS
  <1> USE ThreadsAssumption, CapacityAssumption, CreatedFinite
          DEF IInv, TypeOK, InitAlone, Threads, PlacesOK, RingOK, WorkerPC, MainPC,
              CallerPC, MonitorPC, Go, ring, data, pool
  <1>1. ASSUME NEW t \in Threads, Acquire(t), UNCHANGED pool PROVE IInv'
    <2>1. TypeOK' /\ InitAlone'
      BY <1>1 DEF Acquire, MutexFree, MonitorInv
    <2>2. (numThreads = Cardinality(Created))'
      BY <1>1, CountKept DEF Acquire, MonitorInv
    <2>3. MonitorInv'
      BY <1>1, <2>1, <2>2 DEF Acquire, MutexFree, MonitorInv, Full
    <2> QED
      BY <2>1, <2>3
  <1>2. ASSUME NEW t \in Threads, Park(t), UNCHANGED pool PROVE IInv'
    <2>1. TypeOK' /\ InitAlone'
      BY <1>2 DEF Park, MonitorInv
    <2>2. (numThreads = Cardinality(Created))'
      BY <1>2, CountKept DEF Park, MonitorInv
    <2>3. MonitorInv'
      BY <1>2, <2>1, <2>2 DEF Park, MonitorInv, Full
    <2> QED
      BY <2>1, <2>3
  <1>3. ASSUME NEW t \in Threads, Wakeup(t) PROVE IInv'
    <2>1. TypeOK' /\ InitAlone'
      BY <1>3, SpuriousAssumption DEF Wakeup, SpuriousWakeup
    <2>2. (numThreads = Cardinality(Created))'
      BY <1>3, CountKept DEF Wakeup, SpuriousWakeup, MonitorInv
    <2>3. MonitorInv'
      BY <1>3, <2>1, <2>2 DEF Wakeup, SpuriousWakeup, MonitorInv, Full
    <2> QED
      BY <2>1, <2>3
  <1>4. ASSUME NEW w \in Workers, WorkerStall(w) PROVE IInv'
    <2>1. TypeOK' /\ InitAlone'
      BY <1>4 DEF WorkerStall, Stall
    <2>2. (numThreads = Cardinality(Created))'
      BY <1>4, CountKept DEF WorkerStall, Stall, MonitorInv
    <2>3. MonitorInv'
      BY <1>4, <2>1, <2>2 DEF WorkerStall, Stall, MonitorInv, Full, Empty
    <2> QED
      BY <2>1, <2>3
  <1>5. ASSUME NEW w \in Workers, WorkerFetch(w) PROVE IInv'
    <2> USE <1>5 DEF WorkerFetch, SignalNotFull
    <2> DEFINE p == [pc EXCEPT ![w] = "run"]
    <2>1. pc' = p \/ \E t \in Callers : pc[t] = "asleep" /\ pc' = [p EXCEPT ![t] = "lock"]
      BY SignalledCases
    <2>2. count \in 1 .. Capacity /\ head \in Slots
      BY DEF Empty
    <2>3. TypeOK' /\ InitAlone'
      <3>1. PlacesOK(WorkerPC, CallerPC, MainPC)'
        BY <2>1
      <3>2. slots[head] \in Tasks \cup {NoTask}
        BY <2>2
      <3>3. arg' \in [Threads -> Tasks \cup {NoTask}] /\ fate' \in [Tasks -> Fates]
        BY <3>2 DEF Fates
      <3>4. RingOK'
        BY <2>2, <3>3, AdvanceInSlots
      <3>5. InitAlone'
        BY <2>1 DEF MonitorInv
      <3> QED
        BY <3>1, <3>4, <3>5
    <2>4. (numThreads = Cardinality(Created))'
      BY <2>1, CountKept DEF MonitorInv
    <2>5. (tail = (head + count) % Capacity)'
      <3>1. tail' = tail /\ head' = Advance(head) /\ count' = count - 1
        OBVIOUS
      <3>2. (Advance(head) + (count - 1)) % Capacity = (head + count) % Capacity
        BY <2>2, AdvanceAdd
      <3> QED
        BY <3>1, <3>2 DEF MonitorInv
    <2>6. MonitorInv'
      BY <2>1, <2>2, <2>3, <2>4, <2>5 DEF MonitorInv, Full
    <2> QED
      BY <2>3, <2>6
  <1>6. ASSUME NEW w \in Workers, WorkerRun(w) PROVE IInv'
    <2>1. TypeOK' /\ InitAlone'
      BY <1>6 DEF WorkerRun, Run, Fates
    <2>2. (numThreads = Cardinality(Created))'
      BY <1>6, CountKept DEF WorkerRun, Run, MonitorInv
    <2>3. MonitorInv'
      BY <1>6, <2>1, <2>2 DEF WorkerRun, Run, MonitorInv, Full
    <2> QED
      BY <2>1, <2>3
  <1>7. ASSUME NEW s \in Callers, NEW t \in Tasks, SubmitCall(s, t) PROVE IInv'
    <2>1. TypeOK' /\ InitAlone'
      BY <1>7 DEF SubmitCall, Call, Open, Fates
    <2>2. (numThreads = Cardinality(Created))'
      BY <1>7, CountKept DEF SubmitCall, Call, MonitorInv
    <2>3. MonitorInv'
      BY <1>7, <2>1, <2>2 DEF SubmitCall, Call, MonitorInv, Full
    <2> QED
      BY <2>1, <2>3
  <1>8. ASSUME NEW s \in Callers, SubmitStall(s) PROVE IInv'
    <2>1. TypeOK' /\ InitAlone'
      BY <1>8 DEF SubmitStall, Stall
    <2>2. (numThreads = Cardinality(Created))'
      BY <1>8, CountKept DEF SubmitStall, Stall, MonitorInv
    <2>3. MonitorInv'
      BY <1>8, <2>1, <2>2 DEF SubmitStall, Stall, MonitorInv, Full
    <2> QED
      BY <2>1, <2>3
  <1>9. ASSUME NEW s \in Callers, SubmitStore(s) PROVE IInv'
    <2> USE <1>9 DEF SubmitStore, SignalNotEmpty, AfterStore
    <2> DEFINE p == [pc EXCEPT ![s] = AfterStore]
    <2>1. pc' = p \/ \E t \in Workers : pc[t] = "asleep" /\ pc' = [p EXCEPT ![t] = "lock"]
      <3>1. pc' \in Signalled(p, Workers)
        OBVIOUS
      <3> HIDE <1>9 DEF p, SubmitStore
      <3> QED
        BY <3>1, SignalledCases
    <2>2. count \in 0 .. Capacity - 1 /\ head \in Slots /\ tail \in Slots
      BY DEF Full
    <2>3. TypeOK' /\ InitAlone'
      <3>1. PlacesOK(WorkerPC, CallerPC, MainPC)'
        BY <2>1
      <3>2. slots' \in [Slots -> Tasks \cup {NoTask}] /\ tail' \in Slots /\ count' \in 0 .. Capacity
        BY <2>2, AdvanceInSlots
      <3>3. arg' \in [Threads -> Tasks \cup {NoTask}] /\ fate' \in [Tasks -> Fates]
        BY DEF Fates
      <3>4. RingOK'
        BY <3>2, <3>3
      <3>5. InitAlone'
        BY <2>1
      <3> QED
        BY <3>1, <3>4, <3>5
    <2>4. (numThreads = Cardinality(Created))'
      BY <2>1, CountKept DEF MonitorInv
    <2>5. (tail = (head + count) % Capacity)'
      <3>1. tail' = Advance(tail) /\ head' = head /\ count' = count + 1
        OBVIOUS
      <3>2. Advance((head + count) % Capacity) = (head + (count + 1)) % Capacity
        BY <2>2, AddAdvance
      <3> QED
        BY <3>1, <3>2 DEF MonitorInv
    <2>6. MonitorInv'
      BY <2>1, <2>2, <2>3, <2>4, <2>5 DEF MonitorInv, Full
    <2> QED
      BY <2>3, <2>6
  <1>10. ASSUME NEW s \in Callers, SubmitResize(s) PROVE IInv'
    <2>1. TypeOK' /\ InitAlone'
      BY <1>10 DEF SubmitResize, MonitorInv
    <2>2. (numThreads = Cardinality(Created))'
      BY <1>10, CountKept DEF SubmitResize, MonitorInv
    <2>3. MonitorInv'
      BY <1>10, <2>1, <2>2 DEF SubmitResize, MonitorInv, Full
    <2> QED
      BY <2>1, <2>3
  <1>11. ASSUME NEW s \in Callers, AddWorker(s) PROVE IInv'
    <2>1. s = Main /\ mutex # Main
      BY <1>11 DEF AddWorker, MonitorInv
    <2>2. CASE /\ pc' = [pc EXCEPT ![Main] = "init"]
               /\ UNCHANGED numThreads
      <3>1. TypeOK' /\ InitAlone'
        BY <1>11, <2>1, <2>2 DEF AddWorker
      <3>2. (numThreads = Cardinality(Created))'
        BY <2>2, CountKept DEF MonitorInv
      <3>3. MonitorInv'
        BY <1>11, <2>1, <2>2, <3>1, <3>2 DEF AddWorker, MonitorInv, Full
      <3> QED
        BY <3>1, <3>3
    <2>3. ASSUME NEW w \in Workers \ Created,
                 pc' = [pc EXCEPT ![w] = "lock", ![Main] = "init"],
                 numThreads' = numThreads + 1
          PROVE  IInv'
      <3>1. w \notin Created /\ Created' = Created \cup {w}
        BY <2>3 DEF Created
      <3>2. Cardinality(Created') = Cardinality(Created) + 1
        BY <3>1, FS_AddElement
      <3>3. Created' \in SUBSET Workers
        BY DEF Created
      <3>4. numThreads' = Cardinality(Created') /\ numThreads' \in 0 .. MaxThreads
        BY <2>3, <3>2, <3>3, FS_Subset DEF MonitorInv, MaxThreads
      <3>5. TypeOK' /\ InitAlone'
        BY <1>11, <2>1, <2>3, <3>4 DEF AddWorker
      <3>6. /\ w # Main /\ mutex' = mutex /\ poolMutex' = poolMutex
            /\ head' = head /\ tail' = tail /\ count' = count
            /\ pc'[w] = "lock" /\ pc'[Main] = "init"
            /\ \A t \in Threads \ {w, Main} : pc'[t] = pc[t]
            /\ \A s2 \in Callers \ {Main} : pc[s2] = "idle"
        BY <1>11, <2>1, <2>3 DEF AddWorker
      <3>7. (\A t \in Threads :
                /\ pc[t] \in {"check", "park", "resize", "unlock"} => mutex = t
                /\ mutex = t => pc[t] \in {"check", "park", "resize", "add", "unlock"}
                /\ poolMutex = t => mutex = t /\ pc[t] \in {"add", "unlock"}
                /\ pc[t] = "add" => IF mutex = t THEN poolMutex = t ELSE t = Main)'
        <4>1. mutex # w /\ poolMutex # w /\ poolMutex # Main
          BY <2>1, <2>3 DEF MonitorInv, Created
        <4> QED
          BY <2>1, <3>6, <4>1 DEF MonitorInv
      <3>8. MonitorInv'
        BY <3>4, <3>6, <3>7 DEF MonitorInv, Full
      <3> QED
        BY <3>5, <3>8
    <2> QED
      BY <1>11, <2>1, <2>2, <2>3 DEF AddWorker
  <1>12. ASSUME NEW s \in Callers, SubmitUnlock(s) PROVE IInv'
    <2>1. TypeOK' /\ InitAlone'
      BY <1>12 DEF SubmitUnlock, MonitorInv
    <2>2. (numThreads = Cardinality(Created))'
      BY <1>12, CountKept DEF SubmitUnlock, MonitorInv
    <2>3. MonitorInv'
      BY <1>12, <2>1, <2>2 DEF SubmitUnlock, MonitorInv, Full
    <2> QED
      BY <2>1, <2>3
  <1>13. ASSUME InitAttempt \/ InitDone \/ DestroyCall \/ DestroyJoin PROVE IInv'
    <2> USE <1>13 DEF InitAttempt, InitDone, DestroyCall, DestroyJoin
    <2>1. TypeOK' /\ InitAlone'
      BY InitialAssumption DEF MonitorInv
    <2>2. (numThreads = Cardinality(Created))'
      BY CountKept DEF MonitorInv
    <2>3. (\A t \in Threads :
              /\ pc[t] \in {"check", "park", "resize", "unlock"} => mutex = t
              /\ mutex = t => pc[t] \in {"check", "park", "resize", "add", "unlock"}
              /\ poolMutex = t => mutex = t /\ pc[t] \in {"add", "unlock"}
              /\ pc[t] = "add" => IF mutex = t THEN poolMutex = t ELSE t = Main)'
      BY DEF MonitorInv
    <2>4. MonitorInv'
      BY <2>2, <2>3 DEF MonitorInv, Full
    <2> QED
      BY <2>1, <2>4
  <1>14. ASSUME DestroyAnnounce PROVE IInv'
    <2> USE <1>14 DEF DestroyAnnounce, MutexFree, BroadcastNotEmpty, Asleep
    <2>1. TypeOK' /\ InitAlone'
      OBVIOUS
    <2>2. (numThreads = Cardinality(Created))'
      BY CountKept DEF MonitorInv
    <2>3. MonitorInv'
      BY <2>1, <2>2 DEF MonitorInv, Full
    <2> QED
      BY <2>1, <2>3
  <1>15. CASE UNCHANGED vars
    BY <1>15 DEF vars, MonitorInv, Full, Created
  <1> QED
    BY <1>1, <1>2, <1>3, <1>4, <1>5, <1>6, <1>7, <1>8, <1>9, <1>10, <1>11, <1>12, <1>13, <1>14, <1>15
       DEF Next, Monitor, Worker, Submit, Owner, Terminated

(* The pool's variables keep their types: count stays within 0..capacity,  *)
(* the indices within the array, and there are never more than max_threads *)
(* threads, so that add_worker never writes past the array (line 122 of    *)
(* pthreads6.c).                                                           *)
THEOREM TypeCorrect == Spec => []TypeOK
  <1>1. IInv => TypeOK
    BY DEF IInv
  <1> QED
    BY InitIInv, NextIInv, <1>1, PTL DEF Spec

(* queue_mutex and pool_mutex nest, what a thread tested under the former  *)
(* still holds when it acts on it, and a caller that adds a worker for a   *)
(* submission waits for a mutex it owns, for any number of threads.        *)
THEOREM MonitorCorrect == Spec => []MonitorInv
  <1>1. IInv => MonitorInv
    BY DEF IInv
  <1> QED
    BY InitIInv, NextIInv, <1>1, PTL DEF Spec

-----------------------------------------------------------------------------
(* A thread holds a task exactly while the code has one in hand.           *)
HoldInv ==
  /\ \A w \in Workers : arg[w] # NoTask <=> pc[w] = "run"
  /\ \A s \in Callers : arg[s] # NoTask <=> pc[s] \in MonitorPC

QInv == HoldInv /\ Placed(Contents(count), arg, fate)

LEMMA ContentsType ==
  ASSUME IInv
  PROVE  /\ slots \in [Slots -> Content] /\ head \in Slots /\ count \in 0 .. Capacity
         /\ Contents(count) = Ring(slots, head, count)
         /\ Contents(count) \in Seq(Content) /\ Len(Contents(count)) = count
         /\ arg \in [Threads -> Content] /\ fate \in [Tasks -> Fates]
  <1>1. /\ slots \in [Slots -> Content] /\ head \in Slots /\ count \in 0 .. Capacity
        /\ arg \in [Threads -> Content] /\ fate \in [Tasks -> Fates]
    BY DEF IInv, TypeOK, RingOK, Content
  <1>2. Contents(count) = Ring(slots, head, count)
    BY DEF Contents, Ring
  <1> QED
    BY <1>1, <1>2, RingType

LEMMA InitQInv == Init => QInv
  <1> SUFFICES ASSUME Init PROVE QInv
    OBVIOUS
  <1>1. HoldInv
    BY ThreadsAssumption DEF Init, RingInit, HoldInv, Threads, MonitorPC
  <1>2. Len(Contents(count)) = 0 /\ Contents(count) \in Seq(Content)
    BY InitIInv, ContentsType DEF Init, RingInit
  <1>3. Placed(Contents(count), arg, fate)
    BY <1>2, PlacedInit DEF Init, RingInit
  <1> QED
    BY <1>1, <1>3 DEF QInv

(* A caller in add_worker for a submission owns pool_mutex and waits for   *)
(* it, so only thread_pool_init gets through add_worker.                   *)
LEMMA OnlyInitAdds ==
  ASSUME IInv, NEW s \in Callers, AddWorker(s)
  PROVE  s = Main /\ mutex # Main /\ pc[Main] = "add"
  BY ThreadsAssumption
     DEF IInv, TypeOK, RingOK, Threads, AddWorker, MonitorInv

(* What a step of the pool does to its tasks.                              *)
Move(q, r) ==
  \/ Rests(q, r)
  \/ \E s \in Callers : \E t \in Tasks : Passes(s, t, q, r)
  \/ Len(q) < Capacity /\ \E s \in Callers : Enters(s, q, r)
  \/ \E w \in Workers : Begins(w, q, r) \/ Ends(w, q, r)

LEMMA NextMove ==
  IInv /\ QInv /\ [Next]_vars => HoldInv' /\ Move(Contents(count), Contents(count)')
  <1> SUFFICES ASSUME IInv, QInv, [Next]_vars
               PROVE  HoldInv' /\ Move(Contents(count), Contents(count)')
    OBVIOUS
  <1> DEFINE Goal == HoldInv' /\ Move(Contents(count), Contents(count)')
             Rest == HoldInv' /\ UNCHANGED <<slots, head, count, arg, fate>>
  <1>0. Rest => Goal
    BY DEF Move, Rests, Contents
  <1>00. IInv'
    BY NextIInv
  <1> USE ThreadsAssumption, CapacityAssumption, TasksAssumption
      DEF IInv, TypeOK, QInv, Threads, PlacesOK, RingOK, WorkerPC, MainPC, CallerPC,
          MonitorPC, Go, ring, data, pool
  <1>1. ASSUME NEW t \in Threads, Acquire(t) PROVE Rest
    BY <1>1 DEF Acquire, MutexFree, HoldInv
  <1>2. ASSUME NEW t \in Threads, Park(t) PROVE Rest
    BY <1>2 DEF Park, HoldInv
  <1>3. ASSUME NEW t \in Threads, Wakeup(t) PROVE Rest
    BY <1>3 DEF Wakeup, SpuriousWakeup, HoldInv
  <1>4. ASSUME NEW w \in Workers, WorkerStall(w) PROVE Rest
    BY <1>4 DEF WorkerStall, Stall, HoldInv
  <1>5. ASSUME NEW s \in Callers, SubmitStall(s) PROVE Rest
    BY <1>5 DEF SubmitStall, Stall, HoldInv
  <1>6. ASSUME NEW s \in Callers, SubmitResize(s) PROVE Rest
    BY <1>6 DEF SubmitResize, HoldInv
  <1>7. ASSUME NEW s \in Callers, AddWorker(s) PROVE Rest
    BY <1>7, OnlyInitAdds DEF AddWorker, Created, HoldInv
  <1>8. ASSUME NEW s \in Callers, SubmitUnlock(s) PROVE Rest
    BY <1>8 DEF SubmitUnlock, HoldInv
  <1>9. ASSUME InitAttempt \/ InitDone \/ DestroyCall \/ DestroyJoin PROVE Rest
    BY <1>9 DEF InitAttempt, InitDone, DestroyCall, DestroyJoin, HoldInv
  <1>10. ASSUME DestroyAnnounce PROVE Rest
    BY <1>10 DEF DestroyAnnounce, BroadcastNotEmpty, Asleep, HoldInv
  <1>11. ASSUME UNCHANGED vars PROVE Rest
    BY <1>11 DEF vars, HoldInv
  <1>12. ASSUME NEW s \in Callers, NEW t \in Tasks, SubmitCall(s, t) PROVE Goal
    <2> USE <1>12 DEF SubmitCall, Call
    <2>1. HoldInv'
      BY DEF HoldInv
    <2>2. Passes(s, t, Contents(count), Contents(count)')
      BY DEF Passes, HoldInv, Contents
    <2> QED
      BY <2>1, <2>2 DEF Move
  <1>13. ASSUME NEW s \in Callers, SubmitStore(s) PROVE Goal
    <2> DEFINE p == [pc EXCEPT ![s] = AfterStore]
               sl == [slots EXCEPT ![tail] = arg[s]]
    <2>1. /\ pc' \in Signalled(p, Workers) /\ pc[s] = "check"
          /\ slots' = sl /\ head' = head /\ count' = count + 1
          /\ arg' = [arg EXCEPT ![s] = NoTask]
          /\ fate' = [fate EXCEPT ![arg[s]] = "queued"]
      BY <1>13 DEF SubmitStore, SignalNotEmpty
    <2>2. count \in 0 .. Capacity - 1 /\ head \in Slots /\ slots \in [Slots -> Content]
      BY <1>13, ContentsType DEF SubmitStore, Full
    <2>3. arg[s] # NoTask /\ tail = (head + count) % Capacity /\ tail \in Slots
      BY <2>1 DEF HoldInv, MonitorInv
    <2>4. arg[s] \in Content /\ sl \in [Slots -> Content] /\ sl[(head + count) % Capacity] = arg[s]
      BY <2>2, <2>3 DEF Content
    <2>5. Ring(sl, head, count) = Ring(slots, head, count)
      <3>1. Ring([slots EXCEPT ![(head + count) % Capacity] = arg[s]], head, count)
              = Ring(slots, head, count)
        BY <2>2, RingStore
      <3> QED
        BY <2>3, <3>1
    <2>6. Ring(sl, head, count + 1) = Append(Ring(sl, head, count), sl[(head + count) % Capacity])
      <3> HIDE DEF sl
      <3> QED
        BY <2>2, <2>4, RingAppend
    <2>7. Contents(count)' = Append(Contents(count), arg[s])
      <3>1. Contents(count)' = Ring(sl, head, count + 1)
        BY <2>1 DEF Contents, Ring
      <3>2. Contents(count) = Ring(slots, head, count)
        BY ContentsType
      <3> HIDE DEF sl
      <3> QED
        BY <2>4, <2>5, <2>6, <3>1, <3>2
    <2>8. Len(Contents(count)) < Capacity
      BY <2>2, ContentsType
    <2>9. HoldInv'
      <3>1. /\ p \in [Threads -> WorkerPC \cup MainPC] /\ p[s] \in {"resize", "unlock"}
            /\ \A u \in Threads \ {s} : p[u] = pc[u]
        BY DEF AfterStore
      <3> HIDE DEF p
      <3>2. pc' = p \/ \E t \in Workers : pc[t] = "asleep" /\ pc' = [p EXCEPT ![t] = "lock"]
        BY ONLY <2>1, SignalledCases
      <3> QED
        BY <2>1, <3>1, <3>2 DEF HoldInv
    <2>10. Enters(s, Contents(count), Contents(count)')
      BY <2>1, <2>3, <2>7 DEF Enters
    <2> QED
      BY <2>8, <2>9, <2>10 DEF Move
  <1>14. ASSUME NEW w \in Workers, WorkerFetch(w) PROVE Goal
    <2> DEFINE p == [pc EXCEPT ![w] = "run"]
    <2>1. /\ pc' \in Signalled(p, Callers) /\ pc[w] = "check"
          /\ slots' = slots /\ head' = Advance(head) /\ count' = count - 1
          /\ arg' = [arg EXCEPT ![w] = slots[head]]
          /\ fate' = [fate EXCEPT ![slots[head]] = "running"]
      BY <1>14 DEF WorkerFetch, SignalNotFull
    <2>2. count \in 1 .. Capacity /\ head \in Slots /\ slots \in [Slots -> Content]
      BY <1>14, ContentsType DEF WorkerFetch, Empty
    <2>3. /\ Ring(slots, head, count) # <<>>
          /\ Head(Ring(slots, head, count)) = slots[head]
          /\ Ring(slots, Advance(head), count - 1) = Tail(Ring(slots, head, count))
      BY <2>2, RingTail
    <2>4. /\ Contents(count) # <<>> /\ Head(Contents(count)) = slots[head]
          /\ Contents(count)' = Tail(Contents(count))
      BY <2>1, <2>3 DEF Contents, Ring
    <2>5. arg[w] = NoTask
      BY <2>1 DEF HoldInv
    <2>6. slots[head] \in Tasks
      BY <2>4, <2>5, ContentsType, PlacedStart
    <2>7. HoldInv'
      <3>1. /\ p \in [Threads -> WorkerPC \cup MainPC] /\ p[w] = "run"
            /\ \A u \in Threads \ {w} : p[u] = pc[u]
        OBVIOUS
      <3> HIDE DEF p
      <3>2. pc' = p \/ \E t \in Callers : pc[t] = "asleep" /\ pc' = [p EXCEPT ![t] = "lock"]
        BY ONLY <2>1, SignalledCases
      <3> QED
        BY <2>1, <2>6, <3>1, <3>2 DEF HoldInv
    <2>8. Begins(w, Contents(count), Contents(count)')
      BY <2>1, <2>4, <2>5 DEF Begins
    <2> QED
      BY <2>7, <2>8 DEF Move
  <1>15. ASSUME NEW w \in Workers, WorkerRun(w) PROVE Goal
    <2> USE <1>15 DEF WorkerRun, Run
    <2>1. HoldInv'
      BY DEF HoldInv
    <2>2. Ends(w, Contents(count), Contents(count)')
      BY DEF Ends, HoldInv, Contents
    <2> QED
      BY <2>1, <2>2 DEF Move
  <1> HIDE DEF Rest, Goal
  <1>16. Goal
    BY <1>0, <1>1, <1>2, <1>3, <1>4, <1>5, <1>6, <1>7, <1>8, <1>9, <1>10, <1>11, <1>12,
       <1>13, <1>14, <1>15
       DEF Next, Monitor, Worker, Submit, Owner, Terminated
  <1> QED
    BY <1>16 DEF Goal

LEMMA NextQInv == IInv /\ QInv /\ [Next]_vars => QInv'
  <1> SUFFICES ASSUME IInv, QInv, [Next]_vars PROVE QInv'
    OBVIOUS
  <1>1. HoldInv' /\ Move(Contents(count), Contents(count)')
    BY NextMove
  <1>2. Placed(Contents(count)', arg', fate')
    BY <1>1, ContentsType, MovePlaced DEF QInv, Move
  <1> QED
    BY <1>1, <1>2 DEF QInv

(* No task is lost, duplicated or invented: lines 90-98 and 150-155 of     *)
(* pthreads6.c keep each task in exactly one place, for any number of      *)
(* threads and tasks and any capacity.                                     *)
THEOREM TasksConserved == Spec => []Conserved(count)
  <1>1. IInv /\ QInv => Conserved(count)
    BY ContentsType, PlacedConserved DEF QInv
  <1>2. Init => IInv /\ QInv
    BY InitIInv, InitQInv
  <1>3. IInv /\ QInv /\ [Next]_vars => (IInv /\ QInv)'
    BY NextIInv, NextQInv
  <1> QED
    BY <1>1, <1>2, <1>3, PTL DEF Spec

-----------------------------------------------------------------------------
(* The bounded queue counts as the pool does.                              *)
LEMMA SameCardinality == ASSUME NEW S PROVE Queue!Cardinality(S) = Cardinality(S)
  BY DEF Queue!Cardinality, Cardinality

LEMMA InitQueue == Init => Queue!Init
  <1> SUFFICES ASSUME Init PROVE Queue!Init
    OBVIOUS
  <1>1. Len(Contents(count)) = 0 /\ Contents(count) \in Seq(Content)
    BY InitIInv, ContentsType DEF Init, RingInit
  <1>2. Contents(count) = <<>>
    BY <1>1, EmptySeq
  <1>3. Held(Workers) = {} /\ With("done") = {}
    BY DEF Init, RingInit, Held, Holders, With, Threads
  <1> QED
    BY <1>2, <1>3 DEF Queue!Init

(* Every step of the pool is a step of the bounded queue, or none.         *)
LEMMA NextQueue == IInv /\ QInv /\ [Next]_vars => [Queue!Next]_Queue!vars
  <1> SUFFICES ASSUME IInv, QInv, [Next]_vars PROVE [Queue!Next]_Queue!vars
    OBVIOUS
  <1> DEFINE q == Contents(count)
             r == Contents(count)'
  <1>1. Move(q, r)
    BY NextMove
  <1>2. /\ q \in Seq(Content)
        /\ arg \in [Threads -> Content] /\ fate \in [Tasks -> Fates]
        /\ Placed(q, arg, fate)
    BY ContentsType DEF QInv
  <1>3. Held(Workers) = With("running")
    BY <1>2, PlacedHeld
  <1>4. Held(Workers)' = With("running")'
    <2>1. Placed(Contents(count), arg, fate)'
      BY NextQInv DEF QInv
    <2>2. Placed(r, arg', fate')
      BY <2>1
    <2> HIDE DEF r
    <2> QED
      BY <2>2 DEF Placed, Exact, Held, Holders, Holding, With
  <1>5. ASSUME r = q, With("running")' = With("running"), With("done")' = With("done")
        PROVE  UNCHANGED Queue!vars
    BY <1>3, <1>4, <1>5 DEF Queue!vars
  <1> HIDE DEF q, r
  <1>6. ASSUME Rests(q, r) \/ \E s \in Callers : \E t \in Tasks : Passes(s, t, q, r)
        PROVE  UNCHANGED Queue!vars
    BY <1>2, <1>5, <1>6, MoveOthers
  <1>7. ASSUME NEW w \in Workers, Ends(w, q, r) PROVE Queue!Next
    <2>1. /\ arg[w] \in Tasks /\ arg[w] \in With("running")
          /\ With("running")' = With("running") \ {arg[w]}
          /\ With("done")' = With("done") \cup {arg[w]}
      BY <1>2, <1>7, MoveEnds
    <2>2. Contents(count)' = Contents(count)
      BY <1>7 DEF Ends, q, r
    <2>3. Queue!Finish(arg[w])
      BY <1>3, <1>4, <2>1, <2>2 DEF Queue!Finish
    <2> QED
      BY <2>1, <2>3 DEF Queue!Next
  <1>8. ASSUME Len(q) < Capacity, NEW s \in Callers, Enters(s, q, r) PROVE Queue!Next
    <2>1. /\ arg[s] \in Tasks
          /\ \A i \in DOMAIN q : q[i] # arg[s]
          /\ arg[s] \notin With("running") \cup With("done")
          /\ With("running")' = With("running") /\ With("done")' = With("done")
      BY <1>2, <1>8, MoveEnters
    <2>2. Contents(count)' = Append(Contents(count), arg[s])
      BY <1>8 DEF Enters, q, r
    <2>3. arg[s] \notin Queue!Waiting \cup Held(Workers) \cup With("done")
      BY <1>3, <2>1 DEF Queue!Waiting, q
    <2>4. Queue!Room
      BY <1>8 DEF Queue!Room, q
    <2>5. Queue!Accept(arg[s])
      BY <1>3, <1>4, <2>1, <2>2, <2>3, <2>4 DEF Queue!Accept
    <2> QED
      BY <2>1, <2>5 DEF Queue!Next
  <1>9. ASSUME NEW w \in Workers, Begins(w, q, r) PROVE Queue!Next
    <2>1. /\ Cardinality(With("running")) < Cardinality(Workers)
          /\ With("running")' = With("running") \cup {Head(q)}
          /\ With("done")' = With("done")
      BY <1>2, <1>9, MoveBegins
    <2>2. Contents(count) # <<>> /\ Contents(count)' = Tail(Contents(count))
      BY <1>9 DEF Begins, q, r
    <2>3. Queue!Cardinality(Held(Workers)) < MaxThreads
      BY <1>3, <2>1, SameCardinality DEF MaxThreads
    <2>4. Held(Workers)' = Held(Workers) \cup {Head(Contents(count))}
      BY <1>3, <1>4, <2>1 DEF q
    <2>5. Queue!Start
      BY <2>1, <2>2, <2>3, <2>4 DEF Queue!Start
    <2> QED
      BY <2>5 DEF Queue!Next
  <1> QED
    BY <1>1, <1>6, <1>7, <1>8, <1>9 DEF Move

(* The pool implements the bounded FIFO queue, for any number of threads   *)
(* and tasks and any capacity: tasks start at most once and in the order   *)
(* of acceptance, at most capacity of them wait, and at most max_threads   *)
(* run.                                                                    *)
THEOREM Implements == Spec => ImplementsQueue
  <1>1. Init => IInv /\ QInv
    BY InitIInv, InitQInv
  <1>2. IInv /\ QInv /\ [Next]_vars => (IInv /\ QInv)'
    BY NextIInv, NextQInv
  <1> QED
    BY <1>1, <1>2, InitQueue, NextQueue, PTL DEF Spec, ImplementsQueue, Queue!Spec

-----------------------------------------------------------------------------
(* Wakeups: NoLostWakeup is inductive together with IInv.                  *)
LEMMA InitWake == Init => NoLostWakeup
  BY DEF Init, RingInit, NoLostWakeup, WorkConserving, RoomAnnounced, Asleep, Threads

LEMMA WakeCalm ==
  ASSUME IInv, NoLostWakeup, Calm(Workers), Calm(Callers), count' = count
  PROVE  NoLostWakeup'
  <1> USE ThreadsAssumption, CapacityAssumption
  <1>1. count \in Int /\ Capacity - count \in Int
    BY DEF IInv, TypeOK, RingOK
  <1>2. WorkConserving'
    BY <1>1, ServedCalm DEF NoLostWakeup, WorkConserving, Served
  <1>3. RoomAnnounced'
    BY <1>1, ServedCalm DEF NoLostWakeup, RoomAnnounced, Served
  <1> QED
    BY <1>2, <1>3 DEF NoLostWakeup

LEMMA WakeEmpty ==
  ASSUME IInv, NoLostWakeup, count = 0, Calm(Callers), count' = count
  PROVE  NoLostWakeup'
  <1> USE ThreadsAssumption, CapacityAssumption
  <1>1. Capacity - count \in Int /\ count' = 0
    BY DEF IInv, TypeOK, RingOK
  <1>2. WorkConserving'
    BY <1>1, ServedNobody DEF WorkConserving, Served
  <1>3. RoomAnnounced'
    BY <1>1, ServedCalm DEF NoLostWakeup, RoomAnnounced, Served
  <1> QED
    BY <1>2, <1>3 DEF NoLostWakeup

LEMMA WakeFull ==
  ASSUME IInv, NoLostWakeup, Full, Calm(Workers), count' = count
  PROVE  NoLostWakeup'
  <1> USE ThreadsAssumption, CapacityAssumption
  <1>1. count \in Int /\ Capacity - count' = 0
    BY DEF IInv, TypeOK, RingOK, Full
  <1>2. WorkConserving'
    BY <1>1, ServedCalm DEF NoLostWakeup, WorkConserving, Served
  <1>3. RoomAnnounced'
    BY <1>1, ServedNobody DEF RoomAnnounced, Served
  <1> QED
    BY <1>2, <1>3 DEF NoLostWakeup

LEMMA NextWake == IInv /\ NoLostWakeup /\ [Next]_vars => NoLostWakeup'
  <1> SUFFICES ASSUME IInv, NoLostWakeup, [Next]_vars PROVE NoLostWakeup'
    OBVIOUS
  <1> USE ThreadsAssumption, CapacityAssumption
      DEF IInv, TypeOK, Threads, PlacesOK, RingOK, WorkerPC, MainPC, CallerPC,
          MonitorPC, Go, ring, data, pool
  <1>0. IInv'
    BY NextIInv
  <1>1. ASSUME NEW t \in Threads, Acquire(t) PROVE NoLostWakeup'
    <2>1. Calm(Workers) /\ Calm(Callers) /\ count' = count
      BY <1>1 DEF Acquire, Calm, Asleep, Coming
    <2> QED
      BY <2>1, WakeCalm
  <1>2. ASSUME NEW t \in Threads, Wakeup(t) PROVE NoLostWakeup'
    <2>1. Calm(Workers) /\ Calm(Callers) /\ count' = count
      BY <1>2 DEF Wakeup, SpuriousWakeup, Calm, Asleep, Coming
    <2> QED
      BY <2>1, WakeCalm
  <1>3. ASSUME NEW w \in Workers, WorkerRun(w) PROVE NoLostWakeup'
    <2>1. Calm(Workers) /\ Calm(Callers) /\ count' = count
      BY <1>3 DEF WorkerRun, Run, Calm, Asleep, Coming
    <2> QED
      BY <2>1, WakeCalm
  <1>4. ASSUME NEW s \in Callers, NEW t \in Tasks, SubmitCall(s, t) PROVE NoLostWakeup'
    <2>1. Calm(Workers) /\ Calm(Callers) /\ count' = count
      BY <1>4 DEF SubmitCall, Call, Calm, Asleep, Coming
    <2> QED
      BY <2>1, WakeCalm
  <1>5. ASSUME NEW s \in Callers, SubmitResize(s) PROVE NoLostWakeup'
    <2>1. Calm(Workers) /\ Calm(Callers) /\ count' = count
      BY <1>5 DEF SubmitResize, Calm, Asleep, Coming
    <2> QED
      BY <2>1, WakeCalm
  <1>6. ASSUME NEW s \in Callers, AddWorker(s) PROVE NoLostWakeup'
    <2>1. Calm(Workers) /\ Calm(Callers) /\ count' = count
      BY <1>6 DEF AddWorker, Created, Calm, Asleep, Coming
    <2> QED
      BY <2>1, WakeCalm
  <1>7. ASSUME NEW s \in Callers, SubmitUnlock(s) PROVE NoLostWakeup'
    <2>1. Calm(Workers) /\ Calm(Callers) /\ count' = count
      BY <1>7 DEF SubmitUnlock, Calm, Asleep, Coming
    <2> QED
      BY <2>1, WakeCalm
  <1>8. ASSUME InitAttempt \/ InitDone \/ DestroyCall \/ DestroyJoin PROVE NoLostWakeup'
    <2>1. Calm(Workers) /\ Calm(Callers) /\ count' = count
      BY <1>8 DEF InitAttempt, InitDone, DestroyCall, DestroyJoin, Calm, Asleep, Coming
    <2> QED
      BY <2>1, WakeCalm
  <1>9. ASSUME DestroyAnnounce PROVE NoLostWakeup'
    <2>1. Calm(Workers) /\ Calm(Callers) /\ count' = count
      BY <1>9 DEF DestroyAnnounce, BroadcastNotEmpty, Calm, Asleep, Coming
    <2> QED
      BY <2>1, WakeCalm
  <1>10. ASSUME UNCHANGED vars PROVE NoLostWakeup'
    <2>1. Calm(Workers) /\ Calm(Callers) /\ count' = count
      BY <1>10 DEF vars, Calm, Asleep, Coming
    <2> QED
      BY <2>1, WakeCalm
  <1>11. ASSUME NEW w \in Workers, WorkerStall(w) PROVE NoLostWakeup'
    <2>1. Calm(Callers) /\ count = 0 /\ count' = count
      BY <1>11 DEF WorkerStall, Stall, Empty, Calm, Asleep, Coming
    <2> QED
      BY <2>1, WakeEmpty
  <1>12. ASSUME NEW w \in Workers, Park(w) PROVE NoLostWakeup'
    <2>1. Calm(Callers) /\ count = 0 /\ count' = count
      BY <1>12 DEF Park, MonitorInv, Calm, Asleep, Coming
    <2> QED
      BY <2>1, WakeEmpty
  <1>13. ASSUME NEW s \in Callers, SubmitStall(s) PROVE NoLostWakeup'
    <2>1. Calm(Workers) /\ Full /\ count' = count
      BY <1>13 DEF SubmitStall, Stall, Calm, Asleep, Coming
    <2> QED
      BY <2>1, WakeFull
  <1>14. ASSUME NEW s \in Callers, Park(s) PROVE NoLostWakeup'
    <2>1. Calm(Workers) /\ Full /\ count' = count
      BY <1>14 DEF Park, MonitorInv, Calm, Asleep, Coming
    <2> QED
      BY <2>1, WakeFull
  <1>15. ASSUME NEW s \in Callers, SubmitStore(s) PROVE NoLostWakeup'
    <2> DEFINE p == [pc EXCEPT ![s] = AfterStore]
    <2>1. /\ pc' \in Signalled(p, Workers) /\ pc[s] = "check"
          /\ count' = count + 1
      BY <1>15 DEF SubmitStore, SignalNotEmpty
    <2>2. /\ p \in [Threads -> WorkerPC \cup MainPC] /\ p[s] \in {"resize", "unlock"}
          /\ \A u \in Threads \ {s} : p[u] = pc[u]
      BY DEF AfterStore
    <2> HIDE DEF p
    <2>3. IF Asleep(Workers) = {} THEN pc' = p
          ELSE \E t \in Workers : pc[t] = "asleep" /\ pc' = [p EXCEPT ![t] = "lock"]
      BY ONLY <2>1, SignalWakes
    <2>4. /\ Calm(Workers)
          /\ Asleep(Workers) # {} => \E t \in Coming(Workers)' : t \notin Coming(Workers)
      BY <2>1, <2>2, <2>3 DEF Calm, Asleep, Coming
    <2>5. /\ Asleep(Callers)' \subseteq Asleep(Callers)
          /\ Coming(Callers) \subseteq Coming(Callers)' \cup {s}
      BY <2>1, <2>2, <2>3 DEF Asleep, Coming
    <2>6. /\ count \in Int /\ count' \in Int
          /\ Capacity - count \in Int /\ Capacity - count' \in Int
          /\ count' <= count + 1 /\ Capacity - count' <= (Capacity - count) - 1
      BY <2>1
    <2>7. WorkConserving'
      BY <2>4, <2>6, ServedSignal DEF NoLostWakeup, WorkConserving, Served
    <2>8. RoomAnnounced'
      BY <2>5, <2>6, ServedOne DEF NoLostWakeup, RoomAnnounced, Served
    <2> QED
      BY <2>7, <2>8 DEF NoLostWakeup
  <1>16. ASSUME NEW w \in Workers, WorkerFetch(w) PROVE NoLostWakeup'
    <2> DEFINE p == [pc EXCEPT ![w] = "run"]
    <2>1. /\ pc' \in Signalled(p, Callers) /\ pc[w] = "check"
          /\ count' = count - 1
      BY <1>16 DEF WorkerFetch, SignalNotFull
    <2>2. /\ p \in [Threads -> WorkerPC \cup MainPC] /\ p[w] = "run"
          /\ \A u \in Threads \ {w} : p[u] = pc[u]
      OBVIOUS
    <2> HIDE DEF p
    <2>3. IF Asleep(Callers) = {} THEN pc' = p
          ELSE \E t \in Callers : pc[t] = "asleep" /\ pc' = [p EXCEPT ![t] = "lock"]
      BY ONLY <2>1, SignalWakes
    <2>4. /\ Calm(Callers)
          /\ Asleep(Callers) # {} => \E t \in Coming(Callers)' : t \notin Coming(Callers)
      BY <2>1, <2>2, <2>3 DEF Calm, Asleep, Coming
    <2>5. /\ Asleep(Workers)' \subseteq Asleep(Workers)
          /\ Coming(Workers) \subseteq Coming(Workers)' \cup {w}
      BY <2>1, <2>2, <2>3 DEF Asleep, Coming
    <2>6. /\ count \in Int /\ count' \in Int
          /\ Capacity - count \in Int /\ Capacity - count' \in Int
          /\ count' <= count - 1 /\ Capacity - count' <= (Capacity - count) + 1
      BY <2>1
    <2>7. WorkConserving'
      BY <2>5, <2>6, ServedOne DEF NoLostWakeup, WorkConserving, Served
    <2>8. RoomAnnounced'
      BY <2>4, <2>6, ServedSignal DEF NoLostWakeup, RoomAnnounced, Served
    <2> QED
      BY <2>7, <2>8 DEF NoLostWakeup
  <1> QED
    BY <1>1, <1>2, <1>3, <1>4, <1>5, <1>6, <1>7, <1>8, <1>9, <1>10, <1>11, <1>12, <1>13,
       <1>14, <1>15, <1>16
       DEF Next, Monitor, Worker, Submit, Owner, Terminated

(* No wakeup is lost, for any number of threads and any capacity: one      *)
(* signal per submission (line 97) and one per fetch (line 156) are enough *)
(* for the sleeping workers and the sleeping callers.                      *)
THEOREM NoWakeupLost == Spec => []NoLostWakeup
  <1>1. Init => IInv /\ NoLostWakeup
    BY InitIInv, InitWake
  <1>2. IInv /\ NoLostWakeup /\ [Next]_vars => (IInv /\ NoLostWakeup)'
    BY NextIInv, NextWake
  <1> QED
    BY <1>1, <1>2, PTL DEF Spec

-----------------------------------------------------------------------------
(* The growing pool does not grow: after thread_pool_init no thread is     *)
(* added (line 123 is only ever reached from line 69), and a submission    *)
(* that goes to add one keeps waiting at line 120, with queue_mutex owned, *)
(* for good: no task is accepted, and none fetched, any more.              *)
ResizeStuck ==
  /\ \A s \in Callers :
       (pc[s] = "add" /\ mutex = s) => (pc'[s] = "add" /\ mutex' = s /\ UNCHANGED ring)
  /\ numThreads' # numThreads => pc[Main] = "add" /\ mutex # Main

LEMMA NextStuck == IInv /\ [Next]_vars => ResizeStuck
  <1> SUFFICES ASSUME IInv, [Next]_vars PROVE ResizeStuck
    OBVIOUS
  <1> USE ThreadsAssumption
      DEF IInv, TypeOK, Threads, PlacesOK, RingOK, Go, ring, data, pool, ResizeStuck
  <1>1. ASSUME NEW t \in Threads, Acquire(t), UNCHANGED pool PROVE ResizeStuck
    BY <1>1 DEF Acquire, MutexFree, MonitorInv
  <1>2. ASSUME NEW t \in Threads, Park(t), UNCHANGED pool PROVE ResizeStuck
    BY <1>2 DEF Park, MonitorInv
  <1>3. ASSUME NEW t \in Threads, Wakeup(t) PROVE ResizeStuck
    BY <1>3 DEF Wakeup, SpuriousWakeup, MonitorInv
  <1>4. ASSUME NEW w \in Workers, WorkerStall(w) PROVE ResizeStuck
    BY <1>4 DEF WorkerStall, Stall, MonitorInv
  <1>5. ASSUME NEW w \in Workers, WorkerRun(w) PROVE ResizeStuck
    BY <1>5 DEF WorkerRun, Run, MonitorInv
  <1>6. ASSUME NEW s \in Callers, NEW t \in Tasks, SubmitCall(s, t) PROVE ResizeStuck
    BY <1>6 DEF SubmitCall, Call, MonitorInv
  <1>7. ASSUME NEW s \in Callers, SubmitStall(s) PROVE ResizeStuck
    BY <1>7 DEF SubmitStall, Stall, MonitorInv
  <1>8. ASSUME NEW s \in Callers, SubmitResize(s) PROVE ResizeStuck
    BY <1>8 DEF SubmitResize, MonitorInv
  <1>9. ASSUME NEW s \in Callers, AddWorker(s) PROVE ResizeStuck
    BY <1>9, OnlyInitAdds DEF AddWorker, Created, MonitorInv
  <1>10. ASSUME NEW s \in Callers, SubmitUnlock(s) PROVE ResizeStuck
    BY <1>10 DEF SubmitUnlock, MonitorInv
  <1>11. ASSUME InitAttempt \/ InitDone \/ DestroyCall \/ DestroyJoin PROVE ResizeStuck
    BY <1>11 DEF InitAttempt, InitDone, DestroyCall, DestroyJoin, MonitorInv
  <1>12. ASSUME DestroyAnnounce PROVE ResizeStuck
    BY <1>12 DEF DestroyAnnounce, MutexFree, BroadcastNotEmpty, Asleep, MonitorInv
  <1>13. ASSUME UNCHANGED vars PROVE ResizeStuck
    BY <1>13 DEF vars, MonitorInv
  <1>14. ASSUME NEW s \in Callers, SubmitStore(s) PROVE ResizeStuck
    <2>1. pc[s] = "check" /\ mutex = s /\ UNCHANGED <<mutex, numThreads>>
      BY <1>14 DEF SubmitStore, MonitorInv
    <2>2. \A u \in Callers : pc[u] = "add" => mutex # u
      BY <2>1
    <2> QED
      BY <2>1, <2>2
  <1>15. ASSUME NEW w \in Workers, WorkerFetch(w) PROVE ResizeStuck
    <2>1. mutex = w /\ UNCHANGED numThreads
      BY <1>15 DEF WorkerFetch, MonitorInv
    <2> QED
      BY <2>1
  <1> QED
    BY <1>1, <1>2, <1>3, <1>4, <1>5, <1>6, <1>7, <1>8, <1>9, <1>10, <1>11, <1>12, <1>13,
       <1>14, <1>15
       DEF Next, Monitor, Worker, Submit, Owner, Terminated

(* For any number of threads and any capacity, a submission that finds the *)
(* ring full below the maximum of threads and goes to add one never        *)
(* returns, nothing is accepted or fetched after it, and num_threads stays *)
(* what thread_pool_init made it (lines 99-106 and 120).                   *)
THEOREM NeverGrows == Spec => [][ResizeStuck]_vars
  <1>1. IInv /\ [Next]_vars => [ResizeStuck]_vars
    BY NextStuck
  <1> QED
    BY InitIInv, NextIInv, <1>1, PTL DEF Spec

-----------------------------------------------------------------------------
(* thread_pool_destroy does not get past a worker: the join of line 182    *)
(* waits for a thread whose loop has no exit, whatever becomes of the rest *)
(* of the pool.                                                            *)
DestroyStuck ==
  (pc[Main] = "join" /\ Created # {}) => (pc'[Main] = "join" /\ Created' # {})

LEMMA NextJoin == IInv /\ [Next]_vars => DestroyStuck
  <1> SUFFICES ASSUME IInv, [Next]_vars, pc[Main] = "join", NEW w \in Created
               PROVE  pc'[Main] = "join" /\ w \in Created'
    BY DEF DestroyStuck
  <1> DEFINE Stuck == pc'[Main] = "join" /\ w \in Created'
  <1> USE ThreadsAssumption
      DEF IInv, TypeOK, Threads, PlacesOK, WorkerPC, MainPC, CallerPC, MonitorPC, Created, Go
  <1>1. ASSUME NEW t \in Threads, Acquire(t) \/ Park(t) PROVE Stuck
    BY <1>1 DEF Acquire, Park
  <1>2. ASSUME NEW t \in Threads, Wakeup(t) PROVE Stuck
    BY <1>2 DEF Wakeup, SpuriousWakeup
  <1>3. ASSUME NEW v \in Workers, WorkerStall(v) \/ WorkerRun(v) PROVE Stuck
    BY <1>3 DEF WorkerStall, Stall, WorkerRun, Run
  <1>4. ASSUME NEW v \in Workers, WorkerFetch(v) PROVE Stuck
    <2> DEFINE p == [pc EXCEPT ![v] = "run"]
    <2>1. pc' \in Signalled(p, Callers) /\ pc[v] = "check"
      BY <1>4 DEF WorkerFetch, SignalNotFull
    <2>2. p \in [Threads -> WorkerPC \cup MainPC] /\ p[Main] = "join" /\ p[w] # "unborn"
      BY <2>1
    <2> HIDE DEF p
    <2>3. pc' = p \/ \E t \in Callers : pc[t] = "asleep" /\ pc' = [p EXCEPT ![t] = "lock"]
      BY ONLY <2>1, SignalledCases
    <2> QED
      BY <2>2, <2>3
  <1>5. ASSUME NEW s \in Callers, NEW t \in Tasks, SubmitCall(s, t) PROVE Stuck
    BY <1>5 DEF SubmitCall, Call
  <1>6. ASSUME NEW s \in Callers, SubmitStall(s) \/ SubmitResize(s) \/ SubmitUnlock(s)
        PROVE  Stuck
    BY <1>6 DEF SubmitStall, Stall, SubmitResize, SubmitUnlock
  <1>7. ASSUME NEW s \in Callers, AddWorker(s) PROVE Stuck
    BY <1>7 DEF AddWorker
  <1>8. ASSUME NEW s \in Callers, SubmitStore(s) PROVE Stuck
    <2> DEFINE p == [pc EXCEPT ![s] = AfterStore]
    <2>1. pc' \in Signalled(p, Workers) /\ pc[s] = "check"
      BY <1>8 DEF SubmitStore, SignalNotEmpty
    <2>2. p \in [Threads -> WorkerPC \cup MainPC] /\ p[Main] = "join" /\ p[w] # "unborn"
      BY <2>1 DEF AfterStore
    <2> HIDE DEF p
    <2>3. pc' = p \/ \E t \in Workers : pc[t] = "asleep" /\ pc' = [p EXCEPT ![t] = "lock"]
      BY ONLY <2>1, SignalledCases
    <2> QED
      BY <2>2, <2>3
  <1>9. ASSUME InitAttempt \/ InitDone \/ DestroyCall \/ DestroyAnnounce PROVE Stuck
    BY <1>9 DEF InitAttempt, InitDone, DestroyCall, DestroyAnnounce
  <1>10. ASSUME DestroyJoin PROVE FALSE
    <2>1. numThreads = 0 /\ numThreads = Cardinality(Created)
      BY <1>10 DEF DestroyJoin, MonitorInv
    <2> QED
      BY <2>1, CreatedFinite, FS_EmptySet
  <1>11. CASE UNCHANGED vars
    BY <1>11 DEF vars
  <1> QED
    BY <1>1, <1>2, <1>3, <1>4, <1>5, <1>6, <1>7, <1>8, <1>9, <1>10, <1>11
       DEF Next, Monitor, Worker, Submit, Owner, Terminated

(* For any number of threads: once thread_pool_destroy joins, and there is *)
(* a worker, it never returns and releases nothing (lines 181-190).        *)
THEOREM NeverDestroyed == Spec => [][DestroyStuck]_vars
  <1>1. IInv /\ [Next]_vars => [DestroyStuck]_vars
    BY NextJoin
  <1> QED
    BY InitIInv, NextIInv, <1>1, PTL DEF Spec
=============================================================================
