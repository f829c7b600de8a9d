----------------------------- MODULE Programs_proofs -----------------------------
(***************************************************************************)
(* Proofs about the programs of pthreads/ whose main creates threads,      *)
(* joins them and then releases what they use: RateLimiter (pthreads4.c),  *)
(* for any number of threads and permits, and the four of ThreadPrograms   *)
(* (pthreads3.c, 5, 7 and 8), for every order and every failure.           *)
(***************************************************************************)
EXTENDS RateLimiter, FourPrograms, Sequences, FiniteSetTheorems, TLAPS

-----------------------------------------------------------------------------
(* Before the limiter exists no thread does, so that none is in its task   *)
(* when the semaphore gets its initial value.                              *)
NobodyBefore == main = "start" => \A t \in Threads : pc[t] = "unborn"

IInv == TypeOK /\ PermitsConserved /\ NobodyBefore

LEMMA TasksFinite == IsFiniteSet(At("task")) /\ Cardinality(At("task")) \in Nat
  <1>1. At("task") \in SUBSET Threads
    BY DEF At
  <1> QED
    BY <1>1, ThreadsAssumption, FS_Subset, FS_CardinalityType

LEMMA InitIInv == Init => IInv
  BY DEF Init, IInv, TypeOK, PermitsConserved, NobodyBefore, Live

(* A step that moves no thread into or out of its task, and leaves the     *)
(* semaphore alone or ends the limiter, keeps the balance.                 *)
LEMMA BalanceKept ==
  ASSUME PermitsConserved, At("task")' = At("task"), Live' => Live /\ permits' = permits
  PROVE  PermitsConserved'
  BY DEF PermitsConserved

LEMMA NextIInv == IInv /\ [Next]_vars => IInv'
  <1> SUFFICES ASSUME IInv, [Next]_vars PROVE IInv'
    OBVIOUS
  <1> USE DEF IInv
  <1>1. ASSUME CreateLimiter PROVE IInv'
    <2>1. At("task") = {} /\ At("task")' = {}
      BY <1>1 DEF CreateLimiter, NobodyBefore, At
    <2>2. PermitsConserved'
      BY <1>1, <2>1, FS_EmptySet, RequestsAssumption
         DEF CreateLimiter, PermitsConserved, Live
    <2>3. TypeOK' /\ NobodyBefore'
      BY <1>1, RequestsAssumption DEF CreateLimiter, TypeOK, NobodyBefore, Live
    <2> QED
      BY <2>2, <2>3
  <1>2. ASSUME NEW t \in Threads, CreateThread(t) PROVE IInv'
    <2>1. At("task")' = At("task")
      BY <1>2 DEF CreateThread, TypeOK, At
    <2>2. PermitsConserved'
      BY <1>2, <2>1, BalanceKept DEF CreateThread, Live
    <2>3. TypeOK' /\ NobodyBefore'
      BY <1>2 DEF CreateThread, TypeOK, NobodyBefore, Live
    <2> QED
      BY <2>2, <2>3
  <1>3. ASSUME NEW t \in Threads, Acquire(t) PROVE IInv'
    <2>1. t \notin At("task") /\ At("task")' = At("task") \cup {t}
      BY <1>3 DEF Acquire, TypeOK, At
    <2>2. Cardinality(At("task")') = Cardinality(At("task")) + 1
      BY <2>1, TasksFinite, FS_AddElement
    <2>3. PermitsConserved'
      BY <1>3, <2>2, TasksFinite DEF Acquire, PermitsConserved, Live, TypeOK
    <2>4. TypeOK' /\ NobodyBefore'
      BY <1>3, RequestsAssumption DEF Acquire, TypeOK, NobodyBefore, Live
    <2> QED
      BY <2>3, <2>4
  <1>4. ASSUME NEW t \in Threads, Release(t) PROVE IInv'
    <2>1. t \in At("task") /\ At("task")' = At("task") \ {t}
      BY <1>4 DEF Release, TypeOK, At
    <2>2. Cardinality(At("task")') = Cardinality(At("task")) - 1
      BY <2>1, TasksFinite, FS_RemoveElement
    <2>3. PermitsConserved'
      BY <1>4, <2>2, TasksFinite DEF Release, PermitsBack, PermitsConserved, Live, TypeOK
    <2>4. IsFiniteSet(At("task")') /\ Cardinality(At("task")') \in Nat
      BY <2>1, TasksFinite, FS_RemoveElement, FS_CardinalityType
    <2>5. TypeOK' /\ NobodyBefore'
      BY <1>4, <2>3, <2>4, RequestsAssumption
         DEF Release, PermitsBack, PermitsConserved, TypeOK, NobodyBefore, Live
    <2> QED
      BY <2>3, <2>5
  <1>5. ASSUME CreateThreadFails \/ CreateDone \/ Join \/ Return PROVE IInv'
    <2>1. At("task")' = At("task")
      BY <1>5 DEF CreateThreadFails, CreateDone, Join, Return, At
    <2>2. Cardinality(Threads) \in Nat
      BY ThreadsAssumption, FS_CardinalityType
    <2>3. Live' => Live /\ permits' = permits
      BY <1>5 DEF CreateThreadFails, CreateDone, Join, Return, Live
    <2>4. TypeOK' /\ NobodyBefore'
      BY <1>5, <2>2, <2>3
         DEF CreateThreadFails, CreateDone, Join, Return, Garbage, TypeOK, NobodyBefore
    <2> QED
      BY <2>1, <2>3, <2>4, BalanceKept
  <1>6. CASE UNCHANGED vars
    BY <1>6 DEF vars, TypeOK, PermitsConserved, NobodyBefore, Live, At
  <1> QED
    BY <1>1, <1>2, <1>3, <1>4, <1>5, <1>6 DEF Next, Thread, Main, Terminated

(* The types, and never more permits than max_requests while the limiter   *)
(* exists (lines 27 and 53 of pthreads4.c), for any number of threads.     *)
THEOREM TypeCorrect == Spec => []TypeOK
  <1>1. IInv => TypeOK
    BY DEF IInv
  <1> QED
    BY InitIInv, NextIInv, <1>1, PTL DEF Spec

(* Every permit is free or held by one thread inside its task, so that at  *)
(* most max_requests tasks run at a time (line 18), whatever the order of  *)
(* the threads and of their creation.                                      *)
THEOREM PermitsCorrect == Spec => []PermitsConserved
  <1>1. IInv => PermitsConserved
    BY DEF IInv
  <1> QED
    BY InitIInv, NextIInv, <1>1, PTL DEF Spec

-----------------------------------------------------------------------------
(* What the four programs have in common: one to three threads, each with  *)
(* its ways to leave its body, and a main that, when it fails to create    *)
(* one, joins the others or returns at once.                               *)
LEMMA ProgramRecords ==
  ASSUME program \in Four!Programs
  PROVE  /\ Four!Threads = 1 .. Len(Four!P.threads) /\ Len(Four!P.threads) \in 1 .. 3
         /\ \A t \in Four!Threads : Four!P.threads[t] \subseteq {"ended", "faulted", "blocked"}
         /\ Four!P.failing \in {"join", "returned"}
  <1> USE DEF Four!Threads
  <1>1. CASE program = "queue"
    <2>1. Four!P = Four!QueueMain
      BY <1>1 DEF Four!P
    <2> QED
      BY <2>1 DEF Four!QueueMain, Four!ProducerThread, Four!ConsumerThread,
                  Four!Enqueue, Four!Dequeue, Four!QueueCleansUp
  <1>2. CASE program = "tls"
    <2>1. Four!P = Four!TlsMain
      BY <1>2 DEF Four!P
    <2> QED
      BY <2>1 DEF Four!TlsMain, Four!ThreadFunction, Four!GetThreadLocalData
  <1>3. CASE program = "cancel"
    <2>1. Four!P = Four!CancelMain
      BY <1>3 DEF Four!P
    <2> QED
      BY <2>1 DEF Four!CancelMain, Four!WorkerThread
  <1>4. CASE program = "event"
    <2>1. Four!P = Four!EventMain
      BY <1>4 DEF Four!P
    <2> QED
      BY <2>1 DEF Four!EventMain, Four!NotifierThread, Four!WaiterThread
  <1> QED
    BY <1>1, <1>2, <1>3, <1>4 DEF Four!Programs

(* Main cancels, joins and releases with success in mind only if all its   *)
(* threads were created, and until main returns its frame is there: no     *)
(* thread has read an argument that was gone.                              *)
AllCreated == (place \in {"cancel", "join", "release"} /\ status = 0) =>
                created = Len(Four!P.threads)
FrameThere == place \notin {"returned", "over"} => stale = {}

FourInv == /\ Four!TypeOK /\ Four!ReleasedLast /\ Four!SuccessMeansDone
           /\ AllCreated /\ FrameThere

LEMMA InitFour == Four!Init => FourInv
  <1> SUFFICES ASSUME Four!Init PROVE FourInv
    OBVIOUS
  <1> USE ProgramRecords DEF Four!Init
  <1>1. Four!TypeOK
    BY DEF Four!TypeOK, Four!Created
  <1> QED
    BY <1>1 DEF FourInv, AllCreated, FrameThere, Four!ReleasedLast, Four!SuccessMeansDone

LEMMA NextFour == FourInv /\ [Four!Next]_(Four!vars) => FourInv'
  <1> SUFFICES ASSUME FourInv, [Four!Next]_(Four!vars) PROVE FourInv'
    OBVIOUS
  <1> DEFINE N == Len(Four!P.threads)
  <1>1. /\ program \in Four!Programs
        /\ Four!Threads = 1 .. N /\ N \in 1 .. 3
        /\ Four!P.failing \in {"join", "returned"}
        /\ \A t \in Four!Threads : Four!P.threads[t] \subseteq {"ended", "faulted", "blocked"}
    BY ProgramRecords DEF FourInv, Four!TypeOK
  <1>2. UNCHANGED program /\ Four!P' = Four!P /\ Four!Threads' = Four!Threads
    <2>1. UNCHANGED program
      BY DEF Four!Next, Four!Main, Four!Acquire, Four!CreateThread, Four!CreateDone,
             Four!Cancel, Four!Join, Four!Release, Four!Exit, Four!Thread,
             Four!ReadArgument, Four!Body, Four!Terminated, Four!vars
    <2> QED
      BY <2>1 DEF Four!P, Four!Threads
  <1> USE <1>1, <1>2 DEF FourInv, AllCreated, FrameThere, Four!TypeOK, Four!ReleasedLast,
                         Four!SuccessMeansDone, Four!Created, Four!Fails
  <1>3. CASE Four!Acquire
    BY <1>3 DEF Four!Acquire
  <1>4. CASE Four!CreateThread
    BY <1>4 DEF Four!CreateThread, Four!MoreThreads
  <1>5. CASE Four!CreateDone
    BY <1>5 DEF Four!CreateDone
  <1>6. CASE Four!Cancel
    BY <1>6 DEF Four!Cancel
  <1>7. CASE Four!Join
    BY <1>7 DEF Four!Join, Four!AllJoined
  <1>8. CASE Four!Release
    BY <1>8 DEF Four!Release
  <1>9. CASE Four!Exit
    BY <1>9 DEF Four!Exit
  <1>10. ASSUME NEW t \in Four!Created, Four!ReadArgument(t) PROVE FourInv'
    BY <1>10 DEF Four!ReadArgument
  <1>11. ASSUME NEW t \in Four!Created, Four!Body(t) PROVE FourInv'
    BY <1>11 DEF Four!Body
  <1>12. CASE UNCHANGED Four!vars
    BY <1>12 DEF Four!vars
  <1> QED
    BY <1>3, <1>4, <1>5, <1>6, <1>7, <1>8, <1>9, <1>10, <1>11, <1>12
       DEF Four!Next, Four!Main, Four!Thread, Four!Terminated

(* The four programs: the types, and the threads that exist are the first  *)
(* of the arrays of handles, however far the creation got.                 *)
THEOREM FourTypes == FourSpec => []FourTypeOK
  <1>1. FourInv => FourTypeOK
    BY DEF FourInv, FourTypeOK
  <1> QED
    BY InitFour, NextFour, <1>1, PTL DEF FourSpec, Four!Spec

(* A queue, key or condition variable is released only when every thread   *)
(* that was created has ended, also on the ways that report a failure      *)
(* (lines 107-119 of pthreads3.c, 74-79 of pthreads5.c).                   *)
THEOREM FourRelease == FourSpec => []ReleasedLast
  <1>1. FourInv => ReleasedLast
    BY DEF FourInv, ReleasedLast
  <1> QED
    BY InitFour, NextFour, <1>1, PTL DEF FourSpec, Four!Spec

(* A program that returns 0 has run every thread to its end, and none of   *)
(* them read an argument in a frame that was gone.                         *)
THEOREM FourSuccess == FourSpec => []SuccessMeansDone
  <1>1. FourInv => SuccessMeansDone
    BY DEF FourInv, SuccessMeansDone
  <1> QED
    BY InitFour, NextFour, <1>1, PTL DEF FourSpec, Four!Spec
=============================================================================
