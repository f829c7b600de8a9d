------------------------- MODULE ThreadBarrier_proofs -------------------------
(* Proofs about ThreadBarrier, for any number of threads.                  *)
EXTENDS ThreadBarrier, FiniteSetTheorems, TLAPS

(* The threads that exist are the first ones.                              *)
CreatedInOrder == \A t \in Threads : pc[t] = "unborn" <=> t >= created

IInv == TypeOK /\ CreatedInOrder /\ Rendezvous

LEMMA ThreadsFinite == IsFiniteSet(Threads) /\ Cardinality(Threads) = NumThreads
  BY NumThreadsAssumption, FS_Interval DEF Threads

(* If all but one thread wait and that one arrives, everybody has met.     *)
LEMMA EverybodyMet ==
  ASSUME NEW t \in Threads, t \notin At("waiting"),
         Cardinality(At("waiting")) + 1 = NumThreads
  PROVE  At("waiting") \cup {t} = Threads
  <1> DEFINE met == At("waiting") \cup {t}
  <1>1. At("waiting") \in SUBSET Threads /\ met \in SUBSET Threads
    BY DEF At
  <1>2. IsFiniteSet(At("waiting"))
    BY <1>1, ThreadsFinite, FS_Subset
  <1>3. Cardinality(met) = Cardinality(At("waiting")) + 1
    BY <1>2, FS_AddElement
  <1>4. Cardinality(Threads) = Cardinality(met)
    BY <1>3, ThreadsFinite
  <1> QED
    BY <1>1, <1>4, ThreadsFinite, FS_Subset

LEMMA InitIInv == Init => IInv
  BY NumThreadsAssumption
     DEF Init, IInv, TypeOK, CreatedInOrder, Rendezvous, At, Threads, SerialThread

LEMMA NextIInv == IInv /\ [Next]_vars => IInv'
  <1> SUFFICES ASSUME IInv, [Next]_vars PROVE IInv'
    OBVIOUS
  <1> USE NumThreadsAssumption DEF IInv
  <1>1. ASSUME CreateThread PROVE IInv'
    <2>1. created \in Threads /\ pc[created] = "unborn"
      BY <1>1 DEF CreateThread, MoreThreads, TypeOK, CreatedInOrder, Threads
    <2>2. At("released") \cup At("ended") = {}
      BY <2>1 DEF Rendezvous, At
    <2>3. At("released")' \cup At("ended")' = {}
      BY <1>1, <2>2 DEF CreateThread, TypeOK, At
    <2>4. TypeOK' /\ CreatedInOrder'
      BY <1>1, <2>1 DEF CreateThread, MoreThreads, TypeOK, CreatedInOrder, Threads
    <2> QED
      BY <2>3, <2>4 DEF Rendezvous
  <1>2. ASSUME NEW t \in Threads, Wait(t) PROVE IInv'
    <2>1. At("released") \cup At("ended") = {}
      BY <1>2 DEF Wait, Rendezvous, At
    <2>2. At("released")' \cup At("ended")' = {}
      BY <1>2, <2>1 DEF Wait, TypeOK, At
    <2>3. TypeOK' /\ CreatedInOrder'
      BY <1>2 DEF Wait, TypeOK, CreatedInOrder
    <2> QED
      BY <2>2, <2>3 DEF Rendezvous
  <1>3. ASSUME NEW t \in Threads, WaitLast(t) PROVE IInv'
    <2>1. At("waiting") \cup {t} = Threads
      BY <1>3, EverybodyMet DEF WaitLast, BarrierCount, At
    <2>2. pc' = [u \in Threads |-> "released"]
      BY <1>3, <2>1 DEF WaitLast
    <2>3. bar' \in [Threads -> {0, SerialThread}]
      BY <1>3, <2>1 DEF WaitLast
    <2>4. TypeOK'
      BY <1>3, <2>2, <2>3 DEF WaitLast, TypeOK
    <2>5. CreatedInOrder'
      BY <1>3, <2>1, <2>2 DEF WaitLast, CreatedInOrder, At
    <2>6. Rendezvous'
      BY <2>2 DEF Rendezvous, At
    <2> QED
      BY <2>4, <2>5, <2>6
  <1>4. ASSUME NEW t \in Threads, Finish(t) PROVE IInv'
    BY <1>4 DEF Finish, TypeOK, CreatedInOrder, Rendezvous, At
  <1>5. ASSUME InitBarrier \/ CreateDone \/ Join \/ GiveUp PROVE IInv'
    BY <1>5 DEF InitBarrier, CreateDone, Join, GiveUp, TypeOK, CreatedInOrder, Rendezvous, At
  <1>6. CASE UNCHANGED vars
    BY <1>6 DEF vars, TypeOK, CreatedInOrder, Rendezvous, At
  <1> QED
    BY <1>1, <1>2, <1>3, <1>4, <1>5, <1>6 DEF Next, Main, Thread, Terminated

(* The types; main never writes past its arrays of NUM_THREADS entries     *)
(* (lines 41-42 and 50-51 of pthreads2.c).                                 *)
THEOREM TypeCorrect == Spec => []TypeOK
  <1>1. IInv => TypeOK
    BY DEF IInv
  <1> QED
    BY InitIInv, NextIInv, <1>1, PTL DEF Spec

(* No thread is past the barrier while another one has not reached it, for *)
(* any number of threads, in any order of arrival (line 29).               *)
THEOREM NobodyIsEarly == Spec => []Rendezvous
  <1>1. IInv => Rendezvous
    BY DEF IInv
  <1> QED
    BY InitIInv, NextIInv, <1>1, PTL DEF Spec

-----------------------------------------------------------------------------
(* The barrier names one thread, and the program does not listen: once it  *)
(* has opened exactly one thread was told to be the serial one, and nobody *)
(* has performed the special action.                                       *)
SerialIgnored ==
  /\ special = {}
  /\ At("released") \cup At("ended") # {} =>
       \E s \in Threads : bar[s] = SerialThread /\ \A u \in Threads \ {s} : bar[u] = 0

LEMMA NextSerial == IInv /\ SerialIgnored /\ [Next]_vars => SerialIgnored'
  <1> SUFFICES ASSUME IInv, SerialIgnored, [Next]_vars PROVE SerialIgnored'
    OBVIOUS
  <1>1. ASSUME NEW t \in Threads, WaitLast(t) PROVE SerialIgnored'
    <2>1. At("waiting") \cup {t} = Threads
      BY <1>1, EverybodyMet DEF WaitLast, BarrierCount, At
    <2>2. PICK s \in Threads :
            bar' = [u \in Threads |-> IF u = s THEN SerialThread ELSE 0]
      BY <1>1, <2>1 DEF WaitLast
    <2>3. bar'[s] = SerialThread /\ \A u \in Threads \ {s} : bar'[u] = 0
      BY <2>2
    <2>4. special' = {}
      BY <1>1 DEF WaitLast, SerialIgnored
    <2> QED
      BY <2>3, <2>4 DEF SerialIgnored
  <1>2. ASSUME NEW t \in Threads, Finish(t) PROVE SerialIgnored'
    <2>1. SerialThread \notin Threads
      BY DEF SerialThread, Threads
    <2>2. UNCHANGED <<bar, special>>
      BY <1>2, <2>1 DEF Finish
    <2>3. At("released") # {}
      BY <1>2 DEF Finish, At
    <2> QED
      BY <2>2, <2>3 DEF SerialIgnored
  <1>3. ASSUME (\E t \in Threads : Wait(t)) \/ InitBarrier \/ CreateThread \/ CreateDone
               \/ Join \/ GiveUp
        PROVE  SerialIgnored'
    <2>1. /\ UNCHANGED <<bar, special>>
          /\ At("released")' \cup At("ended")' \subseteq At("released") \cup At("ended")
      BY <1>3 DEF Wait, InitBarrier, CreateThread, CreateDone, Join, GiveUp, IInv, TypeOK, At
    <2> QED
      BY <2>1 DEF SerialIgnored
  <1>4. CASE UNCHANGED vars
    BY <1>4 DEF vars, SerialIgnored, At
  <1> QED
    BY <1>1, <1>2, <1>3, <1>4 DEF Next, Main, Thread, Terminated

(* pthread_barrier_wait tells exactly one thread that it is the serial one *)
(* and the others 0 (lines 18-19 of pthreads2.c), and since line 34        *)
(* compares something else, the special action is performed by no thread,  *)
(* whatever their number.                                                  *)
THEOREM SerialThreadIdle == Spec => []SerialIgnored
  <1>1. Init => SerialIgnored
    BY DEF Init, SerialIgnored, At
  <1> QED
    BY InitIInv, NextIInv, <1>1, NextSerial, PTL DEF Spec
=============================================================================
