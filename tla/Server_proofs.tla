----------------------------- MODULE Server_proofs ----------------------------
(* Proofs about Server, for any number of connections, descriptors and     *)
(* threads and any bounds on the kernel's queue and the pool's.            *)
EXTENDS Server, FiniteSetTheorems, TLAPS

(* A pending connection has no descriptor, and the sets are finite.        *)
FiniteInv == /\ IsFiniteSet(pending) /\ IsFiniteSet(fds) /\ IsFiniteSet(running)
             /\ pending \cap fds = {}

(* The pool keeps its bounds, and is empty before it is created.           *)
PoolInv == /\ Len(waiting) <= MaxTasks
           /\ Cardinality(running) <= workers
           /\ main = "start" => workers = 0

(* The descriptor of a handled connection stays open. Hence what main      *)
(* accepts was never given to the pool.                                    *)
HandledStayOpen == done \subseteq fds

IInv == TypeOK /\ FiniteInv /\ PoolInv /\ FdsOwned /\ HandledStayOpen

LEMMA InitIInv == Init => IInv
  <1> SUFFICES ASSUME Init PROVE IInv
    OBVIOUS
  <1> USE ServerAssumption DEF Init, Pool!Init
  <1>1. Cardinality({}) = 0 /\ IsFiniteSet({})
    BY FS_EmptySet
  <1>2. waiting \in Seq(Clients) /\ Len(waiting) = 0
    OBVIOUS
  <1>3. TypeOK
    BY <1>1, <1>2 DEF TypeOK, MainPC
  <1>4. FiniteInv /\ PoolInv
    BY <1>1, <1>2 DEF FiniteInv, PoolInv
  <1>5. FdsOwned /\ HandledStayOpen
    BY DEF FdsOwned, HandledStayOpen, MainHolds, Unhandled, InPool, Pool!Waiting
  <1> QED
    BY <1>3, <1>4, <1>5 DEF IInv

(* The pool counts as the server does.                                     *)
LEMMA SameCardinality == ASSUME NEW S PROVE Pool!Cardinality(S) = Cardinality(S)
  BY DEF Pool!Cardinality, Cardinality

(* The waiting tasks when one is appended and when one is taken.           *)
LEMMA AppendElements ==
  ASSUME NEW S, NEW s \in Seq(S), NEW x \in S
  PROVE  {Append(s, x)[i] : i \in DOMAIN Append(s, x)} = {s[i] : i \in DOMAIN s} \cup {x}
  <1> DEFINE q == Append(s, x)
  <1>1. /\ Len(s) \in Nat
        /\ DOMAIN s = 1 .. Len(s) /\ DOMAIN q = 1 .. Len(s) + 1
        /\ \A i \in 1 .. Len(s) : q[i] = s[i]
        /\ q[Len(s) + 1] = x
    OBVIOUS
  <1> HIDE DEF q
  <1>2. {q[i] : i \in DOMAIN q} = {s[i] : i \in DOMAIN s} \cup {x}
    BY <1>1
  <1> QED
    BY <1>2 DEF q

LEMMA TailElements ==
  ASSUME NEW S, NEW s \in Seq(S), s # <<>>
  PROVE  /\ Head(s) \in S /\ Tail(s) \in Seq(S) /\ Len(Tail(s)) = Len(s) - 1
         /\ {s[i] : i \in DOMAIN s} = {Tail(s)[i] : i \in DOMAIN Tail(s)} \cup {Head(s)}
  <1>1. /\ Head(s) \in S /\ Tail(s) \in Seq(S) /\ Len(Tail(s)) = Len(s) - 1
        /\ Head(s) = s[1] /\ Len(s) \in Nat \ {0}
        /\ \A i \in 1 .. Len(s) - 1 : Tail(s)[i] = s[i + 1]
    OBVIOUS
  <1>2. DOMAIN s = 1 .. Len(s) /\ DOMAIN Tail(s) = 1 .. Len(s) - 1
    BY <1>1
  <1>3. ASSUME NEW i \in DOMAIN s
        PROVE  s[i] \in {Tail(s)[j] : j \in DOMAIN Tail(s)} \cup {Head(s)}
    <2>1. CASE i = 1
      BY <1>1, <2>1
    <2>2. CASE i # 1
      <3>1. i - 1 \in DOMAIN Tail(s) /\ Tail(s)[i - 1] = s[i]
        BY <1>1, <1>2, <2>2
      <3> QED
        BY <3>1
    <2> QED
      BY <2>1, <2>2
  <1>4. ASSUME NEW j \in DOMAIN Tail(s) PROVE Tail(s)[j] \in {s[i] : i \in DOMAIN s}
    <2>1. j + 1 \in DOMAIN s /\ s[j + 1] = Tail(s)[j]
      BY <1>1, <1>2
    <2> QED
      BY <2>1
  <1>5. Head(s) \in {s[i] : i \in DOMAIN s}
    BY <1>1, <1>2
  <1> QED
    BY <1>1, <1>3, <1>4, <1>5

LEMMA NextIInv == IInv /\ [Next]_vars => IInv'
  <1> SUFFICES ASSUME IInv, [Next]_vars PROVE IInv'
    OBVIOUS
  <1> USE ServerAssumption
          DEF IInv, TypeOK, MainPC, FiniteInv, PoolInv, FdsOwned, HandledStayOpen,
              MainHolds, InPool, Go, Step, rest, poolVars
  <1>0. Cardinality(pending) \in Nat /\ Cardinality(fds) \in Nat /\ Cardinality(running) \in Nat
    BY FS_CardinalityType
  <1>00. poolVars' = poolVars => Unhandled' = Unhandled /\ InPool' = InPool
    BY DEF Unhandled, Pool!Waiting
  <1>1. ASSUME NEW c \in Clients, Connect(c) PROVE IInv'
    <2>1. /\ c \notin pending /\ c \notin fds
          /\ pending' = pending \cup {c}
          /\ UNCHANGED <<main, workers, conn, fds, gone, poolVars>>
      BY <1>1 DEF Connect, Arrived
    <2>2. IsFiniteSet(pending') /\ Cardinality(pending') = Cardinality(pending) + 1
      BY <2>1, FS_AddElement
    <2>3. Cardinality(pending') <= MaxPending
      BY <1>0, <1>1, <2>2 DEF Connect
    <2> QED
      BY <1>00, <2>1, <2>2, <2>3
  <1>2. ASSUME NEW c \in Clients, GiveUp(c) PROVE IInv'
    <2>1. /\ c \in pending /\ pending' = pending \ {c} /\ gone' = gone \cup {c}
          /\ UNCHANGED <<main, workers, conn, fds, poolVars>>
      BY <1>2 DEF GiveUp
    <2>2. IsFiniteSet(pending') /\ Cardinality(pending') = Cardinality(pending) - 1
      BY <2>1, FS_RemoveElement
    <2> QED
      BY <1>0, <1>00, <2>1, <2>2
  <1>3. ASSUME CreatePool PROVE IInv'
    <2>1. /\ main = "start" /\ main' = "listen" /\ workers' \in 0 .. PoolSize
          /\ workers = 0
          /\ UNCHANGED <<pending, conn, fds, gone, waiting, running, done, closed>>
      BY <1>3 DEF CreatePool
    <2>2. PoolInv'
      <3>1. workers' >= 0 /\ running' = running /\ Cardinality(running) <= 0
        BY <2>1
      <3> QED
        BY <1>0, <2>1, <3>1
    <2>3. TypeOK' /\ FiniteInv'
      BY <2>1
    <2>4. FdsOwned' /\ HandledStayOpen'
      BY <1>00, <2>1
    <2> QED
      BY <2>2, <2>3, <2>4
  <1>4. ASSUME StartFails \/ Start \/ Select \/ SelectInterrupted \/ AcceptFails
        PROVE  IInv'
    BY <1>4, <1>00 DEF StartFails, Start, Select, SelectInterrupted, AcceptFails,
                       AfterNoConnection
  <1>5. ASSUME AcceptConn PROVE IInv'
    <2>1. PICK c \in pending : /\ conn' = c /\ pending' = pending \ {c}
                               /\ fds' = fds \cup {c}
      BY <1>5 DEF AcceptConn
    <2>2. IsFiniteSet(pending') /\ Cardinality(pending') = Cardinality(pending) - 1
      BY <2>1, FS_RemoveElement
    <2>3. IsFiniteSet(fds') /\ Cardinality(fds') = Cardinality(fds) + 1
      BY <2>1, FS_AddElement
    <2>4. Cardinality(fds') <= MaxFds
      BY <1>0, <1>5, <2>3 DEF AcceptConn
    <2>5. /\ main = "accept" /\ main' = "setup"
          /\ UNCHANGED <<workers, gone, poolVars>> /\ conn = NoClient
      BY <1>5 DEF AcceptConn
    <2>6. FdsOwned'
      BY <1>00, <2>1, <2>5
    <2> QED
      BY <1>0, <2>1, <2>2, <2>3, <2>4, <2>5, <2>6
  <1>6. ASSUME SetupFails PROVE IInv'
    <2>1. /\ main = "setup" /\ main' = "select" /\ fds' = fds \ {conn}
          /\ gone' = gone \cup {conn} /\ conn' = NoClient
          /\ UNCHANGED <<workers, pending, poolVars>>
      BY <1>6 DEF SetupFails, ClosedOnFailure, AfterFailure
    <2>2. IsFiniteSet(fds') /\ Cardinality(fds') <= Cardinality(fds)
      <3>1. fds' \in SUBSET fds
        BY <2>1
      <3> QED
        BY <3>1, FS_Subset
    <2>3. Cardinality(fds') \in Nat
      BY <2>2, FS_CardinalityType
    <2>4. FdsOwned'
      BY <1>00, <2>1
    <2> QED
      BY <1>0, <2>1, <2>2, <2>3, <2>4
  <1>7. ASSUME Setup PROVE IInv'
    BY <1>7, <1>00 DEF Setup
  <1>8. ASSUME Submit PROVE IInv'
    <2>1. /\ main = "submit" /\ main' = "select" /\ conn' = NoClient
          /\ Len(waiting) < MaxTasks /\ waiting' = Append(waiting, conn)
          /\ UNCHANGED <<workers, pending, fds, gone, running, done, closed>>
      BY <1>8 DEF Submit, Pool!Accept, Pool!Room
    <2>2. conn \in Clients
      BY <2>1
    <2>3. waiting' \in Seq(Clients) /\ Len(waiting') = Len(waiting) + 1
      BY <2>1, <2>2
    <2>4. Unhandled' = Unhandled \cup {conn}
      BY <2>1, <2>2, AppendElements DEF Unhandled, Pool!Waiting
    <2>5. FdsOwned'
      <3>1. NoClient \notin fds
        OBVIOUS
      <3> QED
        BY <2>1, <2>2, <2>4, <3>1
    <2>6. TypeOK' /\ FiniteInv'
      BY <2>1, <2>3
    <2>7. PoolInv'
      BY <2>1, <2>3
    <2> QED
      BY <2>1, <2>5, <2>6, <2>7
  <1>9. ASSUME StartTask PROVE IInv'
    <2>1. /\ waiting # <<>> /\ Cardinality(running) < workers
          /\ running' = running \cup {Head(waiting)} /\ waiting' = Tail(waiting)
          /\ UNCHANGED <<main, workers, pending, conn, fds, gone, done, closed>>
      BY <1>9, SameCardinality DEF StartTask, Pool!Start
    <2>2. /\ Head(waiting) \in Clients /\ waiting' \in Seq(Clients)
          /\ Len(waiting') = Len(waiting) - 1 /\ Pool!Waiting = Pool!Waiting' \cup {Head(waiting)}
      <3> DEFINE q == Tail(waiting)
      <3>1. /\ Head(waiting) \in Clients /\ q \in Seq(Clients)
            /\ Len(q) = Len(waiting) - 1
            /\ {waiting[i] : i \in DOMAIN waiting} = {q[i] : i \in DOMAIN q} \cup {Head(waiting)}
        BY <2>1, TailElements
      <3>2. waiting' = q
        BY <2>1
      <3> HIDE DEF q
      <3> QED
        BY <3>1, <3>2 DEF Pool!Waiting
    <2>3. IsFiniteSet(running') /\ Cardinality(running') <= Cardinality(running) + 1
      <3>1. /\ IsFiniteSet(running \cup {Head(waiting)})
            /\ Cardinality(running \cup {Head(waiting)})
                 = IF Head(waiting) \in running THEN Cardinality(running)
                   ELSE Cardinality(running) + 1
        BY FS_AddElement
      <3> QED
        BY <1>0, <2>1, <3>1
    <2>4. Cardinality(running') \in Nat
      BY <2>3, FS_CardinalityType
    <2>5. Unhandled' = Unhandled
      BY <2>1, <2>2 DEF Unhandled
    <2>6. TypeOK' /\ FiniteInv' /\ FdsOwned'
      BY <2>1, <2>2, <2>3, <2>5
    <2>7. PoolInv'
      BY <1>0, <2>1, <2>2, <2>3, <2>4
    <2> QED
      BY <2>1, <2>6, <2>7
  <1>10. ASSUME NEW c \in Clients, HandleClient(c) PROVE IInv'
    <2>1. /\ c \in running /\ running' = running \ {c} /\ done' = done \cup {c}
          /\ UNCHANGED <<main, workers, pending, conn, fds, gone, waiting, closed>>
      BY <1>10 DEF HandleClient, Pool!Finish
    <2>2. IsFiniteSet(running') /\ Cardinality(running') = Cardinality(running) - 1
      BY <2>1, FS_RemoveElement
    <2>3. /\ Unhandled' \subseteq Unhandled /\ Unhandled = Unhandled' \cup {c}
          /\ c \in fds
      BY <2>1 DEF Unhandled, Pool!Waiting
    <2> QED
      BY <1>0, <2>1, <2>2, <2>3
  <1>11. CASE UNCHANGED vars
    BY <1>11, <1>00 DEF vars
  <1> QED
    BY <1>1, <1>2, <1>3, <1>4, <1>5, <1>6, <1>7, <1>8, <1>9, <1>10, <1>11
       DEF Next, Main, Terminated

(* The accepted connections that were not handled are the waiting ones,    *)
(* the running ones and the one main holds.                                *)
LEMMA BoundFollows == IInv => BackPressure
  <1> SUFFICES ASSUME IInv PROVE BackPressure
    OBVIOUS
  <1> USE ServerAssumption DEF IInv, TypeOK, FiniteInv, PoolInv, FdsOwned, MainHolds,
                           InPool, Unhandled
  <1>1. waiting \in Surjection(1 .. Len(waiting), Pool!Waiting)
    BY DEF Surjection, Pool!Waiting
  <1>2. IsFiniteSet(1 .. Len(waiting)) /\ Cardinality(1 .. Len(waiting)) = Len(waiting)
    <2>1. PICK n \in Nat : n = Len(waiting)
      OBVIOUS
    <2>2. IsFiniteSet(1 .. n) /\ Cardinality(1 .. n) = n
      <3>1. IsFiniteSet(1 .. n) /\ Cardinality(1 .. n) = IF 1 > n THEN 0 ELSE n - 1 + 1
        BY FS_Interval
      <3> QED
        BY <3>1
    <2> QED
      BY <2>1, <2>2
  <1>3. IsFiniteSet(Pool!Waiting) /\ Cardinality(Pool!Waiting) <= Len(waiting)
    BY <1>1, <1>2, FS_Surjection
  <1> DEFINE W == Pool!Waiting
             U == W \cup running
             V == U \cup {conn}
  <1>4. IsFiniteSet(U) /\ Cardinality(U) = Cardinality(W) + Cardinality(running) - Cardinality(W \cap running)
    BY <1>3, FS_Union
  <1>5. IsFiniteSet(W \cap running)
    BY <1>3, FS_Subset
  <1>6. Cardinality(W) \in Nat /\ Cardinality(running) \in Nat /\ Cardinality(W \cap running) \in Nat
        /\ Cardinality(U) \in Nat
    BY <1>3, <1>4, <1>5, FS_CardinalityType
  <1>7. IsFiniteSet(V) /\ Cardinality(V) <= Cardinality(U) + 1
    <2>1. /\ IsFiniteSet(V)
          /\ Cardinality(V) = IF conn \in U THEN Cardinality(U) ELSE Cardinality(U) + 1
      <3> HIDE DEF U
      <3> QED
        BY <1>4, FS_AddElement
    <2> QED
      BY <1>6, <2>1
  <1>8. fds \ done \in SUBSET V
    OBVIOUS
  <1>9. Cardinality(fds \ done) <= Cardinality(V) /\ IsFiniteSet(fds \ done)
    BY <1>7, <1>8, FS_Subset
  <1>10. Cardinality(V) \in Nat /\ Cardinality(fds \ done) \in Nat
    BY <1>7, <1>9, FS_CardinalityType
  <1> HIDE DEF W, U, V
  <1>11. Cardinality(fds \ done) <= Len(waiting) + Cardinality(running) + 1
    BY <1>3, <1>4, <1>6, <1>7, <1>9, <1>10 DEF W
  <1>12. Len(waiting) \in Nat
    OBVIOUS
  <1>13. Cardinality(fds \ done) <= MaxTasks + workers + 1
    BY <1>6, <1>10, <1>11, <1>12
  <1> QED
    BY <1>13 DEF BackPressure

(* The variables of the server keep their types: the process never opens   *)
(* more files than it may.                                                 *)
THEOREM TypeCorrect == Spec => []TypeOK
  <1>1. IInv => TypeOK
    BY DEF IInv
  <1> QED
    BY InitIInv, NextIInv, <1>1, PTL DEF Spec

(* Every open descriptor belongs to main or to a task of the pool, and no  *)
(* connection is closed before it was handled, for any number of           *)
(* connections and any bounds (lines 198-216 of pthreads10.c).             *)
THEOREM DescriptorsOwned == Spec => []FdsOwned
  <1>1. IInv => FdsOwned
    BY DEF IInv
  <1> QED
    BY InitIInv, NextIInv, <1>1, PTL DEF Spec

(* No handled connection is ever closed, although the comment of           *)
(* handle_client says that it closes it (line 128 of pthreads10.c): its    *)
(* body is empty, and nothing else has the descriptor.                     *)
THEOREM NeverClosed == Spec => []HandledStayOpen
  <1>1. IInv => HandledStayOpen
    BY DEF IInv
  <1> QED
    BY InitIInv, NextIInv, <1>1, PTL DEF Spec

(* However many clients connect, at most MaxTasks accepted connections,    *)
(* one more for every worker there is and one more in the hands of main    *)
(* wait to be handled.                                                     *)
THEOREM ConnectionsBounded == Spec => []BackPressure
  <1> QED
    BY InitIInv, NextIInv, BoundFollows, PTL DEF Spec
=============================================================================
