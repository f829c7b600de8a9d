-------------------------- MODULE RingMonitor_proofs -------------------------
(* Lemmas about the ring and the signals, for any number of threads and    *)
(* any capacity; the proofs about the two pools cite them.                 *)
EXTENDS RingMonitor, Sequences, FiniteSetTheorems, SequenceTheorems, TLAPS

(* Remainders of the numbers the ring computes with: all are below twice   *)
(* the capacity.                                                           *)
LEMMA ModOnce ==
  ASSUME NEW x \in 0 .. 2 * Capacity - 1
  PROVE  x % Capacity = IF x < Capacity THEN x ELSE x - Capacity
  BY CapacityAssumption

(* Advancing an index keeps it in the array.                               *)
LEMMA AdvanceInSlots ==
  ASSUME NEW i \in Slots
  PROVE  /\ Advance(i) \in Slots
         /\ Advance(i) = IF i + 1 = Capacity THEN 0 ELSE i + 1
  BY CapacityAssumption, ModOnce DEF Advance, Slots

(* The slot n places after an index, and after the next index.             *)
LEMMA AdvanceAdd ==
  ASSUME NEW i \in Slots, NEW n \in 1 .. Capacity
  PROVE  (Advance(i) + (n - 1)) % Capacity = (i + n) % Capacity
  <1> DEFINE x == i + n
             y == Advance(i) + (n - 1)
  <1>1. /\ i \in 0 .. Capacity - 1
        /\ Capacity \in Nat \ {0}
        /\ Advance(i) = IF i + 1 = Capacity THEN 0 ELSE i + 1
    BY CapacityAssumption, AdvanceInSlots DEF Slots
  <1>2. x \in 0 .. 2 * Capacity - 1 /\ y \in 0 .. 2 * Capacity - 1
    BY <1>1
  <1>3. x \in 0 .. Capacity - 1 => y = x
    BY <1>1
  <1>4. x \notin 0 .. Capacity - 1 => y = x \/ y = x - Capacity
    BY <1>1
  <1> HIDE DEF x, y
  <1>5. x % Capacity = IF x < Capacity THEN x ELSE x - Capacity
    BY <1>2, ModOnce
  <1>6. y % Capacity = IF y < Capacity THEN y ELSE y - Capacity
    BY <1>2, ModOnce
  <1>7. y % Capacity = x % Capacity
    BY <1>1, <1>2, <1>3, <1>4, <1>5, <1>6
  <1> QED
    BY <1>7 DEF x, y

LEMMA AddAdvance ==
  ASSUME NEW i \in Slots, NEW n \in 0 .. Capacity - 1
  PROVE  Advance((i + n) % Capacity) = (i + (n + 1)) % Capacity
  <1> DEFINE x == i + n
             y == i + (n + 1)
             z == x % Capacity
  <1>1. /\ i \in 0 .. Capacity - 1
        /\ Capacity \in Nat \ {0}
    BY CapacityAssumption DEF Slots
  <1>2. /\ x \in 0 .. 2 * Capacity - 2
        /\ y \in 0 .. 2 * Capacity - 1
        /\ y = x + 1
    BY <1>1
  <1> HIDE DEF x, y
  <1>3. z = IF x < Capacity THEN x ELSE x - Capacity
    BY <1>1, <1>2, ModOnce
  <1>4. y % Capacity = IF y < Capacity THEN y ELSE y - Capacity
    BY <1>2, ModOnce
  <1> HIDE DEF z
  <1>5. z \in Slots
    BY <1>1, <1>2, <1>3 DEF Slots
  <1>6. Advance(z) = IF z + 1 = Capacity THEN 0 ELSE z + 1
    BY <1>5, AdvanceInSlots
  <1>7. Advance(z) = y % Capacity
    BY <1>1, <1>2, <1>3, <1>4, <1>6
  <1> QED
    BY <1>7 DEF x, y, z

(* A signal changes at most the program counter of one sleeper.            *)
LEMMA SignalledCases ==
  ASSUME NEW p, NEW S, NEW q \in Signalled(p, S)
  PROVE  q = p \/ \E t \in S : pc[t] = "asleep" /\ q = [p EXCEPT ![t] = "lock"]
  BY DEF Signalled, Asleep

(* A signal leaves alone every thread that is not asleep.                  *)
LEMMA SignalKeeps ==
  ASSUME NEW p, DOMAIN p = Threads, NEW S, NEW q \in Signalled(p, S),
         NEW u \in Threads, pc[u] # "asleep"
  PROVE  q[u] = p[u]
  <1>1. q = p \/ \E t \in S : pc[t] = "asleep" /\ q = [p EXCEPT ![t] = "lock"]
    BY SignalledCases
  <1> QED
    BY <1>1
(* While somebody sleeps, a signal does wake one thread.                   *)
LEMMA SignalWakes ==
  ASSUME NEW p, NEW S, NEW q \in Signalled(p, S)
  PROVE  IF Asleep(S) = {}
         THEN q = p
         ELSE \E t \in S : pc[t] = "asleep" /\ q = [p EXCEPT ![t] = "lock"]
  BY DEF Signalled, Asleep

-----------------------------------------------------------------------------
(* The ring as a sequence: Contents(n) is Ring(slots, head, n).            *)
Ring(sl, h, n) == [i \in 1 .. n |-> sl[(h + i - 1) % Capacity]]
Content == Tasks \cup {NoTask}

(* The positions of a ring that is not overfull are different slots.       *)
LEMMA SlotsDiffer ==
  ASSUME NEW h \in Slots, NEW i \in 1 .. Capacity, NEW j \in 1 .. Capacity
  PROVE  /\ (h + i - 1) % Capacity \in Slots
         /\ (h + i - 1) % Capacity = (h + j - 1) % Capacity => i = j
  <1> DEFINE x == h + i - 1
             y == h + j - 1
  <1>1. Capacity \in Nat \ {0} /\ h \in 0 .. Capacity - 1
    BY CapacityAssumption DEF Slots
  <1>2. /\ x \in 0 .. 2 * Capacity - 1 /\ y \in 0 .. 2 * Capacity - 1
        /\ x - y \in -(Capacity - 1) .. Capacity - 1
        /\ x = y => i = j
    BY <1>1
  <1> HIDE DEF x, y
  <1>3. /\ x % Capacity = IF x < Capacity THEN x ELSE x - Capacity
        /\ y % Capacity = IF y < Capacity THEN y ELSE y - Capacity
    BY <1>2, ModOnce
  <1>4. x % Capacity \in Slots /\ (x % Capacity = y % Capacity => i = j)
    BY <1>1, <1>2, <1>3 DEF Slots
  <1> QED
    BY <1>4 DEF x, y

LEMMA RingType ==
  ASSUME NEW sl \in [Slots -> Content], NEW h \in Slots, NEW n \in 0 .. Capacity
  PROVE  /\ Ring(sl, h, n) \in Seq(Content)
         /\ Len(Ring(sl, h, n)) = n
         /\ \A i \in 1 .. n : Ring(sl, h, n)[i] = sl[(h + i - 1) % Capacity]
  <1>1. n \in Nat /\ Capacity \in Nat
    BY CapacityAssumption
  <1>2. \A i \in 1 .. n : sl[(h + i - 1) % Capacity] \in Content
    BY <1>1, SlotsDiffer
  <1>3. Ring(sl, h, n) \in [1 .. n -> Content]
    BY <1>2 DEF Ring
  <1>4. Ring(sl, h, n) \in Seq(Content) /\ Len(Ring(sl, h, n)) = n
    BY <1>1, <1>3
  <1> QED
    BY <1>4 DEF Ring

(* Filling the slot after the last leaves the contents alone; counting it  *)
(* appends what it holds.                                                  *)
LEMMA RingStore ==
  ASSUME NEW sl \in [Slots -> Content], NEW h \in Slots, NEW n \in 0 .. Capacity - 1,
         NEW t
  PROVE  Ring([sl EXCEPT ![(h + n) % Capacity] = t], h, n) = Ring(sl, h, n)
  <1>1. /\ Capacity \in Nat \ {0} /\ n + 1 \in 1 .. Capacity /\ n \in Nat
        /\ h \in Int /\ h + (n + 1) - 1 = h + n
    BY CapacityAssumption DEF Slots
  <1>2. ASSUME NEW i \in 1 .. n
        PROVE  /\ (h + i - 1) % Capacity \in Slots
               /\ (h + i - 1) % Capacity # (h + n) % Capacity
    <2>1. i \in 1 .. Capacity /\ i # n + 1
      BY <1>1
    <2> QED
      BY <1>1, <2>1, SlotsDiffer
  <1>3. \A i \in 1 .. n : [sl EXCEPT ![(h + n) % Capacity] = t][(h + i - 1) % Capacity]
                            = sl[(h + i - 1) % Capacity]
    BY <1>2
  <1> QED
    BY <1>3 DEF Ring

LEMMA RingAppend ==
  ASSUME NEW sl \in [Slots -> Content], NEW h \in Slots, NEW n \in 0 .. Capacity - 1
  PROVE  Ring(sl, h, n + 1) = Append(Ring(sl, h, n), sl[(h + n) % Capacity])
  <1> DEFINE q == Ring(sl, h, n)
             r == Ring(sl, h, n + 1)
             t == sl[(h + n) % Capacity]
  <1>1. /\ Capacity \in Nat \ {0} /\ n \in Nat /\ n + 1 \in 0 .. Capacity /\ n \in 0 .. Capacity
        /\ h \in Int /\ h + (n + 1) - 1 = h + n
    BY CapacityAssumption DEF Slots
  <1>2. /\ q \in Seq(Content) /\ Len(q) = n
        /\ \A i \in 1 .. n : q[i] = sl[(h + i - 1) % Capacity]
    BY <1>1, RingType
  <1>3. /\ r \in Seq(Content) /\ Len(r) = n + 1
        /\ \A i \in 1 .. n + 1 : r[i] = sl[(h + i - 1) % Capacity]
    BY <1>1, RingType
  <1>4. r[n + 1] = t
    BY <1>1, <1>3
  <1>5. t \in Content
    BY <1>1, <1>3, <1>4
  <1> HIDE DEF q, r, t
  <1>6. Append(q, t) \in Seq(Content) /\ Len(Append(q, t)) = n + 1
    BY <1>2, <1>5
  <1>7. \A i \in 1 .. n + 1 : r[i] = Append(q, t)[i]
    BY <1>1, <1>2, <1>3, <1>4, <1>5
  <1>8. r = Append(q, t)
    BY <1>3, <1>6, <1>7, SeqEqual
  <1> QED
    BY <1>8 DEF q, r, t

(* Advancing the head takes the oldest task.                               *)
LEMMA RingTail ==
  ASSUME NEW sl \in [Slots -> Content], NEW h \in Slots, NEW n \in 1 .. Capacity
  PROVE  /\ Ring(sl, h, n) # <<>>
         /\ Head(Ring(sl, h, n)) = sl[h]
         /\ Ring(sl, Advance(h), n - 1) = Tail(Ring(sl, h, n))
  <1> DEFINE q == Ring(sl, h, n)
             r == Ring(sl, Advance(h), n - 1)
  <1>1. /\ Capacity \in Nat \ {0} /\ n \in Nat \ {0} /\ n \in 0 .. Capacity
        /\ n - 1 \in 0 .. Capacity /\ n - 1 \in Nat
        /\ h \in Int /\ h + 1 - 1 = h /\ Advance(h) \in Slots
    BY CapacityAssumption, AdvanceInSlots DEF Slots
  <1>2. /\ q \in Seq(Content) /\ Len(q) = n
        /\ \A i \in 1 .. n : q[i] = sl[(h + i - 1) % Capacity]
    BY <1>1, RingType
  <1>3. /\ r \in Seq(Content) /\ Len(r) = n - 1
        /\ \A i \in 1 .. n - 1 : r[i] = sl[(Advance(h) + i - 1) % Capacity]
    BY <1>1, RingType
  <1>4. ASSUME NEW i \in 1 .. n - 1
        PROVE  (Advance(h) + i - 1) % Capacity = (h + (i + 1) - 1) % Capacity
    <2>1. i \in 1 .. Capacity
      BY <1>1
    <2>2. Advance(h) \in Int /\ Advance(h) + i - 1 = Advance(h) + (i - 1) /\ h + (i + 1) - 1 = h + i
      BY <1>1 DEF Slots
    <2> QED
      BY <2>1, <2>2, AdvanceAdd
  <1>5. h % Capacity = h
    <2>1. h \in 0 .. 2 * Capacity - 1 /\ h < Capacity
      BY <1>1 DEF Slots
    <2> QED
      BY <2>1, ModOnce
  <1>6. q[1] = sl[h]
    BY <1>1, <1>2, <1>5
  <1> HIDE DEF q, r
  <1>7. ASSUME NEW i \in 1 .. n - 1 PROVE r[i] = q[i + 1]
    <2>1. i + 1 \in 1 .. n
      BY <1>1
    <2> QED
      BY <2>1, <1>2, <1>3, <1>4
  <1>8. q # <<>> /\ Head(q) = q[1]
    BY <1>1, <1>2
  <1>9. /\ Tail(q) \in Seq(Content) /\ Len(Tail(q)) = n - 1
        /\ \A i \in 1 .. n - 1 : Tail(q)[i] = q[i + 1]
    BY <1>1, <1>2, <1>8, HeadTailProperties
  <1>10. r = Tail(q)
    BY <1>3, <1>7, <1>9, SeqEqual
  <1> QED
    BY <1>6, <1>8, <1>10 DEF q, r

-----------------------------------------------------------------------------
(* Where the tasks are. The tasks in phase p are exactly the values of g   *)
(* on D, each the value of one argument only.                              *)
Exact(g, D, f, p) == /\ \A x \in D : g[x] \in Tasks /\ f[g[x]] = p
                     /\ \A t \in Tasks : f[t] = p => \E x \in D : g[x] = t
                     /\ \A x, y \in D : g[x] = g[y] => x = y

Holding(a, S) == {t \in S : a[t] # NoTask}

(* With the queue q, the arguments a and the fates f every task is in the  *)
(* one place its fate names. This is the inductive form of Conserved.      *)
Placed(q, a, f) == /\ Exact(q, 1 .. Len(q), f, "queued")
                   /\ Exact(a, Holding(a, Workers), f, "running")
                   /\ Exact(a, Holding(a, Callers), f, "passed")

(* Counting the places is counting the tasks.                              *)
LEMMA ExactCount ==
  ASSUME NEW g, NEW D, NEW f, NEW p, Exact(g, D, f, p), IsFiniteSet(D),
         NEW T, T = {t \in Tasks : f[t] = p}
  PROVE  /\ IsFiniteSet(T)
         /\ Cardinality(T) = Cardinality(D)
  <1> DEFINE b == [x \in D |-> g[x]]
  <1>1. b \in Bijection(D, T)
    BY DEF Exact, Bijection, Injection, Surjection, IsInjective
  <1>2. ExistsBijection(D, T)
    BY <1>1 DEF ExistsBijection
  <1> QED
    BY <1>2, FS_Bijection

(* A task that changes between two other phases.                           *)
LEMMA ExactKept ==
  ASSUME NEW g, NEW h, NEW D, NEW f, NEW p, Exact(g, D, f, p),
         f \in [Tasks -> Fates], NEW t \in Tasks, NEW r, f[t] # p, r # p,
         \A x \in D : h[x] = g[x]
  PROVE  Exact(h, D, [f EXCEPT ![t] = r], p)
  BY DEF Exact

(* A task that enters the phase, in a new place.                           *)
LEMMA ExactGains ==
  ASSUME NEW g, NEW h, NEW D, NEW f, NEW p, Exact(g, D, f, p),
         f \in [Tasks -> Fates], NEW t \in Tasks, f[t] # p,
         NEW y, y \notin D, h[y] = t,
         \A x \in D : h[x] = g[x]
  PROVE  Exact(h, D \cup {y}, [f EXCEPT ![t] = p], p)
  BY DEF Exact

(* The task that leaves the phase leaves its place.                        *)
LEMMA ExactLoses ==
  ASSUME NEW g, NEW h, NEW D, NEW f, NEW p, Exact(g, D, f, p),
         f \in [Tasks -> Fates], NEW y \in D, NEW r, r # p,
         \A x \in D \ {y} : h[x] = g[x]
  PROVE  Exact(h, D \ {y}, [f EXCEPT ![g[y]] = r], p)
  BY DEF Exact
(* The moves of a task: passed to submit, ...                              *)
LEMMA PlacedCall ==
  ASSUME NEW q \in Seq(Content), NEW a \in [Threads -> Content],
         NEW f \in [Tasks -> Fates], Placed(q, a, f),
         NEW s \in Callers, NEW t \in Tasks, a[s] = NoTask, f[t] = "fresh"
  PROVE  Placed(q, [a EXCEPT ![s] = t], [f EXCEPT ![t] = "passed"])
  <1> DEFINE b == [a EXCEPT ![s] = t]
             e == [f EXCEPT ![t] = "passed"]
  <1>1. /\ Workers \in SUBSET Threads /\ Callers \in SUBSET Threads
        /\ s \in Threads /\ s \notin Workers
    BY ThreadsAssumption DEF Threads
  <1>b. b = [a EXCEPT ![s] = t]
    OBVIOUS
  <1> HIDE DEF b
  <1>2. /\ Holding(b, Callers) = Holding(a, Callers) \cup {s}
        /\ Holding(b, Workers) = Holding(a, Workers)
    BY <1>1, <1>b, TasksAssumption DEF Holding
  <1>3. /\ b[s] = t /\ s \notin Holding(a, Callers) /\ s \notin Holding(a, Workers)
        /\ (\A u \in Holding(a, Callers) \cup Holding(a, Workers) : u # s => b[u] = a[u])
    BY <1>1, <1>b DEF Holding
  <1>4. Exact(q, 1 .. Len(q), e, "queued")
    BY ExactKept DEF Placed
  <1>5. Exact(b, Holding(a, Workers), e, "running")
    <2>1. Exact(a, Holding(a, Workers), f, "running") /\ \A u \in Holding(a, Workers) : b[u] = a[u]
      BY <1>3 DEF Placed
    <2> QED
      BY <2>1, ExactKept
  <1>6. Exact(b, Holding(a, Callers) \cup {s}, e, "passed")
    <2>1. Exact(a, Holding(a, Callers), f, "passed") /\ \A u \in Holding(a, Callers) : b[u] = a[u]
      BY <1>3 DEF Placed
    <2> QED
      BY <1>3, <2>1, ExactGains
  <1> QED
    BY <1>2, <1>4, <1>5, <1>6 DEF Placed, b

(* ... refused ...                                                         *)
LEMMA PlacedRefuse ==
  ASSUME NEW q \in Seq(Content), NEW a \in [Threads -> Content],
         NEW f \in [Tasks -> Fates], Placed(q, a, f),
         NEW s \in Callers, a[s] # NoTask
  PROVE  /\ a[s] \in Tasks /\ f[a[s]] = "passed"
         /\ Placed(q, [a EXCEPT ![s] = NoTask], [f EXCEPT ![a[s]] = "dropped"])
  <1> DEFINE b == [a EXCEPT ![s] = NoTask]
             e == [f EXCEPT ![a[s]] = "dropped"]
  <1>1. /\ Workers \in SUBSET Threads /\ Callers \in SUBSET Threads
        /\ s \in Threads /\ s \notin Workers
    BY ThreadsAssumption DEF Threads
  <1>b. b = [a EXCEPT ![s] = NoTask]
    OBVIOUS
  <1> HIDE DEF b
  <1>2. /\ Holding(b, Callers) = Holding(a, Callers) \ {s}
        /\ Holding(b, Workers) = Holding(a, Workers)
    BY <1>1, <1>b DEF Holding
  <1>3. /\ s \in Holding(a, Callers) /\ s \notin Holding(a, Workers)
        /\ (\A u \in Holding(a, Callers) \cup Holding(a, Workers) : u # s => b[u] = a[u])
    BY <1>1, <1>b DEF Holding
  <1>4. a[s] \in Tasks /\ f[a[s]] = "passed"
    BY <1>3 DEF Placed, Exact
  <1>5. Exact(q, 1 .. Len(q), e, "queued")
    BY <1>4, ExactKept DEF Placed
  <1>6. Exact(b, Holding(a, Workers), e, "running")
    BY <1>3, <1>4, ExactKept DEF Placed
  <1>7. Exact(b, Holding(a, Callers) \ {s}, e, "passed")
    BY <1>3, ExactLoses DEF Placed
  <1> QED
    BY <1>2, <1>4, <1>5, <1>6, <1>7 DEF Placed, b

(* ... or accepted, ...                                                    *)
LEMMA PlacedAccept ==
  ASSUME NEW q \in Seq(Content), NEW a \in [Threads -> Content],
         NEW f \in [Tasks -> Fates], Placed(q, a, f),
         NEW s \in Callers, a[s] # NoTask
  PROVE  /\ a[s] \in Tasks /\ f[a[s]] = "passed"
         /\ Placed(Append(q, a[s]), [a EXCEPT ![s] = NoTask], [f EXCEPT ![a[s]] = "queued"])
  <1> DEFINE b == [a EXCEPT ![s] = NoTask]
             e == [f EXCEPT ![a[s]] = "queued"]
             r == Append(q, a[s])
             n == Len(q)
  <1>1. /\ Workers \in SUBSET Threads /\ Callers \in SUBSET Threads
        /\ s \in Threads /\ s \notin Workers
    BY ThreadsAssumption DEF Threads
  <1>b. b = [a EXCEPT ![s] = NoTask]
    OBVIOUS
  <1> HIDE DEF b
  <1>2. /\ Holding(b, Callers) = Holding(a, Callers) \ {s}
        /\ Holding(b, Workers) = Holding(a, Workers)
    BY <1>1, <1>b DEF Holding
  <1>3. /\ s \in Holding(a, Callers) /\ s \notin Holding(a, Workers)
        /\ (\A u \in Holding(a, Callers) \cup Holding(a, Workers) : u # s => b[u] = a[u])
    BY <1>1, <1>b DEF Holding
  <1>4. a[s] \in Tasks /\ f[a[s]] = "passed"
    BY <1>3 DEF Placed, Exact
  <1>5. /\ n \in Nat /\ Len(r) = n + 1 /\ r[n + 1] = a[s]
        /\ \A i \in 1 .. n : r[i] = q[i]
    BY <1>1
  <1> HIDE DEF b, r, n
  <1>6. n + 1 \notin 1 .. n /\ 1 .. (n + 1) = (1 .. n) \cup {n + 1}
    BY <1>5
  <1>7. Exact(q, 1 .. n, f, "queued")
    BY DEF Placed, n
  <1>8. Exact(r, (1 .. n) \cup {n + 1}, e, "queued")
    BY <1>4, <1>5, <1>6, <1>7, ExactGains
  <1>9. Exact(b, Holding(a, Workers), e, "running")
    BY <1>3, <1>4, ExactKept DEF Placed
  <1>10. Exact(b, Holding(a, Callers) \ {s}, e, "passed")
    BY <1>3, ExactLoses DEF Placed
  <1>11. Exact(r, 1 .. Len(r), e, "queued")
    BY <1>5, <1>6, <1>8
  <1> QED
    BY <1>2, <1>4, <1>9, <1>10, <1>11 DEF Placed, b, r

(* ... started in the order of acceptance ...                              *)
LEMMA PlacedStart ==
  ASSUME NEW q \in Seq(Content), NEW a \in [Threads -> Content],
         NEW f \in [Tasks -> Fates], Placed(q, a, f),
         NEW w \in Workers, a[w] = NoTask, q # <<>>
  PROVE  /\ Head(q) \in Tasks /\ f[Head(q)] = "queued"
         /\ Placed(Tail(q), [a EXCEPT ![w] = Head(q)], [f EXCEPT ![Head(q)] = "running"])
  <1> DEFINE t == Head(q)
             b == [a EXCEPT ![w] = t]
             e == [f EXCEPT ![t] = "running"]
             r == Tail(q)
             n == Len(q)
  <1>1. /\ Workers \in SUBSET Threads /\ Callers \in SUBSET Threads
        /\ w \in Threads /\ w \notin Callers
    BY ThreadsAssumption DEF Threads
  <1>2. n \in Nat \ {0} /\ t = q[1]
    OBVIOUS
  <1>3. Len(r) = n - 1 /\ \A i \in 1 .. n - 1 : r[i] = q[i + 1]
    BY HeadTailProperties
  <1>4. Exact(q, 1 .. n, f, "queued")
    BY DEF Placed
  <1> HIDE DEF n, r
  <1>5. 1 \in 1 .. n
    BY <1>2
  <1>6. t \in Tasks /\ f[t] = "queued"
    BY <1>2, <1>4, <1>5 DEF Exact
  <1> HIDE DEF t
  <1>b. b = [a EXCEPT ![w] = t]
    OBVIOUS
  <1> HIDE DEF b
  <1>7. /\ Holding(b, Workers) = Holding(a, Workers) \cup {w}
        /\ Holding(b, Callers) = Holding(a, Callers)
    BY <1>1, <1>6, <1>b, TasksAssumption DEF Holding
  <1>8. /\ b[w] = t /\ w \notin Holding(a, Callers) /\ w \notin Holding(a, Workers)
        /\ (\A u \in Holding(a, Callers) \cup Holding(a, Workers) : u # w => b[u] = a[u])
    BY <1>1, <1>b DEF Holding
  <1>9. Exact(q, (1 .. n) \ {1}, e, "queued")
    BY <1>2, <1>4, <1>5, ExactLoses
  <1>10. Exact(r, 1 .. n - 1, e, "queued")
    <2>1. \A i \in 1 .. n - 1 : i + 1 \in (1 .. n) \ {1}
      BY <1>2
    <2>2. \A j \in (1 .. n) \ {1} : j - 1 \in 1 .. n - 1 /\ (j - 1) + 1 = j
      BY <1>2
    <2>3. \A i, j \in 1 .. n - 1 : i + 1 = j + 1 => i = j
      BY <1>2
    <2> HIDE DEF e
    <2>4. \A i \in 1 .. n - 1 : r[i] \in Tasks /\ e[r[i]] = "queued"
      BY <1>3, <1>9, <2>1 DEF Exact
    <2>5. \A x \in Tasks : e[x] = "queued" => \E i \in 1 .. n - 1 : r[i] = x
      <3> SUFFICES ASSUME NEW x \in Tasks, e[x] = "queued" PROVE \E i \in 1 .. n - 1 : r[i] = x
        OBVIOUS
      <3>1. PICK j \in (1 .. n) \ {1} : q[j] = x
        BY <1>9 DEF Exact
      <3>2. j - 1 \in 1 .. n - 1 /\ r[j - 1] = q[(j - 1) + 1]
        BY <1>3, <2>2
      <3> QED
        BY <2>2, <3>1, <3>2
    <2>6. ASSUME NEW i \in 1 .. n - 1, NEW j \in 1 .. n - 1, r[i] = r[j] PROVE i = j
      <3>1. q[i + 1] = q[j + 1]
        BY <1>3, <2>6
      <3>2. i + 1 = j + 1
        BY <1>9, <2>1, <3>1 DEF Exact
      <3> QED
        BY <2>3, <3>2
    <2> QED
      BY <2>4, <2>5, <2>6 DEF Exact
  <1>11. Exact(b, Holding(a, Workers) \cup {w}, e, "running")
    <2>1. Exact(a, Holding(a, Workers), f, "running") /\ \A u \in Holding(a, Workers) : b[u] = a[u]
      BY <1>8 DEF Placed
    <2> QED
      BY <1>6, <1>8, <2>1, ExactGains
  <1>12. Exact(b, Holding(a, Callers), e, "passed")
    <2>1. Exact(a, Holding(a, Callers), f, "passed") /\ \A u \in Holding(a, Callers) : b[u] = a[u]
      BY <1>8 DEF Placed
    <2> QED
      BY <1>6, <2>1, ExactKept
  <1> QED
    BY <1>3, <1>6, <1>7, <1>10, <1>11, <1>12 DEF Placed, b, r, t

(* ... and ended.                                                          *)
LEMMA PlacedFinish ==
  ASSUME NEW q \in Seq(Content), NEW a \in [Threads -> Content],
         NEW f \in [Tasks -> Fates], Placed(q, a, f),
         NEW w \in Workers, a[w] # NoTask
  PROVE  /\ a[w] \in Tasks /\ f[a[w]] = "running"
         /\ Placed(q, [a EXCEPT ![w] = NoTask], [f EXCEPT ![a[w]] = "done"])
  <1> DEFINE b == [a EXCEPT ![w] = NoTask]
             e == [f EXCEPT ![a[w]] = "done"]
  <1>1. /\ Workers \in SUBSET Threads /\ Callers \in SUBSET Threads
        /\ w \in Threads /\ w \notin Callers
    BY ThreadsAssumption DEF Threads
  <1>b. b = [a EXCEPT ![w] = NoTask]
    OBVIOUS
  <1> HIDE DEF b
  <1>2. /\ Holding(b, Workers) = Holding(a, Workers) \ {w}
        /\ Holding(b, Callers) = Holding(a, Callers)
    BY <1>1, <1>b DEF Holding
  <1>3. /\ w \in Holding(a, Workers) /\ w \notin Holding(a, Callers)
        /\ (\A u \in Holding(a, Callers) \cup Holding(a, Workers) : u # w => b[u] = a[u])
    BY <1>1, <1>b DEF Holding
  <1>4. a[w] \in Tasks /\ f[a[w]] = "running"
    BY <1>3 DEF Placed, Exact
  <1>5. Exact(q, 1 .. Len(q), e, "queued")
    BY <1>4, ExactKept DEF Placed
  <1>6. Exact(b, Holding(a, Workers) \ {w}, e, "running")
    BY <1>3, ExactLoses DEF Placed
  <1>7. Exact(b, Holding(a, Callers), e, "passed")
    BY <1>3, <1>4, ExactKept DEF Placed
  <1> QED
    BY <1>2, <1>4, <1>5, <1>6, <1>7 DEF Placed, b
(* At first every task is fresh and nobody holds anything.                 *)
LEMMA PlacedInit ==
  ASSUME NEW q \in Seq(Content), Len(q) = 0,
         NEW a, \A t \in Threads : a[t] = NoTask,
         NEW f, \A t \in Tasks : f[t] = "fresh"
  PROVE  Placed(q, a, f)
  <1>1. 1 .. Len(q) = {} /\ Holding(a, Workers) = {} /\ Holding(a, Callers) = {}
    BY DEF Holding, Threads
  <1> QED
    BY <1>1 DEF Placed, Exact

(* Counting it all gives the property the runs check.                      *)
LEMMA PlacedConserved ==
  ASSUME NEW n \in 0 .. Capacity, slots \in [Slots -> Content], head \in Slots,
         Placed(Contents(n), arg, fate)
  PROVE  Conserved(n)
  <1> DEFINE q == Contents(n)
  <1>1. n \in Nat /\ Len(q) = n
    BY RingType, CapacityAssumption DEF Contents, Ring
  <1>2. IsFiniteSet(1 .. n) /\ Cardinality(1 .. n) = n
    BY <1>1, FS_Interval
  <1>3. Holders(Workers) = Holding(arg, Workers) /\ Holders(Callers) = Holding(arg, Callers)
    BY DEF Holders, Holding
  <1>4. IsFiniteSet(Holders(Workers)) /\ IsFiniteSet(Holders(Callers))
    BY ThreadsAssumption, FS_Subset DEF Holders
  <1> HIDE DEF q
  <1>5. /\ Exact(q, 1 .. n, fate, "queued")
        /\ Exact(arg, Holders(Workers), fate, "running")
        /\ Exact(arg, Holders(Callers), fate, "passed")
    BY <1>1, <1>3 DEF Placed, q
  <1>6. /\ {q[i] : i \in 1 .. n} = With("queued")
        /\ Held(Workers) = With("running")
        /\ Held(Callers) = With("passed")
    BY <1>5 DEF Exact, With, Held
  <1>7. /\ With("queued") = {t \in Tasks : fate[t] = "queued"}
        /\ With("running") = {t \in Tasks : fate[t] = "running"}
        /\ With("passed") = {t \in Tasks : fate[t] = "passed"}
    BY DEF With
  <1>8. /\ Cardinality(With("queued")) = n
        /\ Cardinality(With("running")) = Cardinality(Holders(Workers))
        /\ Cardinality(With("passed")) = Cardinality(Holders(Callers))
    BY <1>2, <1>4, <1>5, <1>7, ExactCount
  <1> QED
    BY <1>6, <1>8 DEF Conserved, q

-----------------------------------------------------------------------------
(* Counting the threads on their way.                                      *)
LEMMA NoFewer ==
  ASSUME NEW B, IsFiniteSet(B), NEW A \in SUBSET B
  PROVE  /\ Cardinality(A) \in Nat /\ Cardinality(B) \in Nat
         /\ Cardinality(B) >= Cardinality(A)
  BY FS_Subset, FS_CardinalityType

LEMMA OneFewer ==
  ASSUME NEW A, NEW B, IsFiniteSet(B), NEW x, A \subseteq B \cup {x}
  PROVE  /\ Cardinality(A) \in Nat /\ Cardinality(B) \in Nat
         /\ Cardinality(B) >= Cardinality(A) - 1
  <1>0. /\ IsFiniteSet(B \cup {x})
        /\ Cardinality(B \cup {x}) = IF x \in B THEN Cardinality(B) ELSE Cardinality(B) + 1
    BY FS_AddElement
  <1>1. IsFiniteSet(B \cup {x}) /\ Cardinality(B \cup {x}) <= Cardinality(B) + 1
    BY <1>0, FS_CardinalityType
  <1>2. /\ Cardinality(A) \in Nat /\ Cardinality(B \cup {x}) >= Cardinality(A)
        /\ Cardinality(B \cup {x}) \in Nat
    BY <1>1, NoFewer
  <1> QED
    BY <1>1, <1>2, FS_CardinalityType

LEMMA OneMore ==
  ASSUME NEW A, NEW B, IsFiniteSet(B), NEW x \in B, x \notin A, A \subseteq B
  PROVE  /\ Cardinality(A) \in Nat /\ Cardinality(B) \in Nat
         /\ Cardinality(B) >= Cardinality(A) + 1
  <1>1. IsFiniteSet(A)
    BY FS_Subset
  <1>2. Cardinality(A \cup {x}) = Cardinality(A) + 1
    BY <1>1, FS_AddElement
  <1>3. A \cup {x} \in SUBSET B
    OBVIOUS
  <1> QED
    BY <1>2, <1>3, <1>1, NoFewer, FS_CardinalityType

(* While a thread of S sleeps, at least k others are on their way: what a  *)
(* step must do to the two sets to keep that for l of them.                *)
Served(S, k) == Asleep(S) # {} => Cardinality(Coming(S)) >= k

Calm(S) == Asleep(S)' \subseteq Asleep(S) /\ Coming(S) \subseteq Coming(S)'

LEMMA ServedNobody ==
  ASSUME NEW S, IsFiniteSet(S)
  PROVE  Served(S, 0)'
  <1> DEFINE B == Coming(S)'
  <1>1. B \in SUBSET S
    BY DEF Coming
  <1> HIDE DEF B
  <1>2. IsFiniteSet(B)
    BY <1>1, FS_Subset
  <1>3. Cardinality(B) \in Nat
    BY <1>2, FS_CardinalityType
  <1> QED
    BY <1>3 DEF Served, B

LEMMA ServedCalm ==
  ASSUME NEW S, IsFiniteSet(S), Calm(S),
         NEW k \in Int, NEW l \in Int, l <= k, Served(S, k)
  PROVE  Served(S, l)'
  <1> DEFINE A == Coming(S)
             B == Coming(S)'
  <1>1. B \in SUBSET S /\ A \in SUBSET B
    BY DEF Coming, Calm
  <1>2. (Asleep(S) # {})' => Cardinality(A) >= k
    BY DEF Served, Calm
  <1> HIDE DEF A, B
  <1>3. IsFiniteSet(B)
    BY <1>1, FS_Subset
  <1>4. /\ Cardinality(A) \in Nat /\ Cardinality(B) \in Nat
        /\ Cardinality(B) >= Cardinality(A)
    BY <1>1, <1>3, NoFewer
  <1>5. (Asleep(S) # {})' => Cardinality(B) >= l
    BY <1>2, <1>4
  <1> QED
    BY <1>5 DEF Served, B

LEMMA ServedOne ==
  ASSUME NEW S, IsFiniteSet(S), NEW t, Asleep(S)' \subseteq Asleep(S),
         Coming(S) \subseteq Coming(S)' \cup {t},
         NEW k \in Int, NEW l \in Int, l <= k - 1, Served(S, k)
  PROVE  Served(S, l)'
  <1> DEFINE A == Coming(S)
             B == Coming(S)'
  <1>1. B \in SUBSET S /\ A \subseteq B \cup {t}
    BY DEF Coming
  <1>2. (Asleep(S) # {})' => Cardinality(A) >= k
    BY DEF Served
  <1> HIDE DEF A, B
  <1>3. IsFiniteSet(B)
    BY <1>1, FS_Subset
  <1>4. /\ Cardinality(A) \in Nat /\ Cardinality(B) \in Nat
        /\ Cardinality(B) >= Cardinality(A) - 1
    BY <1>1, <1>3, OneFewer
  <1>5. (Asleep(S) # {})' => Cardinality(B) >= l
    BY <1>2, <1>4
  <1> QED
    BY <1>5 DEF Served, B

(* A signal after one more demand: if somebody still sleeps, it woke one.  *)
LEMMA ServedSignal ==
  ASSUME NEW S, IsFiniteSet(S), Calm(S),
         Asleep(S) # {} => \E t \in Coming(S)' : t \notin Coming(S),
         NEW k \in Int, NEW l \in Int, l <= k + 1, Served(S, k)
  PROVE  Served(S, l)'
  <1> DEFINE A == Coming(S)
             B == Coming(S)'
  <1>1. B \in SUBSET S /\ A \in SUBSET B
    BY DEF Coming, Calm
  <1>2. (Asleep(S) # {})' => Cardinality(A) >= k /\ \E t \in B : t \notin A
    BY DEF Served, Calm
  <1> HIDE DEF A, B
  <1>3. IsFiniteSet(B)
    BY <1>1, FS_Subset
  <1>4. ASSUME NEW t \in B, t \notin A, Cardinality(A) >= k
        PROVE  Cardinality(B) >= l
    <2>1. /\ Cardinality(A) \in Nat /\ Cardinality(B) \in Nat
          /\ Cardinality(B) >= Cardinality(A) + 1
      BY <1>1, <1>3, <1>4, OneMore
    <2> QED
      BY <1>4, <2>1
  <1>5. (Asleep(S) # {})' => Cardinality(B) >= l
    BY <1>2, <1>4
  <1> QED
    BY <1>5 DEF Served, B

-----------------------------------------------------------------------------
(* What one step of a pool does to its tasks, when the ring holds the      *)
(* sequence q before it and r after it. Both pools only take these steps.  *)
Rests(q, r) == r = q /\ UNCHANGED <<arg, fate>>
Passes(s, t, q, r) == /\ arg[s] = NoTask /\ fate[t] = "fresh"
                      /\ r = q
                      /\ arg' = [arg EXCEPT ![s] = t]
                      /\ fate' = [fate EXCEPT ![t] = "passed"]
Drops(s, q, r) == /\ arg[s] # NoTask
                  /\ r = q
                  /\ arg' = [arg EXCEPT ![s] = NoTask]
                  /\ fate' = [fate EXCEPT ![arg[s]] = "dropped"]
Enters(s, q, r) == /\ arg[s] # NoTask
                   /\ r = Append(q, arg[s])
                   /\ arg' = [arg EXCEPT ![s] = NoTask]
                   /\ fate' = [fate EXCEPT ![arg[s]] = "queued"]
Begins(w, q, r) == /\ arg[w] = NoTask /\ q # <<>>
                   /\ r = Tail(q)
                   /\ arg' = [arg EXCEPT ![w] = Head(q)]
                   /\ fate' = [fate EXCEPT ![Head(q)] = "running"]
Ends(w, q, r) == /\ arg[w] # NoTask
                 /\ r = q
                 /\ arg' = [arg EXCEPT ![w] = NoTask]
                 /\ fate' = [fate EXCEPT ![arg[w]] = "done"]

(* Any of them keeps every task in the place its fate names.               *)
LEMMA MovePlaced ==
  ASSUME NEW q \in Seq(Content), NEW r,
         arg \in [Threads -> Content], fate \in [Tasks -> Fates],
         Placed(q, arg, fate),
         \/ Rests(q, r)
         \/ \E s \in Callers : \/ \E t \in Tasks : Passes(s, t, q, r)
                               \/ Drops(s, q, r) \/ Enters(s, q, r)
         \/ \E w \in Workers : Begins(w, q, r) \/ Ends(w, q, r)
  PROVE  Placed(r, arg', fate')
  <1>1. CASE Rests(q, r)
    BY <1>1 DEF Rests
  <1>2. ASSUME NEW s \in Callers, NEW t \in Tasks, Passes(s, t, q, r)
        PROVE  Placed(r, arg', fate')
    BY <1>2, PlacedCall DEF Passes
  <1>3. ASSUME NEW s \in Callers, Drops(s, q, r) PROVE Placed(r, arg', fate')
    BY <1>3, PlacedRefuse DEF Drops
  <1>4. ASSUME NEW s \in Callers, Enters(s, q, r) PROVE Placed(r, arg', fate')
    BY <1>4, PlacedAccept DEF Enters
  <1>5. ASSUME NEW w \in Workers, Begins(w, q, r) PROVE Placed(r, arg', fate')
    BY <1>5, PlacedStart DEF Begins
  <1>6. ASSUME NEW w \in Workers, Ends(w, q, r) PROVE Placed(r, arg', fate')
    BY <1>6, PlacedFinish DEF Ends
  <1> QED
    BY <1>1, <1>2, <1>3, <1>4, <1>5, <1>6

(* The tasks the workers hold are the ones the fates call running.         *)
LEMMA PlacedHeld ==
  ASSUME NEW q, Placed(q, arg, fate)
  PROVE  Held(Workers) = With("running")
  BY DEF Placed, Exact, Held, Holders, Holding, With

(* What the moves are for the bounded queue: its elements, its running     *)
(* tasks and its finished ones.                                            *)
LEMMA MoveEnters ==
  ASSUME NEW q \in Seq(Content),
         arg \in [Threads -> Content], fate \in [Tasks -> Fates],
         Placed(q, arg, fate), NEW s \in Callers, NEW r, Enters(s, q, r)
  PROVE  /\ arg[s] \in Tasks
         /\ \A i \in DOMAIN q : q[i] # arg[s]
         /\ arg[s] \notin With("running") \cup With("done")
         /\ With("running")' = With("running") /\ With("done")' = With("done")
  <1>1. arg[s] \in Tasks /\ fate[arg[s]] = "passed"
    BY PlacedAccept DEF Enters
  <1>2. \A i \in 1 .. Len(q) : fate[q[i]] = "queued"
    BY DEF Placed, Exact
  <1> QED
    BY <1>1, <1>2 DEF Enters, With

LEMMA MoveBegins ==
  ASSUME NEW q \in Seq(Content),
         arg \in [Threads -> Content], fate \in [Tasks -> Fates],
         Placed(q, arg, fate), NEW w \in Workers, NEW r, Begins(w, q, r)
  PROVE  /\ Cardinality(With("running")) < Cardinality(Workers)
         /\ With("running")' = With("running") \cup {Head(q)}
         /\ With("done")' = With("done")
  <1>1. Head(q) \in Tasks /\ fate[Head(q)] = "queued"
    BY PlacedStart DEF Begins
  <1>2. Exact(arg, Holding(arg, Workers), fate, "running")
    BY DEF Placed
  <1>3. /\ IsFiniteSet(Workers) /\ Holding(arg, Workers) \in SUBSET Workers
        /\ w \notin Holding(arg, Workers)
    BY ThreadsAssumption DEF Holding, Begins
  <1>4. IsFiniteSet(Holding(arg, Workers))
    BY <1>3, FS_Subset
  <1>5. Cardinality(With("running")) = Cardinality(Holding(arg, Workers))
    BY <1>2, <1>4, ExactCount DEF With
  <1>6. Cardinality(Workers) >= Cardinality(Holding(arg, Workers)) + 1
        /\ Cardinality(Workers) \in Nat /\ Cardinality(Holding(arg, Workers)) \in Nat
    BY <1>3, OneMore
  <1>7. With("running")' = With("running") \cup {Head(q)} /\ With("done")' = With("done")
    BY <1>1 DEF Begins, With
  <1> QED
    BY <1>5, <1>6, <1>7

LEMMA MoveEnds ==
  ASSUME NEW q \in Seq(Content),
         arg \in [Threads -> Content], fate \in [Tasks -> Fates],
         Placed(q, arg, fate), NEW w \in Workers, NEW r, Ends(w, q, r)
  PROVE  /\ arg[w] \in Tasks /\ arg[w] \in With("running")
         /\ With("running")' = With("running") \ {arg[w]}
         /\ With("done")' = With("done") \cup {arg[w]}
  <1>1. arg[w] \in Tasks /\ fate[arg[w]] = "running"
    BY PlacedFinish DEF Ends
  <1> QED
    BY <1>1 DEF Ends, With

(* The other moves change neither.                                         *)
LEMMA MoveOthers ==
  ASSUME NEW q \in Seq(Content),
         arg \in [Threads -> Content], fate \in [Tasks -> Fates],
         Placed(q, arg, fate), NEW r,
         \/ Rests(q, r)
         \/ \E s \in Callers : (\E t \in Tasks : Passes(s, t, q, r)) \/ Drops(s, q, r)
  PROVE  r = q /\ With("running")' = With("running") /\ With("done")' = With("done")
  <1>1. ASSUME NEW s \in Callers, Drops(s, q, r)
        PROVE  arg[s] \in Tasks /\ fate[arg[s]] = "passed"
    BY <1>1, PlacedRefuse DEF Drops
  <1> QED
    BY <1>1 DEF Rests, Passes, Drops, With
=============================================================================
