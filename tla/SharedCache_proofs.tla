-------------------------- MODULE SharedCache_proofs --------------------------
(* Proofs about SharedCache, for any readers, writers and keys, any number *)
(* of lookups and insertions and any size of the cache.                    *)
EXTENDS SharedCache, FiniteSetTheorems, SequenceTheorems, TLAPS

(* A thread inside an iteration has it left, and a writer that passed the  *)
(* test for room has room.                                                 *)
TurnInv ==
  /\ \A r \in Readers : /\ todo[r] <= Lookups
                        /\ pc[r] \in {"rdlock", "compare", "use"} => todo[r] > 0
  /\ \A w \in Writers : /\ todo[w] <= Len(AddedKeys)
                        /\ Adding(w) => todo[w] > 0
                        /\ pc[w] \in {"value", "publish"} => HasRoom

IInv == TypeOK /\ LockInv /\ TurnInv

LEMMA LenAdded == /\ Len(AddedKeys) \in Nat
                  /\ \A n \in 1 .. Len(AddedKeys) : AddedKeys[n] \in Keys
  BY CacheAssumption

LEMMA InitIInv == Init => IInv
  BY ThreadsAssumption, CacheAssumption, LenAdded
     DEF Init, IInv, TypeOK, LockInv, TurnInv, Adding, HasRoom, Threads, Slots,
         ReaderPC, WriterPC, MainPC

(* A writer's turn is the number of one of the keys it adds.               *)
LEMMA TurnInRange ==
  ASSUME IInv, NEW w \in Writers, Adding(w)
  PROVE  /\ Turn(w) \in 1 .. Len(AddedKeys)
         /\ AddedKeys[Turn(w)] \in Keys
         /\ Value(w, Turn(w)) \in Values
  <1>1. todo[w] \in 1 .. Len(AddedKeys)
    BY LenAdded, CacheAssumption DEF IInv, TypeOK, TurnInv, Threads
  <1>2. Turn(w) \in 1 .. Len(AddedKeys)
    BY <1>1, LenAdded DEF Turn
  <1> QED
    BY <1>2, LenAdded DEF Values

LEMMA NextIInv == IInv /\ [Next]_vars => IInv'
  <1> SUFFICES ASSUME IInv, [Next]_vars PROVE IInv'
    OBVIOUS
  <1> USE ThreadsAssumption, LenAdded DEF Threads, ReaderPC, WriterPC, MainPC, Go, cache, lock, rest
  <1>0. Lookups \in Nat /\ MaxCacheSize \in Nat \ {0} /\ Slots = 0 .. MaxCacheSize - 1
    BY CacheAssumption DEF Slots
  <1>1. ASSUME NEW r \in Readers, NEW k \in Keys, LookupCall(r, k) PROVE IInv'
    <2> USE <1>1 DEF LookupCall, IInv
    <2>1. TypeOK'
      BY DEF TypeOK
    <2>2. LockInv' /\ TurnInv'
      BY DEF TypeOK, LockInv, TurnInv, Adding, HasRoom
    <2> QED
      BY <2>1, <2>2
  <1>2. ASSUME NEW r \in Readers, ReadLock(r) PROVE IInv'
    <2> USE <1>2 DEF ReadLock, NoWriter, IInv
    <2>1. TypeOK'
      BY DEF TypeOK
    <2>2. LockInv' /\ TurnInv'
      BY DEF TypeOK, LockInv, TurnInv, Adding, HasRoom
    <2> QED
      BY <2>1, <2>2
  <1>3. ASSUME NEW r \in Readers, LookupHit(r) PROVE IInv'
    <2> USE <1>3 DEF LookupHit, IInv
    <2>1. TypeOK'
      BY <1>0 DEF TypeOK
    <2>2. LockInv' /\ TurnInv'
      BY DEF TypeOK, LockInv, TurnInv, Adding, HasRoom
    <2> QED
      BY <2>1, <2>2
  <1>4. ASSUME NEW r \in Readers, LookupMiss(r) PROVE IInv'
    <2> USE <1>4 DEF LookupMiss, Iteration, IInv
    <2>1. TypeOK'
      BY <1>0 DEF TypeOK, TurnInv
    <2>2. LockInv' /\ TurnInv'
      BY <1>0 DEF TypeOK, LockInv, TurnInv, Adding, HasRoom
    <2> QED
      BY <2>1, <2>2
  <1>5. ASSUME NEW r \in Readers, Use(r) PROVE IInv'
    <2> USE <1>5 DEF Use, Iteration, IInv
    <2>1. TypeOK'
      BY <1>0 DEF TypeOK, TurnInv
    <2>2. LockInv' /\ TurnInv'
      BY <1>0 DEF TypeOK, LockInv, TurnInv, Adding, HasRoom
    <2> QED
      BY <2>1, <2>2
  <1>6. ASSUME NEW w \in Writers, WriteLock(w) PROVE IInv'
    <2> USE <1>6 DEF WriteLock, NobodyInside, NoWriter, IInv
    <2>1. TypeOK'
      BY DEF TypeOK
    <2>2. LockInv' /\ TurnInv'
      BY DEF TypeOK, LockInv, TurnInv, Adding, HasRoom
    <2> QED
      BY <2>1, <2>2
  <1>7. ASSUME NEW w \in Writers, AddKey(w) PROVE IInv'
    <2> USE <1>7 DEF AddKey, FreeEntry, IInv
    <2>1. AddedKeys[Turn(w)] \in Keys
      BY TurnInRange DEF Adding
    <2>2. TypeOK'
      BY <1>0, <2>1 DEF TypeOK
    <2>3. LockInv' /\ TurnInv'
      BY DEF TypeOK, LockInv, TurnInv, Adding, HasRoom
    <2> QED
      BY <2>2, <2>3
  <1>8. ASSUME NEW w \in Writers, AddValue(w) PROVE IInv'
    <2> USE <1>8 DEF AddValue, FreeEntry, IInv
    <2>1. Value(w, Turn(w)) \in Values
      BY TurnInRange DEF Adding
    <2>2. TypeOK'
      BY <1>0, <2>1 DEF TypeOK
    <2>3. LockInv' /\ TurnInv'
      BY DEF TypeOK, LockInv, TurnInv, Adding, HasRoom
    <2> QED
      BY <2>2, <2>3
  <1>9. ASSUME NEW w \in Writers, AddPublish(w) PROVE IInv'
    <2> USE <1>9 DEF AddPublish, Iteration, IInv
    <2>1. Value(w, Turn(w)) \in Values /\ todo[w] > 0 /\ count < MaxCacheSize
      BY TurnInRange DEF Adding, TurnInv, HasRoom
    <2>2. TypeOK'
      BY <1>0, <2>1 DEF TypeOK
    <2>3. LockInv'
      BY DEF TypeOK, LockInv, Adding
    <2>4. \A v \in Writers \ {w} : pc[v] \notin {"value", "publish"}
      BY DEF LockInv, Adding
    <2>5. TurnInv'
      BY <1>0, <2>1, <2>4 DEF TypeOK, TurnInv, Adding
    <2> QED
      BY <2>2, <2>3, <2>5
  <1>10. ASSUME NEW w \in Writers, AddRefuse(w) PROVE IInv'
    <2> USE <1>10 DEF AddRefuse, Unlocked, Iteration, IInv
    <2>1. todo[w] > 0
      BY DEF TurnInv, Adding
    <2>2. TypeOK'
      BY <1>0, <2>1 DEF TypeOK
    <2>3. LockInv'
      BY DEF TypeOK, LockInv, Adding
    <2>4. TurnInv'
      BY <1>0, <2>1 DEF TypeOK, TurnInv, Adding, HasRoom
    <2> QED
      BY <2>2, <2>3, <2>4
  <1>11. ASSUME NEW t \in Threads, Create(t) \/ Exit(t) PROVE IInv'
    <2> USE <1>11 DEF Create, Exit, IInv
    <2>1. TypeOK'
      BY DEF TypeOK
    <2>2. LockInv' /\ TurnInv'
      BY DEF TypeOK, LockInv, TurnInv, Adding, HasRoom
    <2> QED
      BY <2>1, <2>2
  <1>12. CASE CreateDone \/ Join \/ Terminated \/ UNCHANGED vars
    BY <1>12 DEF CreateDone, Join, Terminated, vars, IInv, TypeOK, LockInv, TurnInv,
                 Adding, HasRoom
  <1> QED
    BY <1>1, <1>2, <1>3, <1>4, <1>5, <1>6, <1>7, <1>8, <1>9, <1>10, <1>11, <1>12
       DEF Next, Reader, Writer

(* The variables of the program keep their types: the count never exceeds  *)
(* MAX_CACHE_SIZE, whatever the number of writers that add entries.        *)
THEOREM TypeCorrect == Spec => []TypeOK
  <1>1. IInv => TypeOK
    BY DEF IInv
  <1> QED
    BY InitIInv, NextIInv, <1>1, PTL DEF Spec

(* A comparison never overlaps an insertion and no two insertions overlap, *)
(* for any number of readers and writers.                                  *)
THEOREM LockCorrect == Spec => []LockInv
  <1>1. IInv => LockInv
    BY DEF IInv
  <1> QED
    BY InitIInv, NextIInv, <1>1, PTL DEF Spec

-----------------------------------------------------------------------------
(* The entries. An insertion in progress has written the key, then the     *)
(* value of the first free entry, and nothing else beyond the count; a     *)
(* writer has not yet added the value of its turn.                         *)
Writing(w) == pc[w] \in {"value", "publish"}

Untouched ==
  \A i \in Slots : (i > count \/ (i = count /\ \A w \in Writers : ~Writing(w)))
                     => keys[i] = garbage /\ values[i] = NoValue

InProgress ==
  \A w \in Writers :
    /\ Writing(w) => keys[count] = AddedKeys[Turn(w)]
    /\ pc[w] = "value" => values[count] = NoValue
    /\ pc[w] = "publish" => values[count] = Value(w, Turn(w))

AddedBefore ==
  /\ IsFiniteSet(added)
  /\ \A w \in Writers : \A n \in 1 .. Len(AddedKeys) :
       Value(w, n) \in added => n < Turn(w)

EntriesInv == Untouched /\ InProgress /\ AddedBefore /\ EntriesIntact

LEMMA InitEntries == Init => EntriesInv
  <1> SUFFICES ASSUME Init PROVE EntriesInv
    OBVIOUS
  <1> USE DEF Init
  <1>1. Untouched /\ InProgress
    BY ThreadsAssumption DEF Untouched, InProgress, Writing, Slots, Threads
  <1>2. AddedBefore
    BY FS_EmptySet DEF AddedBefore
  <1>3. EntriesIntact
    BY FS_EmptySet DEF EntriesIntact, Published, Slots
  <1> QED
    BY <1>1, <1>2, <1>3 DEF EntriesInv

(* A step that touches neither the entries nor a writer's place among the  *)
(* writes, and that lets no turn go back, keeps all this.                  *)
LEMMA QuietStep ==
  ASSUME IInv, IInv', EntriesInv, UNCHANGED <<cache, garbage, added>>,
         \A w \in Writers : /\ Writing(w)' <=> Writing(w)
                            /\ (pc[w] = "value")' <=> pc[w] = "value"
                            /\ (pc[w] = "publish")' <=> pc[w] = "publish"
                            /\ Writing(w) => todo'[w] = todo[w]
                            /\ todo'[w] <= todo[w]
  PROVE  EntriesInv'
  <1> USE DEF cache, EntriesInv
  <1>1. Untouched'
    BY DEF Untouched
  <1>2. InProgress'
    BY DEF InProgress, Turn, Writing
  <1>3. AddedBefore'
    <2>1. \A w \in Writers : /\ todo[w] \in Int /\ todo'[w] \in Int
      BY CacheAssumption, LenAdded DEF IInv, TypeOK, Threads
    <2> QED
      BY <2>1, LenAdded DEF AddedBefore, Turn
  <1>4. EntriesIntact'
    <2>1. ASSUME owner' = NoThread, NEW i \in Slots \ Published PROVE values[i] = NoValue
      <3>1. \A w \in Writers : ~Writing(w)
        BY <2>1, ThreadsAssumption DEF IInv, LockInv, Adding, Writing, Threads
      <3>2. i >= count
        BY DEF Published, Slots, IInv, TypeOK
      <3>3. i > count \/ i = count
        BY <3>2, CacheAssumption DEF Slots, IInv, TypeOK
      <3> QED
        BY <3>1, <3>3 DEF Untouched
    <2> QED
      BY <2>1 DEF EntriesIntact, Published
  <1> QED
    BY <1>1, <1>2, <1>3, <1>4

LEMMA NextEntries == IInv /\ IInv' /\ EntriesInv /\ [Next]_vars => EntriesInv'
  <1> SUFFICES ASSUME IInv, IInv', EntriesInv, [Next]_vars PROVE EntriesInv'
    OBVIOUS
  <1> USE ThreadsAssumption, LenAdded DEF Threads, cache, lock, rest
  <1>0. /\ Lookups \in Nat /\ MaxCacheSize \in Nat \ {0} /\ Slots = 0 .. MaxCacheSize - 1
        /\ \A t \in Threads : todo[t] \in Nat
        /\ pc \in [Threads -> ReaderPC \cup WriterPC] /\ DOMAIN todo = Threads
    BY CacheAssumption DEF Slots, IInv, TypeOK
  <1>1. ASSUME NEW r \in Readers, Reader(r) PROVE EntriesInv'
    <2>1. UNCHANGED <<cache, garbage, added>>
      BY <1>1 DEF Reader, LookupCall, ReadLock, LookupHit, LookupMiss, Use
    <2>2. \A w \in Writers : pc'[w] = pc[w] /\ todo'[w] = todo[w]
      BY <1>0, <1>1 DEF Reader, LookupCall, ReadLock, LookupHit, LookupMiss, Use, Go, Iteration
    <2> QED
      BY <1>0, <2>1, <2>2, QuietStep DEF Writing
  <1>2. ASSUME NEW w \in Writers, WriteLock(w) \/ AddRefuse(w) PROVE EntriesInv'
    <2>1. UNCHANGED <<cache, garbage, added>>
      BY <1>2 DEF WriteLock, AddRefuse
    <2>2. /\ \A v \in Writers \ {w} : pc'[v] = pc[v] /\ todo'[v] = todo[v]
          /\ pc[w] \in {"idle", "test"} /\ pc'[w] \in {"idle", "test"}
          /\ todo'[w] <= todo[w]
      BY <1>0, <1>2 DEF WriteLock, AddRefuse, Go, Iteration
    <2> QED
      BY <1>0, <2>1, <2>2, QuietStep DEF Writing
  <1>3. ASSUME NEW t \in Threads, Create(t) \/ Exit(t) PROVE EntriesInv'
    <2>1. UNCHANGED <<cache, garbage, added, todo>>
      BY <1>3 DEF Create, Exit
    <2>2. /\ \A v \in Writers \ {t} : pc'[v] = pc[v]
          /\ pc[t] \in {"unborn", "idle"} /\ pc'[t] \in {"idle", "failed", "ended"}
      BY <1>0, <1>3 DEF Create, Exit, Go
    <2> QED
      BY <1>0, <2>1, <2>2, QuietStep DEF Writing
  <1>4. ASSUME CreateDone \/ Join \/ Terminated \/ UNCHANGED vars PROVE EntriesInv'
    <2>1. UNCHANGED <<cache, garbage, added, todo, pc>>
      BY <1>4 DEF CreateDone, Join, Terminated, vars
    <2> QED
      BY <1>0, <2>1, QuietStep DEF Writing
  <1>5. ASSUME NEW w \in Writers, Adding(w)
        PROVE  /\ \A v \in Writers \ {w} : ~Adding(v) /\ ~Writing(v)
               /\ owner = w /\ w # NoThread
               /\ Turn(w) \in 1 .. Len(AddedKeys)
               /\ count \in 0 .. MaxCacheSize
               /\ DOMAIN keys = Slots /\ DOMAIN values = Slots
    BY <1>5, TurnInRange DEF IInv, LockInv, Adding, Writing, TypeOK
  <1>6. ASSUME NEW w \in Writers, AddKey(w) PROVE EntriesInv'
    <2> USE <1>6 DEF EntriesInv
    <2>1. /\ Adding(w) /\ ~Writing(w) /\ count < MaxCacheSize
          /\ keys' = [keys EXCEPT ![count] = AddedKeys[Turn(w)]]
          /\ UNCHANGED <<values, count, owner, todo, added, garbage>>
          /\ pc'[w] = "value" /\ \A v \in Writers \ {w} : pc'[v] = pc[v]
      BY <1>0 DEF AddKey, HasRoom, FreeEntry, Go, Adding, Writing
    <2>2. \A v \in Writers : ~Writing(v)
      BY <1>5, <2>1
    <2>3. Untouched'
      BY <1>0, <1>5, <2>1, <2>2 DEF Untouched, Writing
    <2>4. InProgress'
      BY <1>0, <1>5, <2>1, <2>2 DEF InProgress, Untouched, Writing, Turn
    <2>5. AddedBefore'
      BY <2>1 DEF AddedBefore, Turn
    <2>6. EntriesIntact'
      BY <1>0, <1>5, <2>1 DEF EntriesIntact, Published
    <2> QED
      BY <2>3, <2>4, <2>5, <2>6
  <1>7. ASSUME NEW w \in Writers, AddValue(w) PROVE EntriesInv'
    <2> USE <1>7 DEF EntriesInv
    <2>1. /\ Adding(w) /\ Writing(w) /\ count < MaxCacheSize
          /\ values' = [values EXCEPT ![count] = Value(w, Turn(w))]
          /\ UNCHANGED <<keys, count, owner, todo, added, garbage>>
          /\ pc'[w] = "publish" /\ \A v \in Writers \ {w} : pc'[v] = pc[v]
      BY <1>0 DEF AddValue, FreeEntry, Go, Adding, Writing, IInv, TurnInv, HasRoom
    <2>3. Untouched'
      BY <1>0, <1>5, <2>1 DEF Untouched, Writing
    <2>4. InProgress'
      BY <1>0, <1>5, <2>1 DEF InProgress, Writing, Turn
    <2>5. AddedBefore'
      BY <2>1 DEF AddedBefore, Turn
    <2>6. EntriesIntact'
      BY <1>0, <1>5, <2>1 DEF EntriesIntact, Published
    <2> QED
      BY <2>3, <2>4, <2>5, <2>6
  <1>8. ASSUME NEW w \in Writers, AddPublish(w) PROVE EntriesInv'
    <2> USE <1>8 DEF EntriesInv
    <2>0. PICK v : v = Value(w, Turn(w))
      OBVIOUS
    <2>1. /\ Adding(w) /\ Writing(w) /\ count < MaxCacheSize
          /\ count' = count + 1 /\ owner' = NoThread /\ added' = added \cup {v}
          /\ UNCHANGED <<keys, values, garbage>>
          /\ pc'[w] = "idle" /\ \A u \in Writers \ {w} : pc'[u] = pc[u]
          /\ todo'[w] = todo[w] - 1 /\ \A u \in Writers \ {w} : todo'[u] = todo[u]
      BY <1>0, <2>0 DEF AddPublish, Go, Adding, Writing, IInv, TurnInv, HasRoom, Iteration
    <2>2. /\ values[count] = v /\ keys[count] = KeyOf(v)
          /\ v \in Values /\ v # NoValue
      BY <2>0, <2>1, TurnInRange, ValuesAssumption DEF InProgress, AddPublish, Go, KeyOf, Value
    <2>3. v \notin added
      BY <1>0, <1>5, <2>0, <2>1 DEF AddedBefore
    <2>4. IsFiniteSet(added') /\ Cardinality(added') = Cardinality(added) + 1
      BY <2>1, <2>3, FS_AddElement DEF AddedBefore
    <2>5. \A u \in Writers : ~Writing(u)'
      BY <1>5, <2>1 DEF Writing
    <2>6. Untouched'
      BY <1>0, <1>5, <2>1, <2>5 DEF Untouched
    <2>7. InProgress'
      BY <2>5 DEF InProgress, Writing
    <2>8. AddedBefore'
      <3>1. ASSUME NEW u \in Writers, NEW n \in 1 .. Len(AddedKeys), Value(u, n) \in added'
            PROVE  n < Turn(u)'
        <4>1. CASE Value(u, n) \in added
          BY <1>0, <2>1, <4>1 DEF AddedBefore, Turn
        <4>2. CASE Value(u, n) = v
          BY <1>0, <2>0, <2>1, <4>2 DEF Value, Turn
        <4> QED
          BY <2>1, <3>1, <4>1, <4>2
      <3> QED
        BY <2>4, <3>1 DEF AddedBefore
    <2>9. EntriesIntact'
      <3>1. Published' = Published \cup {count}
        BY <1>5, <2>1 DEF Published
      <3>2. {values'[i] : i \in Published'} = added'
        BY <2>1, <2>2, <3>1 DEF EntriesIntact
      <3>3. ASSUME NEW i \in Slots \ Published' PROVE values'[i] = NoValue
        <4>1. i > count
          BY <1>0, <1>5, <2>1 DEF Published
        <4> QED
          BY <2>1, <4>1 DEF Untouched
      <3>4. Cardinality(added') = count'
        BY <2>1, <2>4 DEF EntriesIntact
      <3>5. \A i \in Published' : values'[i] # NoValue /\ keys'[i] = KeyOf(values'[i])
        BY <2>1, <2>2, <3>1 DEF EntriesIntact
      <3> QED
        BY <3>2, <3>3, <3>4, <3>5 DEF EntriesIntact, KeyOf
    <2> QED
      BY <2>6, <2>7, <2>8, <2>9
  <1> QED
    BY <1>1, <1>2, <1>3, <1>4, <1>6, <1>7, <1>8 DEF Next, Writer

(* No published entry is torn and no entry whose insertion succeeded is    *)
(* lost or there twice, and a refused insertion leaves no trace.           *)
THEOREM EntriesCorrect == Spec => []EntriesIntact
  <1>1. EntriesInv => EntriesIntact
    BY DEF EntriesInv
  <1> QED
    BY InitIInv, NextIInv, InitEntries, NextEntries, <1>1, PTL DEF Spec

-----------------------------------------------------------------------------
(* What a reader was handed. The value of the first published entry never  *)
(* changes again, so a pointer to it stays good.                           *)
PointerInv ==
  \A r \in Readers :
    /\ found[r] # NoValue => pc[r] = "use" /\ count > 0 /\ values[0] = found[r]
    /\ pc[r] = "use" /\ found[r] = NoValue => want[r] = garbage

LEMMA InitPointer == Init => PointerInv
  BY DEF Init, PointerInv, Threads

LEMMA NextPointer == IInv /\ EntriesInv /\ PointerInv /\ [Next]_vars => PointerInv'
  <1> SUFFICES ASSUME IInv, EntriesInv, PointerInv, [Next]_vars PROVE PointerInv'
    OBVIOUS
  <1> USE ThreadsAssumption DEF Threads, cache, lock, rest, Go
  <1>0. /\ MaxCacheSize \in Nat \ {0} /\ Slots = 0 .. MaxCacheSize - 1
        /\ count \in 0 .. MaxCacheSize
        /\ pc \in [Threads -> ReaderPC \cup WriterPC]
        /\ found \in [Readers -> Values \cup {NoValue}]
        /\ want \in [Readers -> Keys \cup {NoKey}] /\ DOMAIN values = Slots
    BY CacheAssumption DEF Slots, IInv, TypeOK
  <1>1. ASSUME NEW r \in Readers, LookupHit(r) PROVE PointerInv'
    <2> USE <1>1 DEF LookupHit
    <2>1. CASE count > 0
      <3>1. values[0] # NoValue
        BY <1>0, <2>1 DEF EntriesInv, EntriesIntact, Published
      <3> QED
        BY <1>0, <2>1, <3>1 DEF PointerInv
    <2>2. CASE count = 0
      <3>1. \A w \in Writers : ~Writing(w)
        BY DEF IInv, LockInv, Adding, Writing
      <3>2. want[r] = garbage
        BY <1>0, <2>2, <3>1 DEF EntriesInv, Untouched
      <3> QED
        BY <1>0, <2>2, <3>2 DEF PointerInv
    <2> QED
      BY <1>0, <2>1, <2>2
  <1>2. ASSUME NEW r \in Readers, NEW k \in Keys, LookupCall(r, k) PROVE PointerInv'
    BY <1>0, <1>2 DEF LookupCall, PointerInv
  <1>3. ASSUME NEW r \in Readers, ReadLock(r) \/ LookupMiss(r) PROVE PointerInv'
    BY <1>0, <1>3 DEF ReadLock, LookupMiss, PointerInv
  <1>4. ASSUME NEW r \in Readers, Use(r) PROVE PointerInv'
    BY <1>0, <1>4 DEF Use, PointerInv
  <1>5. ASSUME NEW w \in Writers, WriteLock(w) \/ AddKey(w) \/ AddRefuse(w)
        PROVE  PointerInv'
    BY <1>0, <1>5 DEF WriteLock, AddKey, AddRefuse, PointerInv
  <1>6. ASSUME NEW w \in Writers, AddValue(w) PROVE PointerInv'
    BY <1>0, <1>6 DEF AddValue, FreeEntry, PointerInv
  <1>7. ASSUME NEW w \in Writers, AddPublish(w) PROVE PointerInv'
    BY <1>0, <1>7 DEF AddPublish, PointerInv
  <1>8. ASSUME NEW t \in Threads, Create(t) \/ Exit(t) PROVE PointerInv'
    BY <1>0, <1>8 DEF Create, Exit, PointerInv
  <1>9. CASE CreateDone \/ Join \/ Terminated \/ UNCHANGED vars
    BY <1>9 DEF CreateDone, Join, Terminated, vars, PointerInv
  <1> QED
    BY <1>1, <1>2, <1>3, <1>4, <1>5, <1>6, <1>7, <1>8, <1>9 DEF Next, Reader, Writer

(* A reader that follows the pointer it was handed, long after it released *)
(* the lock, finds the value that was there, whatever was inserted since;  *)
(* and it is handed an entry that is not published, never written or half  *)
(* written, only if the memory happened to hold the key at first.          *)
THEOREM PointersCorrect == Spec => []PointersGood
  <1>1. PointerInv => PointersGood
    BY DEF PointerInv, PointersGood
  <1> QED
    BY InitIInv, NextIInv, InitEntries, NextEntries, InitPointer, NextPointer, <1>1,
       PTL DEF Spec

-----------------------------------------------------------------------------
(* The first n entries as the sequence that EntryLog calls the log.        *)
Entered(k, v, n) == [i \in 1 .. n |-> <<k[i - 1], v[i - 1]>>]
Pairs == (Keys \cup {NoKey}) \X (Values \cup {NoValue})

LEMMA EnteredType ==
  ASSUME NEW k \in [Slots -> Keys \cup {NoKey}],
         NEW v \in [Slots -> Values \cup {NoValue}],
         NEW n \in 0 .. MaxCacheSize
  PROVE  /\ Entered(k, v, n) \in Seq(Pairs)
         /\ Len(Entered(k, v, n)) = n
         /\ \A i \in 1 .. n : Entered(k, v, n)[i] = <<k[i - 1], v[i - 1]>>
  <1>1. n \in Nat /\ \A i \in 1 .. n : i - 1 \in Slots
    BY CacheAssumption DEF Slots
  <1>2. \A i \in 1 .. n : <<k[i - 1], v[i - 1]>> \in Pairs
    BY <1>1 DEF Pairs
  <1>3. Entered(k, v, n) \in [1 .. n -> Pairs]
    BY <1>2 DEF Entered
  <1>4. Entered(k, v, n) \in Seq(Pairs) /\ Len(Entered(k, v, n)) = n
    BY <1>1, <1>3
  <1> QED
    BY <1>4 DEF Entered

(* An insertion writes the entry behind the log and counts it.             *)
LEMMA EnteredAppend ==
  ASSUME NEW k \in [Slots -> Keys \cup {NoKey}],
         NEW v \in [Slots -> Values \cup {NoValue}],
         NEW n \in 0 .. MaxCacheSize - 1
  PROVE  Entered(k, v, n + 1) = Append(Entered(k, v, n), <<k[n], v[n]>>)
  <1> DEFINE q == Entered(k, v, n)
             r == Entered(k, v, n + 1)
             e == <<k[n], v[n]>>
  <1>1. n \in Nat /\ n \in 0 .. MaxCacheSize /\ n + 1 \in 0 .. MaxCacheSize /\ n \in Slots
    BY CacheAssumption DEF Slots
  <1>2. q \in Seq(Pairs) /\ Len(q) = n /\ \A i \in 1 .. n : q[i] = <<k[i - 1], v[i - 1]>>
    BY <1>1, EnteredType
  <1>3. /\ r \in Seq(Pairs) /\ Len(r) = n + 1
        /\ \A i \in 1 .. n + 1 : r[i] = <<k[i - 1], v[i - 1]>>
    BY <1>1, EnteredType
  <1>4. r[n + 1] = e /\ e \in Pairs
    BY <1>1, <1>3 DEF Pairs
  <1> HIDE DEF q, r, e
  <1>5. /\ Append(q, e) \in Seq(Pairs) /\ Len(Append(q, e)) = n + 1
        /\ Append(q, e)[n + 1] = e
        /\ \A i \in 1 .. n : Append(q, e)[i] = q[i]
    BY <1>2, <1>4, AppendProperties
  <1>6. ASSUME NEW i \in 1 .. n + 1 PROVE r[i] = Append(q, e)[i]
    <2>1. CASE i = n + 1
      BY <1>4, <1>5, <2>1
    <2>2. CASE i \in 1 .. n
      BY <1>2, <1>3, <1>5, <2>2
    <2>3. i = n + 1 \/ i \in 1 .. n
      BY <1>1
    <2> QED
      BY <2>1, <2>2, <2>3
  <1>7. r = Append(q, e)
    BY <1>3, <1>5, <1>6, SeqEqual
  <1> QED
    BY <1>7 DEF q, r, e

LEMMA InitLog == Init => Log!Init
  <1> SUFFICES ASSUME Init PROVE Log!Init
    OBVIOUS
  <1>1. [i \in 1 .. count |-> <<keys[i - 1], values[i - 1]>>] = <<>>
    BY DEF Init
  <1> QED
    BY <1>1 DEF Init, Log!Init

LEMMA NextLog ==
  IInv /\ EntriesInv /\ PointerInv /\ [Next]_vars => [Log!Next]_(Log!vars)
  <1> SUFFICES ASSUME IInv, EntriesInv, PointerInv, [Next]_vars
               PROVE  [Log!Next]_(Log!vars)
    OBVIOUS
  <1> USE ThreadsAssumption DEF Threads, cache, lock, rest, Go
  <1> DEFINE q == Entered(keys, values, count)
             r == Entered(keys', values', count')
  <1>0. /\ MaxCacheSize \in Nat \ {0} /\ Slots = 0 .. MaxCacheSize - 1
        /\ count \in 0 .. MaxCacheSize
        /\ keys \in [Slots -> Keys \cup {NoKey}]
        /\ values \in [Slots -> Values \cup {NoValue}]
        /\ found \in [Readers -> Values \cup {NoValue}]
        /\ want \in [Readers -> Keys \cup {NoKey}]
    BY CacheAssumption DEF Slots, IInv, TypeOK
  <1>1. /\ [i \in 1 .. count |-> <<keys[i - 1], values[i - 1]>>] = q
        /\ [i \in 1 .. count |-> <<keys[i - 1], values[i - 1]>>]' = r
    BY DEF Entered
  <1>2. q \in Seq(Pairs) /\ Len(q) = count
        /\ \A i \in 1 .. count : q[i] = <<keys[i - 1], values[i - 1]>>
    BY <1>0, EnteredType
  <1>3. UNCHANGED cache => r = q
    BY DEF Entered
  <1> HIDE DEF q, r
  <1>4. ASSUME NEW t \in Readers, NEW k \in Keys, LookupCall(t, k) PROVE Log!Ask(t, k)
    BY <1>1, <1>3, <1>4 DEF LookupCall, PointerInv, Log!Ask
  <1>5. ASSUME NEW t \in Readers, LookupHit(t) PROVE Log!Answer(t) \/ Log!Forget(t)
    <2>1. CASE count > 0
      <3>1. q # <<>> /\ q[1] = <<keys[0], values[0]>>
        BY <1>0, <1>2, <2>1
      <3>2. q[1][1] = keys[0] /\ q[1][2] = values[0]
        BY <3>1
      <3>3. /\ keys[0] = want[t] /\ found' = [found EXCEPT ![t] = values[0]]
            /\ UNCHANGED <<cache, want>>
        BY <1>5, <2>1 DEF LookupHit
      <3> QED
        BY <1>1, <1>3, <3>1, <3>2, <3>3 DEF Log!Answer
    <2>2. CASE ~(count > 0)
      BY <1>1, <1>3, <1>5, <2>2 DEF LookupHit, Log!Forget
    <2> QED
      BY <2>1, <2>2
  <1>6. ASSUME NEW t \in Readers, Use(t) PROVE Log!Forget(t)
    BY <1>1, <1>3, <1>6 DEF Use, Log!Forget
  <1>7. ASSUME NEW w \in Writers, AddKey(w) \/ AddValue(w) PROVE UNCHANGED Log!vars
    <2>1. /\ count' = count /\ UNCHANGED <<want, found>>
          /\ keys' = keys \/ keys' = [keys EXCEPT ![count] = AddedKeys[Turn(w)]]
          /\ values' = values \/ values' = [values EXCEPT ![count] = Value(w, Turn(w))]
      BY <1>7 DEF AddKey, AddValue, FreeEntry
    <2>2. ASSUME NEW i \in 1 .. count
          PROVE  keys'[i - 1] = keys[i - 1] /\ values'[i - 1] = values[i - 1]
      <3>1. i - 1 \in Slots /\ i - 1 # count
        BY <1>0
      <3> QED
        BY <1>0, <2>1, <3>1
    <2>3. r = q
      BY <2>1, <2>2 DEF q, r, Entered
    <2> QED
      BY <1>1, <2>1, <2>3 DEF Log!vars
  <1>8. ASSUME NEW w \in Writers, AddPublish(w) PROVE Log!Next
    <2> DEFINE v == Value(w, Turn(w))
               e == <<KeyOf(v), v>>
    <2>1. Adding(w) /\ Writing(w) /\ count < MaxCacheSize
      BY <1>8 DEF AddPublish, Adding, Writing, IInv, TurnInv, HasRoom
    <2>2. /\ values[count] = v /\ keys[count] = KeyOf(v) /\ v \in Values
      BY <1>8, <2>1, TurnInRange DEF EntriesInv, InProgress, AddPublish, KeyOf, Value
    <2>3. v \notin added
      BY <2>1, TurnInRange, LenAdded DEF EntriesInv, AddedBefore
    <2>4. count' = count + 1 /\ UNCHANGED <<keys, values, want, found>>
      BY <1>8 DEF AddPublish
    <2>5. r = Append(q, e)
      <3>1. r = Entered(keys, values, count + 1) /\ count \in 0 .. MaxCacheSize - 1
        BY <1>0, <2>1, <2>4 DEF r
      <3>2. Entered(keys, values, count + 1)
              = Append(Entered(keys, values, count), <<keys[count], values[count]>>)
        <4>1. /\ keys \in [Slots -> Keys \cup {NoKey}]
              /\ values \in [Slots -> Values \cup {NoValue}]
          BY <1>0
        <4> QED
          BY <3>1, <4>1, EnteredAppend, Zenon
      <3>3. r = Append(q, <<keys[count], values[count]>>)
        BY <3>1, <3>2 DEF q
      <3> QED
        BY <2>2, <3>3
    <2> HIDE DEF v
    <2>6. Len(q) < MaxCacheSize
      BY <1>2, <2>1
    <2>7. ASSUME NEW i \in 1 .. count PROVE q[i] # e
      <3>1. i - 1 \in Published
        BY <1>0 DEF Published
      <3>2. values[i - 1] \in added
        BY <3>1 DEF EntriesInv, EntriesIntact
      <3> QED
        BY <1>2, <2>3, <3>2
    <2>8. \A i \in DOMAIN q : q[i] # e
      BY <1>2, <2>7
    <2>9. Log!Add(e)
      BY <1>1, <2>4, <2>5, <2>6, <2>8 DEF Log!Add
    <2>10. e \in {<<KeyOf(x), x>> : x \in Values}
      BY <2>2
    <2> HIDE DEF e
    <2>11. \E x \in {<<KeyOf(y), y>> : y \in Values} : Log!Add(x)
      BY <2>9, <2>10 DEF Log!Add
    <2> QED
      BY <2>11 DEF Log!Next
  <1>9. ASSUME UNCHANGED <<cache, want, found>> PROVE UNCHANGED Log!vars
    BY <1>1, <1>3, <1>9 DEF Log!vars
  <1>10. ASSUME NEW t \in Readers, ReadLock(t) \/ LookupMiss(t)
         PROVE  UNCHANGED <<cache, want, found>>
    BY <1>10 DEF ReadLock, LookupMiss
  <1>11. ASSUME NEW w \in Writers, WriteLock(w) \/ AddRefuse(w)
         PROVE  UNCHANGED <<cache, want, found>>
    BY <1>11 DEF WriteLock, AddRefuse
  <1>12. ASSUME NEW t \in Threads, Create(t) \/ Exit(t)
         PROVE  UNCHANGED <<cache, want, found>>
    BY <1>12 DEF Create, Exit
  <1>13. ASSUME CreateDone \/ Join \/ Terminated \/ UNCHANGED vars
         PROVE  UNCHANGED <<cache, want, found>>
    BY <1>13 DEF CreateDone, Join, Terminated, vars
  <1> QED
    BY <1>4, <1>5, <1>6, <1>7, <1>8, <1>9, <1>10, <1>11, <1>12, <1>13
       DEF Next, Reader, Writer, Log!Next

(* The cache implements a log: entries appear whole, at one moment, and    *)
(* never change, and a lookup that finds something published is answered   *)
(* from the first one, for any number of readers and writers.              *)
THEOREM Implements == Spec => ImplementsLog
  <1>1. Init => IInv /\ EntriesInv /\ PointerInv
    BY InitIInv, InitEntries, InitPointer
  <1>2. IInv /\ EntriesInv /\ PointerInv /\ [Next]_vars => (IInv /\ EntriesInv /\ PointerInv)'
    BY NextIInv, NextEntries, NextPointer
  <1> QED
    BY <1>1, <1>2, InitLog, NextLog, PTL DEF Spec, ImplementsLog, Log!Spec
=============================================================================
