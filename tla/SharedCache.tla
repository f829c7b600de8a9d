----------------------------- MODULE SharedCache ----------------------------
(***************************************************************************)
(* The cache of pthreads/pthreads1.c: an array of entries behind a         *)
(* read-write lock, with reader threads that look keys up, writer threads  *)
(* that append entries, and a main thread that creates and joins them.     *)
(*                                                                         *)
(* A lookup hands out a pointer into the array which its caller follows    *)
(* after the lock was released; an insertion copies the key, copies the    *)
(* value and increments the count, each of which is a step of its own.     *)
(***************************************************************************)
EXTENDS Integers, Sequences, FiniteSets

CONSTANTS Readers,       \* the threads that run reader_thread
          Writers,       \* the threads that run writer_thread
          Keys,          \* the keys a reader may look up
          AddedKeys,     \* the keys every writer adds, in order
          Lookups,       \* how many lookups a reader makes
          MaxCacheSize,  \* MAX_CACHE_SIZE
          NoKey,         \* a key nobody looks up
          NoValue,       \* the content of a value never written
          NoThread       \* there is no writer holding the lock

Threads == Readers \cup Writers
Slots == 0 .. MaxCacheSize - 1

ASSUME ThreadsAssumption == Readers \cap Writers = {} /\ NoThread \notin Threads
ASSUME CacheAssumption == /\ MaxCacheSize \in Nat \ {0}
                          /\ Lookups \in Nat
                          /\ AddedKeys \in Seq(Keys)
                          /\ NoKey \notin Keys

(* The value a writer formats for its n-th key, and the key it belongs to. *)
Value(w, n) == <<w, n>>
Values == {Value(w, n) : w \in Writers, n \in 1 .. Len(AddedKeys)}
KeyOf(v) == AddedKeys[v[2]]

ASSUME ValuesAssumption == NoValue \notin Values

VARIABLES pc,       \* where each reader and writer is
          main,     \* where the main thread is
          sharers,  \* the readers holding the lock
          owner,    \* the writer holding the lock
          keys,     \* cache[i].key
          values,   \* cache[i].value
          count,
          want,     \* the key a reader looks up
          found,    \* history: the value of a published entry it was handed
          todo,     \* the iterations each thread has left
          added,    \* history: the values whose insertion returned 0
          garbage   \* what the memory of the keys held at first

cache == <<keys, values, count>>
lock == <<sharers, owner>>
rest == <<main, want, garbage>>
vars == <<pc, rest, lock, cache, found, todo, added>>

ReaderPC == {"unborn", "failed", "idle", "rdlock", "compare", "use", "ended"}
WriterPC == {"unborn", "failed", "idle", "test", "value", "publish", "ended"}
MainPC == {"create", "join", "ended", "crashed"}

Go(t, from, to) == /\ pc[t] = from
                   /\ pc' = [pc EXCEPT ![t] = to]

Iteration(t) == todo' = [todo EXCEPT ![t] = todo[t] - 1]

-----------------------------------------------------------------------------
(* reader_thread and cache_lookup.                                         *)

LookupCall(r, k) == /\ todo[r] > 0
                    /\ Go(r, "idle", "rdlock")
                    /\ want' = [want EXCEPT ![r] = k]
                    /\ UNCHANGED <<main, garbage, lock, cache, found, todo, added>>

(* Mutants: the lock is not waited for.                                    *)
WritersIgnored == TRUE
EverybodyIgnored == TRUE

NoWriter == owner = NoThread
NobodyInside == NoWriter /\ sharers = {}

(* pthread_rwlock_rdlock: glibc lets readers in while writers wait.        *)
ReadLock(r) == /\ NoWriter
               /\ Go(r, "rdlock", "compare")
               /\ sharers' = sharers \cup {r}
               /\ UNCHANGED <<rest, owner, cache, found, todo, added>>

(* The loop looks at the first entry only, whatever the count, and leaves: *)
(* with the address of the value if the keys are equal, else with NULL.    *)
LookupHit(r) ==
  /\ keys[0] = want[r]
  /\ Go(r, "compare", "use")
  /\ sharers' = sharers \ {r}
  /\ found' = [found EXCEPT ![r] = IF count > 0 THEN values[0] ELSE NoValue]
  /\ UNCHANGED <<rest, owner, cache, todo, added>>

LookupMiss(r) ==
  /\ keys[0] # want[r]
  /\ Go(r, "compare", "idle")
  /\ sharers' = sharers \ {r}
  /\ Iteration(r)
  /\ UNCHANGED <<rest, owner, cache, found, added>>

(* The reader prints the value: it follows the pointer without the lock.   *)
Use(r) == /\ Go(r, "use", "idle")
          /\ found' = [found EXCEPT ![r] = NoValue]
          /\ Iteration(r)
          /\ UNCHANGED <<rest, lock, cache, added>>

-----------------------------------------------------------------------------
(* writer_thread and cache_add.                                            *)

Turn(w) == Len(AddedKeys) - todo[w] + 1

WriteLock(w) == /\ todo[w] > 0
                /\ NobodyInside
                /\ Go(w, "idle", "test")
                /\ owner' = w
                /\ UNCHANGED <<rest, sharers, cache, found, todo, added>>

(* Mutant: the test for room is off by one.                                *)
HasRoomLate == count <= MaxCacheSize

HasRoom == count < MaxCacheSize

(* Mutant: the entry before the first free one.                            *)
LastEntry == IF count = 0 THEN 0 ELSE count - 1

FreeEntry == count

AddKey(w) == /\ HasRoom
             /\ Go(w, "test", "value")
             /\ keys' = [keys EXCEPT ![FreeEntry] = AddedKeys[Turn(w)]]
             /\ UNCHANGED <<rest, lock, values, count, found, todo, added>>

AddValue(w) == /\ Go(w, "value", "publish")
               /\ values' = [values EXCEPT ![FreeEntry] = Value(w, Turn(w))]
               /\ UNCHANGED <<rest, lock, keys, count, found, todo, added>>

(* count++, unlock, return 0.                                              *)
AddPublish(w) == /\ Go(w, "publish", "idle")
                 /\ count' = count + 1
                 /\ owner' = NoThread
                 /\ added' = added \cup {Value(w, Turn(w))}
                 /\ Iteration(w)
                 /\ UNCHANGED <<rest, sharers, keys, values, found>>

(* Mutant: the lock is kept when there is no room.                         *)
Kept == owner

Unlocked == NoThread

(* There is no room: unlock, return -1.                                    *)
AddRefuse(w) == /\ ~HasRoom
                /\ Go(w, "test", "idle")
                /\ owner' = Unlocked
                /\ Iteration(w)
                /\ UNCHANGED <<rest, sharers, cache, found, added>>

-----------------------------------------------------------------------------
(* main, and the end of a thread.                                          *)

(* The result of pthread_create is not looked at.                          *)
Create(t) == /\ main = "create"
             /\ Go(t, "unborn", "idle") \/ Go(t, "unborn", "failed")
             /\ UNCHANGED <<rest, lock, cache, found, todo, added>>

CreateDone == /\ main = "create"
              /\ \A t \in Threads : pc[t] # "unborn"
              /\ main' = "join"
              /\ UNCHANGED <<pc, want, garbage, lock, cache, found, todo, added>>

Exit(t) == /\ todo[t] = 0
           /\ Go(t, "idle", "ended")
           /\ UNCHANGED <<rest, lock, cache, found, todo, added>>

(* The joins and pthread_rwlock_destroy. Joining a thread that could not   *)
(* be created uses a handle that was never written.                        *)
Join == /\ main = "join"
        /\ \A t \in Threads : pc[t] \in {"ended", "failed"}
        /\ \/ main' = "ended"
           \/ (\E t \in Threads : pc[t] = "failed") /\ main' = "crashed"
        /\ UNCHANGED <<pc, want, garbage, lock, cache, found, todo, added>>

-----------------------------------------------------------------------------
(* The array is a local variable of main: what its keys hold at first is   *)
(* not defined, and may happen to be equal to a key that is looked up.     *)
Init == /\ pc = [t \in Threads |-> "unborn"]
        /\ main = "create"
        /\ sharers = {} /\ owner = NoThread
        /\ garbage \in Keys \cup {NoKey}
        /\ keys = [i \in Slots |-> garbage]
        /\ values = [i \in Slots |-> NoValue]
        /\ count = 0
        /\ want = [r \in Readers |-> NoKey]
        /\ found = [r \in Readers |-> NoValue]
        /\ todo = [t \in Threads |-> IF t \in Readers THEN Lookups ELSE Len(AddedKeys)]
        /\ added = {}

Reader(r) == \/ \E k \in Keys : LookupCall(r, k)
             \/ ReadLock(r) \/ LookupHit(r) \/ LookupMiss(r) \/ Use(r)
Writer(w) == \/ WriteLock(w) \/ AddKey(w) \/ AddValue(w)
             \/ AddPublish(w) \/ AddRefuse(w)

Terminated == main \in {"ended", "crashed"} /\ UNCHANGED vars

Next == \/ \E r \in Readers : Reader(r)
        \/ \E w \in Writers : Writer(w)
        \/ \E t \in Threads : Create(t) \/ Exit(t)
        \/ CreateDone \/ Join \/ Terminated

(* Every thread keeps running; a thread whose lock is free eventually gets *)
(* it, since the others take the lock a bounded number of times only.      *)
Fairness == /\ \A r \in Readers : WF_vars(Reader(r))
            /\ \A w \in Writers : WF_vars(Writer(w))
            /\ \A t \in Threads : WF_vars(Create(t)) /\ WF_vars(Exit(t))
            /\ WF_vars(CreateDone) /\ WF_vars(Join)

Spec == Init /\ [][Next]_vars
FairSpec == Spec /\ Fairness

-----------------------------------------------------------------------------
(* Properties.                                                             *)

(* Every variable keeps its type; in particular the count never exceeds    *)
(* MAX_CACHE_SIZE.                                                         *)
TypeOK == /\ pc \in [Threads -> ReaderPC \cup WriterPC]
          /\ \A r \in Readers : pc[r] \in ReaderPC
          /\ \A w \in Writers : pc[w] \in WriterPC
          /\ main \in MainPC
          /\ sharers \subseteq Readers
          /\ owner \in Writers \cup {NoThread}
          /\ keys \in [Slots -> Keys \cup {NoKey}]
          /\ values \in [Slots -> Values \cup {NoValue}]
          /\ count \in 0 .. MaxCacheSize
          /\ want \in [Readers -> Keys \cup {NoKey}]
          /\ found \in [Readers -> Values \cup {NoValue}]
          /\ todo \in [Threads -> 0 .. IF Lookups > Len(AddedKeys) THEN Lookups
                                       ELSE Len(AddedKeys)]
          /\ added \subseteq Values
          /\ garbage \in Keys \cup {NoKey}

Adding(w) == pc[w] \in {"test", "value", "publish"}
Published == 0 .. count - 1

(* The lock excludes: a comparison never overlaps an insertion, and no two *)
(* insertions overlap (lines 38-46 and 50-60 of pthreads1.c).              *)
LockInv == /\ \A w \in Writers : Adding(w) <=> owner = w
           /\ \A r \in Readers : pc[r] = "compare" <=> r \in sharers
           /\ owner # NoThread => sharers = {}

(* No entry is torn and none is lost: the value of every published entry   *)
(* was formatted for its key, and the published values are those whose     *)
(* insertion returned 0, each once (lines 52-56). A refused insertion      *)
(* leaves no trace: with the lock free, no free entry was written.         *)
EntriesIntact ==
  /\ \A i \in Published : values[i] # NoValue /\ keys[i] = KeyOf(values[i])
  /\ {values[i] : i \in Published} = added
  /\ Cardinality(added) = count
  /\ owner = NoThread => \A i \in Slots \ Published : values[i] = NoValue

(* What a lookup hands out. A pointer into a published entry stays good    *)
(* after the lock is released: the reader that follows it finds the value  *)
(* that was there (line 42, and line 70 without the lock). No reader sees  *)
(* half an insertion: it is handed an entry that is not published only if  *)
(* the memory never written happened to hold its key, since the loop looks *)
(* at the first entry of an empty cache too (line 39).                     *)
PointersGood ==
  \A r \in Readers :
    pc[r] = "use" => IF found[r] = NoValue THEN want[r] = garbage
                                           ELSE values[0] = found[r]

(* The cache implements a log of entries that is appended to at its        *)
(* increments of count (line 54), and of which a lookup that finds         *)
(* something published sees the first entry.                               *)
Log == INSTANCE EntryLog
         WITH log <- [i \in 1 .. count |-> <<keys[i - 1], values[i - 1]>>],
              asked <- want,
              answer <- found,
              Entries <- {<<KeyOf(v), v>> : v \in Values},
              Bound <- MaxCacheSize
ImplementsLog == Log!Spec

(* The program ends, or dies joining a thread that was never created.      *)
ProgramEnds == <>(main \in {"ended", "crashed"})

(* The comment of lines 33-35: cache_lookup iterates through the entries   *)
(* and returns NULL only if it does not find the key. In the code only the *)
(* first entry is compared.                                                *)
MissMeansAbsent ==
  [][\A r \in Readers : LookupMiss(r) => \A i \in Published : keys[i] # want[r]]_vars
=============================================================================
