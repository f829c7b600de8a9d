# TLA+ models of the thread and SIP programs

This directory holds TLA+ specifications of the C programs under `pthreads/`
and `demos/`, the TLC configurations that check them and TLAPS proofs about every
module that models a program. Line numbers refer to the files under `pthreads/` and `demos/`.

## The system

The repository is a set of self-contained training programs. They share no
code, but they share designs: a ring buffer behind a mutex and two condition
variables appears in four of them, and the last two are servers built on it.

| Part | File | State | Operations | How it interacts |
|---|---|---|---|---|
| Fixed thread pool | `pthreads10.c` 50-118 | ring (`tasks`, `head`, `tail`, `count`), `queue_mutex`, two condition variables, `shutdown` | `thread_pool_init`, `thread_pool_submit`, `worker`, `thread_pool_destroy` | callers and workers meet in the ring; `main` owns the pool |
| Connection server | `pthreads10.c` 120-224 | listening socket, descriptors, the pool | the loop of `main`, `handle_client` | accepts connections and submits one task each |
| Growing thread pool | `pthreads6.c` | the same ring; `num_threads` behind `pool_mutex` | the same, and `add_worker` | a submission that fills the ring adds a worker |
| Shared cache | `pthreads1.c` | array of entries, `count`, read-write lock | `cache_lookup`, `cache_add`, reader, writer, `main` | a lookup hands out a pointer that is used without the lock |
| Barrier | `pthreads2.c` | barrier of `NUM_THREADS` | `worker_function`, `main` | threads meet once; `main` gives up when it cannot create one |
| Rate limiter | `pthreads4.c` | heap-allocated semaphore | create, acquire, release, destroy, task, `main` | `main` frees the semaphore, on an error while it is in use |
| Blocking queue | `pthreads3.c` | a pointer to a queue that no function makes | `bqueue_enqueue`, producer, consumer, `main`; the other operations have no body | `main` joins the producer on an error, then destroys |
| Thread-local storage | `pthreads5.c` | a key, the arguments in `main`'s frame | `thread_function`, `main`; the storage functions have no body | threads read `main`'s frame |
| Thread cancellation | `pthreads7.c` | a key | `main`; the thread has no body | `main` cancels a thread that may have ended |
| Event signalling | `pthreads8.c` | a mutex and a condition variable, never initialised | `main`; the threads have no body | `main` joins and destroys |
| Priority pool, key-value server | `pthreads9.c`, `11` | - | do not compile; bodies left empty as exercises | - |
| SIP clients and server | `demos/demo2.c` to `demo5.c`, `demos/docs/miniserver.c` | handles of the Sofia-SIP user agent | one event callback each, `main` | the library calls the callback from its event loop |

Hard in these programs: the order in which threads are woken and find that
somebody else was faster; wakeups lost or sent to the wrong set of waiters; a
shutdown that comes while others wait; one step of several failing
(`pthread_create`, `fcntl`, `malloc`); locks taken twice; memory used after the
lock that protects it was released or after it was freed; threads or
descriptors running out. `PROJECT.json` lists them line by line under
`hazards`, with the property that would catch each.

What makes each part correct:

- the pools: no task is lost, run twice or run out of order; no thread sleeps
  while there is something to do for it; submit and destroy return; nobody
  touches the ring once it is freed;
- the server: no descriptor is leaked on an error path or closed before its
  connection is handled, a burst of connections is bounded, every connection is
  handled;
- the cache: entries are whole, none is lost, a lookup tells the truth and its
  pointer stays good;
- the barrier: nobody is early, the program ends;
- the limiter: never too many inside, everyone gets a turn;
- the programs of `pthreads3`, `5`, `7` and `8`: nothing is released under a
  running thread, and success is only reported when every thread has ended;
- the SIP programs: the event loop ends when it was told to, the agent is
  released once and no path returns with an agent or an event loop left, and the
  other party's hang-up is answered.

## Modules

| Module | Models |
|---|---|
| `TaskQueue` | what a pool promises: a bounded FIFO queue with a limited number of servers, which can be closed |
| `RingMonitor` | what both pools have in common: the ring, its mutex, its two condition variables, and what it means that no task and no wakeup is lost; the pools extend it |
| `RingMonitor_proofs` | lemmas about `RingMonitor`: the arithmetic of the ring, the ring as a sequence, where the tasks are, the effect of a signal and the counting of sleepers |
| `ThreadPool` | the pool of `pthreads10.c`; implements `TaskQueue` |
| `DynamicPool` | the pool of `pthreads6.c`; implements `TaskQueue`, never closed |
| `Server` | `main` and `handle_client` of `pthreads10.c`, composed with `TaskQueue` in the place of the pool |
| `EntryLog` | what the cache promises: a log to which entries are added at one moment, and of which a lookup that is answered sees the first |
| `SharedCache` | `pthreads1.c`; implements `EntryLog` |
| `ThreadBarrier` | `pthreads2.c` |
| `RateLimiter` | `pthreads4.c` |
| `ThreadPrograms` | `pthreads3.c`, `pthreads5.c`, `pthreads7.c`, `pthreads8.c` |
| `FourPrograms` | `ThreadPrograms` with names of its own for what `RateLimiter` calls the same, so that `Programs_proofs` can speak of both; the run and the theorems go through it |
| `SipAgent` | `demo2.c` to `demo5.c` and `miniserver.c`, over the Sofia-SIP library |
| `ThreadPool_proofs`, `DynamicPool_proofs`, `Server_proofs`, `SharedCache_proofs`, `ThreadBarrier_proofs`, `SipAgent_proofs` | theorems about the module they are named after |
| `Programs_proofs` | theorems about `RateLimiter` and `ThreadPrograms`, the mains that create threads, join them and release what they use |
| `MC...` | the constants of the TLC instances |

An operator whose comment starts with "Mutant" is not part of a specification.
It is a definition as a plausible slip would have it; put in the place of the
definition that follows it, it makes the property named in `PROJECT.json`
fail, which shows that the property depends on that line of code.

### How the models correspond to the code

**Steps.** A step is what a thread does between two points at which another
thread can see or change what it uses. In `ThreadPool` these are the lock, the
test of the wait condition, falling asleep, and each half of the update of the
ring (slot and index; then count, signal and unlock). In `DynamicPool` the
whole update under the mutex is one step, since `ThreadPool` already looks
into it. The program counter `pc` has one value per such point.

**Locks and condition variables.** A mutex is the variable that names its
owner. `pthread_cond_wait` is the step `Park`, which unlocks and sleeps
at once, the signal (or a spurious wakeup), and `Acquire`. A signal
wakes one of the sleepers, any of them. Signal and unlock are one step: a
woken thread needs the mutex, so nothing can happen in between. Spurious
wakeups are bounded by `MaxSpurious`.

**History variables.** `fate` in the pools, `found` and `added` in the
cache, `answered` in `SipAgent` record what happened for the properties; no guard of the program's
own steps reads them, except that a task, like an allocated argument, is
submitted only once.

**What the code leaves undefined.** A worker of `pthreads10.c` that was not
created has a handle that was never written: joining it may crash or be
ignored (`DestroyJoin`), and the same in `SharedCache`. It might also wait for
ever, which in the model is what the crash is: no step of `main` follows. The cache is a
local variable: its keys are arbitrary at first (`garbage`), and
`PointersGood` says that a reader is handed an entry that is not
published for that reason only. A freed
semaphore has any value (`Garbage`).

**glibc.** Mutexes are of the default kind, so locking one twice blocks.
`pthread_cond_destroy` and `pthread_barrier_destroy` wait until nobody is
inside. A read lock is granted while writers wait.

**Sofia-SIP** is not in the repository; `SipAgent` models it from how the
programs use it. The stack runs beside `main` and queues any event at any time
(`Emit`); `su_root_run` calls the callback for them in order (`Deliver`), and
after `su_root_break` may still deliver what is queued; `nua_shutdown` is
answered by `nua_r_shutdown`, with status 100 first if something is under way
(`AnswerShutdown`; the output recorded in `demo4.c`, lines 136-140, shows the
final one); `nua_destroy` before the final answer was delivered is an error of
the caller, on which an assertion of the library may end the program. The
statuses and events are the ones the callbacks tell apart. All programs share
the actions of `main`; `program` selects the callback and what comes before the
loop. `su` is the library between `su_init` and `su_deinit`, `home` the
memory home of `demo5.c`, `blocks` what `send_sip_message` allocated.

**The pool under the server.** `Server` does not repeat the pool's threads; it
uses `TaskQueue`, with `workers` servers. `thread_pool_init` ignores a failed
`pthread_create` (line 62), so `workers` is any number up to `PoolSize`, zero
included.

**`pthreads10.c` as intended.** The declaration `task_t **tasks[1]` (line
26) does not compile with the accesses `tasks[0][i].function`; the model uses
the ring of `task_t` that all function bodies, and `pthreads6.c`, work with.

**Functions without a body.** In `pthreads3`, `5`, `7` and `8` many functions
consist of a comment. They compile, and return at once without a value;
`ThreadPrograms` models what follows from that, and not what the comments
describe. The queue that `bqueue_create` does not make lies anywhere, if it is
not NULL: `bqueue_enqueue` on it faults, waits forever or returns (`Enqueue`).
The condition variable of `pthreads8.c` is destroyed without having been
initialised, which may wait forever (`StateUninitialised`). The four mains do
the same things in the same order, so they are records (`QueueMain`, `TlsMain`,
`CancelMain`, `EventMain`) that say how they differ: their threads, whether the
resource may be refused, what a failure does, and whether a thread is cancelled
or reads an argument in `main`'s frame.

**Left out of the modelled parts.** Failures of `malloc` in the pools'
`init`, which the code reports and then ignores; printing; sleeping, which the
interleaving of steps covers; the data race on `cache` contents in a lookup
that matched an entry never written, beyond the arbitrary contents.

### Refinement

`ThreadPool!ImplementsQueue` maps the ring to the waiting tasks: a task is
accepted when `count` is incremented, and started when a worker copies it out
of its slot, although `count` is decremented one step later (`Live` corrects
for it). `DynamicPool!ImplementsQueue` is the same with `closed` always false.
`Server` then uses `TaskQueue` for the pool, so that its state space does not
contain the pool's threads.

`SharedCache!ImplementsLog` maps the entries below `count` to the log. An
insertion takes effect when `count` is incremented (line 54); the copies of key
and value before it are stutters, and so are the lock and the unlock. A lookup
takes effect at its comparison; a reader that has printed the value forgets it.
A lookup that returns the
address of an entry that was never written, which happens only in an empty
cache (`garbage`), maps to one that is not answered, and `EntryLog` promises
nothing about a lookup answered with NULL, since line 45 gives it for any key
but the first.

## Runs

| Run | Question | Instance |
|---|---|---|
| `pool` | Is the pool a correct monitor (exclusion, no task or wakeup lost, nobody at the ring once it is freed, FIFO), are tasks served, and do submit and destroy return? | 2 workers, 2 callers, 4 tasks, ring of 2 |
| `dynamic_pool` | The same for the growing pool, as long as it does not try to grow | 2 workers, 2 callers, 4 tasks, ring of 2 |
| `dynamic_resize` | Does a submission that adds a worker return? No. | 1 of 2 workers, ring of 2 |
| `dynamic_destroy` | Does destroy return? No. | 1 of 2 workers, a ring that never fills, as in `main` |
| `cache` | Are entries whole, none lost, no half insertion seen, pointers good, is the cache a log, and does the program end? | 2 readers, 2 writers of 2 keys, 3 entries |
| `cache_lookup` | Does NULL mean that the key is absent? No. | 1 reader, 1 writer |
| `barrier` | Is nobody early, and what can keep the program from ending, if the barrier and the threads may fail to be created? | 4 threads |
| `barrier_serial` | Does the serial thread act? No. | 3 threads, as in the program |
| `rate_limiter` | Are permits conserved, and does everyone get a turn? | 5 threads, 3 permits, as in `main` |
| `sip_agent` | Is the agent released once and after a shutdown was asked for, does no agent, loop or message outlive `main`, does the loop end, and is a BYE answered that came while the user was typing, if only expected events wait before it? | all five programs, 3 events, 3 queued |
| `thread_programs` | Is nothing released under a running thread, does success mean that all is done, and what can keep the programs from ending? | all four programs, as many threads as they create |
| `server` | Does every descriptor have an owner, is the backlog bounded, is every connection handled if there is a worker? | 5 connections, 1 worker or none, 1 queued task, 4 descriptors |

**Bounds.** Two slots and four tasks let the ring wrap, fill and empty in all
ways, with both callers asleep and several signals pending. Two sleepers of
each kind are the least for a signal to have a choice and for a missing signal
to matter; that exclusion, the indices, the tasks, the wakeups and the release
are right with more threads and with any ring, one of a single slot included,
is proved. One
spurious wakeup is enough to put a thread in the place it tests. The cache has
one entry less than the writers want to add. The server has one connection
more than descriptors and two more than its pool can hold. Three events let a
callback ask for the shutdown, break the loop and be called once more, with the
answers to the shutdown, which are not counted, before, between or after.

**Deadlock checking** is on for the cache and the limiter. It is
off where the program really stops: a pool without workers leaves callers
asleep, `main` of the server among them once it is full, a shutdown leaves a caller asleep that waits for room (line 107 wakes
workers only), a resize leaves its caller waiting for itself, idle workers of
`pthreads6.c` sleep forever, an event loop waits for events that may not come,
the producer of `pthreads3.c` waits for a queue that was never created, and a
barrier is never completed when `main`
gave up.

**Fairness** is weak fairness of each thread's own steps: the scheduler runs
every thread that exists and can run; a task is taken because there is a worker
(`StartTask`), so without one nothing is promised. Mutexes are not fair, and no strong fairness is
assumed; this suffices because every other thread takes a mutex a bounded
number of times only before it has to wait. Calls to submit and destroy,
failures, spurious wakeups, interrupted system calls and clients are not fair:
they may never happen. The SIP stack answers a shutdown; the user who types
commands and the network owe nothing.

### What the failing runs show

- `dynamic_resize`: `thread_pool_submit` locks `pool_mutex` (line 100) and
  calls `add_worker`, which locks it again (line 120). The caller waits for
  itself and owns `queue_mutex` as well, so the whole pool stops, against the
  comment of lines 85-87. `main` avoids it: 15 tasks never fill a ring of 20.
- `dynamic_destroy`: the workers have no way to end, so the joins of line 182
  do not return and nothing is released, against lines 171-173.
- `cache_lookup`: lines 44-45 leave the loop in its first turn, so only the
  first entry is ever found, against lines 33-35.
- `barrier_serial`: line 34 compares `thread_id` instead of `bar`, so nobody
  performs the special action of lines 18-19.

Against a text of the repository as well, and shown by a theorem instead of a
run:

- `NeverClosed`: the comment of `handle_client` (`pthreads10.c`, line 128) says
  that it closes the connection. The function is empty, so a handled connection
  stays open for as long as the process lives. `FdsOwned` allows a handled
  connection to be open or closed, and `EventuallyHandled` excepts a process
  that has run out of descriptors.
- `LibraryLeftOpen`: `docs/Sofia-SIP_doc.md`, lines 11-12, asks that the library
  be closed at the end of an application (it calls the function
  `sofia_shutdown`; in the programs it is `su_deinit`). Every program that
  finds no event loop or no agent returns without it (`demo2.c`, lines 28
  and 35; `demo3.c`, 50 and 60; `demo4.c`, 85 and 97; `demo5.c`, 150 and 161;
  `miniserver.c`, 56 and 68), and `demo5.c` never gives back the memory home of its
  line 145, not even at an orderly end.

Also visible in the models, without a text of the repository that promises
otherwise, are these. The properties except them, and so do not guard against
them; `hazards` says so at each line.

- Pool: callers asleep in submit at shutdown are never woken (`WakeupsKept`,
  `SubmitReturns` and `DestroyReturns` name the case). A caller that comes late
  locks the mutex that `thread_pool_destroy` destroys before it is refused
  (`NoUseAfterFree` says that it goes no further). If no worker could be created,
  nothing is ever executed (`TasksServed`), and the server handles nobody
  (`EventuallyHandled`).
- `pthreads2.c`: `main` hangs when it cannot create a thread and another one
  already waits (`EndsUnlessStuck`).
- `pthreads4.c`: `main` frees a semaphore in use when it cannot create a thread.
- `pthreads5.c`: `main` returns, after a failure, while threads read its frame.
- `pthreads7.c`: `main` returns 1 without a join when the thread it cancels has
  ended.
- `pthreads8.c`: the condition variable that nobody initialised may hang `main`.
- SIP: `demo5.c` and `miniserver.c` destroy an agent they never shut down, and
  `demo3.c` and `demo4.c` may do it before the shutdown is complete, so that the
  library may end the program instead (`"aborted"` in `SipAgent`). A BYE that
  waits in `demo5.c` behind an unexpected event may never be answered, since that
  event ends the loop (lines 126-131).

## Proofs

The theorems hold for every value of the constants that satisfies the
assumptions stated beside their declarations: finite, disjoint sets of threads,
one of them the owner of the pool, positive capacities and bounds, and values
for "none" that are not real ones.

| Module | Theorem | Property | Meaning |
|---|---|---|---|
| `ThreadPool_proofs` | `TypeCorrect` | `TypeOK` | the count stays in 0..capacity, the indices in the array, and no thread leaves the control flow of its kind |
| | `MonitorCorrect` | `MonitorInv` | critical sections exclude each other, and what a thread tested in one still holds when it acts on it |
| | `SafeRelease` | `NoUseAfterFree` | once the pool may be freed nobody touches the ring, no worker takes the mutex and nobody falls asleep |
| | `TasksConserved` | `TaskConservation` | no task is lost, duplicated or invented |
| | `NoWakeupLost` | `WakeupsKept` | nobody sleeps while there is something to do that no thread on its way will do; a shutdown leaves no worker asleep |
| | `Implements` | `ImplementsQueue` | the ring, its mutex and its condition variables implement `TaskQueue` |
| `DynamicPool_proofs` | `TypeCorrect` | `TypeOK` | the same, and there are never more than `max_threads` workers |
| | `MonitorCorrect` | `MonitorInv` | the two mutexes nest, `num_threads` counts the workers, and a caller that adds one owns `pool_mutex` already |
| | `TasksConserved` | (none) | no task is lost, duplicated or invented: `Conserved(count)` |
| | `NoWakeupLost` | `NoLostWakeup` | the same for both condition variables of the growing pool |
| | `Implements` | `ImplementsQueue` | the growing pool implements `TaskQueue`, never closed |
| | `NeverGrows` | (none) | a submission that goes to add a worker never comes back, nothing is accepted or fetched after it, and `num_threads` changes only inside `thread_pool_init`: what the run `dynamic_resize` shows once happens for all constants |
| | `NeverDestroyed` | (none) | a destroy that joins a worker never comes back: what the run `dynamic_destroy` shows once happens for all constants |
| `SharedCache_proofs` | `TypeCorrect` | `TypeOK` | the count never exceeds `MAX_CACHE_SIZE` |
| | `LockCorrect` | `LockInv` | the read-write lock excludes what it should |
| | `EntriesCorrect` | `EntriesIntact` | no entry is torn, lost or there twice |
| | `PointersCorrect` | `PointersGood` | a pointer used after the unlock leads to the value that was found, and no reader is handed half an insertion |
| | `Implements` | `ImplementsLog` | the array, its count and its lock implement `EntryLog` |
| `ThreadBarrier_proofs` | `TypeCorrect` | `TypeOK` | types |
| | `NobodyIsEarly` | `Rendezvous` | nobody passes the barrier before all arrived |
| | `SerialThreadIdle` | (none) | exactly one thread is told that it is the serial one, and none performs the special action: what the run `barrier_serial` shows once happens for any number of threads |
| `Programs_proofs` | `TypeCorrect` | `TypeOK` | types of `RateLimiter` |
| | `PermitsCorrect` | `PermitsConserved` | permits and threads inside add up to the maximum |
| | `FourTypes` | `FourTypeOK` | types of `ThreadPrograms`; the threads that exist are the first ones |
| | `FourRelease` | `ReleasedLast` | nothing is released under a running thread |
| | `FourSuccess` | `SuccessMeansDone` | 0 is returned only when all threads have ended, none of which read a frame that was gone |
| `SipAgent_proofs` | `TypeCorrect` | `TypeOK` | an agent exists only in a loop that exists |
| | `ReleaseCorrect` | `ReleasedOnce` | the agent is destroyed at most once, and no agent, handle, loop or message outlives the program |
| | `LibraryLeftOpen` | (none) | an error path always leaves the library open, and `demo5` always its memory home |
| | `ShutdownCorrect` | `ShutdownFirst` | the shutdown is asked for before the release |
| `Server_proofs` | `TypeCorrect` | `TypeOK` | the process stays within its descriptors |
| | `DescriptorsOwned` | `FdsOwned` | every descriptor has an owner, and none is closed before its connection is handled |
| | `NeverClosed` | (none) | a handled connection stays open for good |
| | `ConnectionsBounded` | `BackPressure` | the backlog is bounded by the ring, the workers that exist and `main` |

Each module proves that an invariant `IInv` holds at first and that every step
keeps it (`InitIInv`, `NextIInv`, one step of the proof per action), and that it
implies the properties. What makes the properties inductive:

- **Fixed pool.** That `count + 1` in `SubmitPublish` stays within the capacity
  needs that the ring still has the room the caller saw when it tested, one step
  earlier; that needs that nobody else published since, which is mutual
  exclusion; and exclusion is inductive only together with the fact that a
  thread inside the monitor is its owner. `MonitorInv` collects these facts and
  the relation of `tail` to `head` and `count`, in which `Live` and `Publishing`
  account for an update that is half done. `NoUseAfterFree` rests
  on two things (`ReleasedStep`). No worker is left: `main` leaves the joins only
  when each has ended or never existed, such a worker has no step, and a signal
  reaches sleepers only (`WorkersGone`). And a caller gets no further than the
  test: while `main` is past the announcement `shutdown` is set (`Closed`), and by
  `MonitorInv` a caller that is about to write, or to sleep, found it unset
  under the mutex it still owns.
- **Conservation of tasks.** Counting is not inductive: that as many tasks are
  queued as the ring holds does not say which. `Placed` says it instead: the
  ring is a sequence without repetition of exactly the queued tasks, and the
  arguments of the workers and of the callers are exactly the running and the
  passed ones, each held once. `PlacedConserved` derives the counts of
  `Conserved` from it. `HoldInv` ties the arguments to the program counters,
  and says that the slot a caller has filled, but not counted yet, holds its
  task; otherwise `SubmitPublish` could publish anything. Every action is one of
  six moves of a task (`Rests`, `Passes`, `Drops`, `Enters`, `Begins`, `Ends`;
  `NextMove`), the same six for both pools, and a move keeps `Placed`
  (`MovePlaced`). That an append and a removal at the ring's ends are `Append`
  and `Tail` of a sequence are the lemmas `RingAppend` and `RingTail`.
- **Refinement.** The same moves give the steps of `TaskQueue` (`NextQueue`):
  `Enters` is `Accept`, `Begins` is `Start`, `Ends` is `Finish`, the others
  stutter, and `DestroyAnnounce` is `Close`. `Placed` supplies what `TaskQueue`
  asks for and the code does not test: an accepted task is new
  (`MoveEnters`), and fewer tasks run than there are workers when one starts
  (`MoveBegins`).
- **Wakeups.** `Served(S, k)` says that while a thread of `S` sleeps at least
  `k` others are on their way to test. It is kept by a step that lets the
  demand alone (`ServedCalm`), by one that takes a thread off the way and one
  from the demand (`ServedOne`), by a signal for one more (`ServedSignal`), and
  trivially by a thread that goes to sleep because there is no demand
  (`ServedNobody`): the test of the wait condition still holds when the thread
  sleeps, since `pthread_cond_wait` is entered under the mutex. For the fixed pool `WakeInv` adds
  that no worker sleeps after the shutdown, which is inductive because a worker
  that parks found `shutdown` unset and still owns the mutex.
- **Growing pool.** `SubmitResize` acts on a test of `num_threads` that was made
  before `pool_mutex` was taken. It stays true because the only other code that
  adds workers is `thread_pool_init`, during which no other caller is inside the
  pool (`InitAlone`). The same fact (`OnlyInitAdds`) gives `NeverGrows`: a
  submission at the lock in `add_worker` owns `pool_mutex`, and nobody else can
  release it. `NeverDestroyed` rests on `num_threads` being the number of
  workers (`MonitorInv`): the loop of joins is empty only without workers.
- **Cache.** `IInv` adds to the types and the lock that a thread inside an
  iteration has one left and that a writer past the test has room (`TurnInv`).
  On top of it, `EntriesInv` says what an insertion in progress has written so
  far (`InProgress`), that nothing beyond was touched (`Untouched`), and that a
  writer has not added the value of its turn yet (`AddedBefore`), which keeps
  the values distinct. `QuietStep` handles at once the actions that leave the
  entries alone. `PointerInv` says that a published entry that
  was handed out is the first one, which is there for good. For the refinement
  `Entered` is the array below the count as a sequence; `EnteredAppend` says that
  counting one entry more appends it. `NextLog` then shows that `AddPublish` is
  `Add`: the entry is whole (`InProgress`), new (`AddedBefore`, and the values of
  the published entries are the ones added) and within the bound (`TurnInv`), and
  that the steps before it leave the log alone because the slot they write is
  not below the count.
- **Barrier.** The threads are created in order (`CreatedInOrder`), so that an
  arrival that completes the count completes the set (`EverybodyMet`). The
  barrier opens once, for all of them, so that one is told to be the serial
  thread; its identifier is never -1 (`SerialIgnored`).
- **Limiter.** No thread exists before the limiter (`NobodyBefore`); the balance
  of permits is kept by every step that moves nobody (`BalanceKept`).
- **The programs of `pthreads3`, `5`, `7` and `8`.** `ProgramRecords` is what the
  four records have in common. `FourInv` adds two facts to the properties: a main
  that cancels, joins or releases with success in mind has created all its
  threads (`AllCreated`), and nothing stale was read while main is there
  (`FrameThere`).
- **SIP programs.** `ResourcesInv` says what exists at each place of `main`, the
  library and the memory home included; `LibraryLeftOpen` follows from it by way
  of `LeftOpen`.
  `DestroyInv` says that only `miniserver` destroys the agent early, that
  nothing breaks its loop, and that what breaks the loop of `demo3` and `demo4`
  asks for the shutdown; `DeliverEffect` sums the five callbacks up.
- **Server.** A pending connection has no descriptor (`FiniteInv`) and the pool
  keeps its bounds, with as many tasks running as there are workers at most
  (`PoolInv`). That handled connections stay open (`HandledStayOpen`) is
  needed even for what is not about them: what `main` accepts has no descriptor
  yet, hence was never given to the pool, so that the task it submits is new; the backlog is then at most the waiting tasks,
  the running ones and the connection `main` holds (`BoundFollows`).

`RingMonitor_proofs` holds what both pools need. Besides the lemmas named above
these are the arithmetic of the ring, in four lemmas about remainders of numbers
below twice the capacity (`ModOnce`, `AdvanceInSlots`, `AdvanceAdd`,
`AddAdvance`), and the effect of a signal on the program counters in three
(`SignalledCases`, `SignalKeeps`, `SignalWakes`).

Every safety property that a passing run checks is a theorem. Liveness stays with
TLC alone (`TasksServed`, `SubmitReturns`, `DestroyReturns`, `ProgramEnds` of two
modules, `EndsUnlessStuck`, `EveryThreadEnds`, `LoopEnds`, `HangupHeard`,
`EventuallyHandled`): it needs fairness, whose ENABLED conditions the proof
system does not handle. The safety it rests on, that no wakeup is lost, that the
locks exclude and that permits are conserved, is proved. Of the violated
properties, what the code does instead is proved for three of the four
(`NeverGrows`, `NeverDestroyed`, `SerialThreadIdle`), as it is for the two texts
above that no run is about (`NeverClosed`, `LibraryLeftOpen`); for the fourth,
`MissMeansAbsent`, it is the guard of `LookupMiss`.

## Not modelled

`pthreads9.c` and `pthreads11.c` are no programs: the first uses
`THREAD_POOL_SIZE`, which it declares nowhere, the second has text after the end
of `main`, so neither compiles; their functions are empty, or, in
`pthreads11.c`, parts of `pthreads10.c` with the error branches missing. Also
not modelled are what the SIP programs send and print, the documents and the
container recipe.

## Plan

1. Done: all components that compile, each with its runs and theorems.
2. Done: the theorems about both pools, that is the conservation of tasks, the
   wakeups and the refinement of `TaskQueue`.
3. Done: an abstract specification of the cache, and the proof that the program
   implements it; the theorems about the four programs without bodies; what the
   code does where a run finds a comment violated.
4. Left: one lemma per kind of step for the two pools' proofs that no wakeup is
   lost, which repeat each other for the steps that wake and stop nobody; an
   abstract limiter, a bounded number of servers, of which `PermitsConserved`
   is the substance.
