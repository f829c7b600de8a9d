------------------------------- MODULE Server -------------------------------
(***************************************************************************)
(* The server of pthreads/pthreads10.c: main accepts connections on a      *)
(* non-blocking socket and submits one task per connection to the thread   *)
(* pool. The pool is the abstract TaskQueue, which ThreadPool implements.  *)
(*                                                                         *)
(* The kernel's queue of connections and the clients are the environment;  *)
(* a client connects once.                                                 *)
(***************************************************************************)
EXTENDS Naturals, Sequences, FiniteSets

CONSTANTS Clients,     \* the connections there may be
          MaxPending,  \* how many connections the kernel queues: MAX_CLIENTS
          MaxTasks,    \* MAX_TASKS
          PoolSize,    \* THREAD_POOL_SIZE
          MaxFds,      \* how many more files the process may open
          NoClient     \* main holds no connection

ASSUME ServerAssumption == /\ MaxPending \in Nat \ {0}
                           /\ MaxTasks \in Nat \ {0}
                           /\ PoolSize \in Nat \ {0}
                           /\ MaxFds \in Nat \ {0}
                           /\ NoClient \notin Clients

VARIABLES main,      \* where main is
          pending,   \* the connections the kernel holds for accept
          conn,      \* new_socket, while main is responsible for it
          fds,       \* the connections whose descriptor is open
          gone,      \* the connections that ended before they were served
          workers,   \* how many threads thread_pool_init could create
          waiting, running, done, closed   \* the pool

Pool == INSTANCE TaskQueue
          WITH Tasks <- Clients, Bound <- MaxTasks, Servers <- PoolSize

poolVars == <<waiting, running, done, closed>>
rest == <<pending, conn, fds, gone, poolVars>>
vars == <<main, workers, rest>>

MainPC == {"start", "listen", "select", "accept", "setup", "submit", "exited"}

Go(from, to) == main = from /\ main' = to
Step(from, to) == Go(from, to) /\ UNCHANGED workers

(* The connections that came so far.                                       *)
Arrived == pending \cup gone \cup fds

-----------------------------------------------------------------------------
(* Clients and the kernel.                                                 *)

Connect(c) == /\ main \notin {"start", "listen", "exited"}
              /\ c \notin Arrived
              /\ Cardinality(pending) < MaxPending
              /\ pending' = pending \cup {c}
              /\ UNCHANGED <<main, workers, conn, fds, gone, poolVars>>

(* A client may go away before main accepts it, even between the select    *)
(* that reported it and the accept.                                        *)
GiveUp(c) == /\ main # "exited"
             /\ c \in pending
             /\ pending' = pending \ {c}
             /\ gone' = gone \cup {c}
             /\ UNCHANGED <<main, workers, conn, fds, poolVars>>

-----------------------------------------------------------------------------
(* main.                                                                   *)

(* thread_pool_init, which does not look at what pthread_create returns:   *)
(* there are as many workers as could be created, perhaps none.            *)
CreatePool == /\ Go("start", "listen")
              /\ workers' \in 0 .. PoolSize
              /\ UNCHANGED rest

(* socket, fcntl, bind or listen fail, and main exits. A failure of socket *)
(* is not noticed until fcntl refuses the descriptor -1.                   *)
StartFails == /\ Step("listen", "exited")
              /\ UNCHANGED rest

Start == /\ Step("listen", "select")
         /\ UNCHANGED rest

(* select reports a connection. Its failure starts the loop again, which   *)
(* changes nothing, ...                                                    *)
Select == /\ pending # {}
          /\ Step("select", "accept")
          /\ UNCHANGED rest

(* ... except when a signal interrupted it: readfds is still as it was     *)
(* set, and main goes on to accept, with or without a connection.          *)
SelectInterrupted == /\ Step("select", "accept")
                     /\ UNCHANGED rest

(* Mutant: main gives up when accept fails.                                *)
ForGood == "exited"

AfterNoConnection == "select"

(* No connection (EAGAIN: the socket does not block) or no descriptor left *)
(* (EMFILE: the connection stays in the kernel's queue).                   *)
AcceptFails == /\ pending = {} \/ Cardinality(fds) = MaxFds
               /\ Step("accept", AfterNoConnection)
               /\ UNCHANGED rest

AcceptConn == /\ Cardinality(fds) < MaxFds
              /\ Step("accept", "setup")
              /\ \E c \in pending : /\ conn' = c
                                    /\ pending' = pending \ {c}
                                    /\ fds' = fds \cup {c}
              /\ UNCHANGED <<gone, poolVars>>

(* Mutants: the connection is not closed; the task is submitted anyway.    *)
NotClosed == {}
SubmittedAnyway == "submit"

ClosedOnFailure == {conn}
AfterFailure == "select"

(* The connection cannot be made non-blocking, or there is no memory for   *)
(* the task's argument: it is closed.                                      *)
SetupFails == /\ Step("setup", AfterFailure)
              /\ fds' = fds \ ClosedOnFailure
              /\ gone' = gone \cup {conn}
              /\ conn' = NoClient
              /\ UNCHANGED <<pending, poolVars>>

Setup == /\ Step("setup", "submit")
         /\ UNCHANGED rest

(* thread_pool_submit: main waits while the pool is full, and accepts no   *)
(* connection in the meantime.                                             *)
Submit == /\ Step("submit", "select")
          /\ Pool!Accept(conn)
          /\ conn' = NoClient
          /\ UNCHANGED <<pending, fds, gone>>

-----------------------------------------------------------------------------
(* The workers of the pool.                                                *)

(* A worker that exists and is not busy takes the oldest task.             *)
StartTask == /\ main # "exited"
             /\ Cardinality(running) < workers
             /\ Pool!Start
             /\ UNCHANGED <<main, workers, pending, conn, fds, gone>>

(* handle_client returns: its body is empty, the connection stays open.    *)
HandleClient(c) == /\ main # "exited"
                   /\ Pool!Finish(c)
                   /\ UNCHANGED <<main, workers, pending, conn, fds, gone>>

-----------------------------------------------------------------------------
Init == /\ main = "start"
        /\ pending = {} /\ fds = {} /\ gone = {}
        /\ conn = NoClient /\ workers = 0
        /\ Pool!Init

Main == \/ CreatePool \/ StartFails \/ Start \/ Select \/ AcceptFails \/ AcceptConn
        \/ SetupFails \/ Setup \/ Submit

Terminated == main = "exited" /\ UNCHANGED vars

Next == \/ \E c \in Clients : Connect(c) \/ GiveUp(c) \/ HandleClient(c)
        \/ Main \/ SelectInterrupted \/ StartTask \/ Terminated

(* main and the workers that exist keep running; clients need not do       *)
(* anything, and no signal needs to come.                                  *)
Fairness == /\ WF_vars(Main) /\ WF_vars(StartTask)
            /\ \A c \in Clients : WF_vars(HandleClient(c))

Spec == Init /\ [][Next]_vars
FairSpec == Spec /\ Fairness

-----------------------------------------------------------------------------
(* Properties.                                                             *)

Unhandled == Pool!Waiting \cup running
InPool == Unhandled \cup done
MainHolds == {conn} \ {NoClient}

(* Every variable keeps its type.                                          *)
TypeOK == /\ main \in MainPC
          /\ pending \subseteq Clients /\ Cardinality(pending) <= MaxPending
          /\ conn \in Clients \cup {NoClient}
          /\ fds \subseteq Clients /\ Cardinality(fds) <= MaxFds
          /\ gone \subseteq Clients
          /\ workers \in 0 .. PoolSize
          /\ waiting \in Seq(Clients)
          /\ running \subseteq Clients /\ done \subseteq Clients
          /\ closed = FALSE

(* Every open descriptor has an owner: main on its way from accept to      *)
(* submit, or a task the pool was given. The failures of lines 204 and 212 *)
(* leak none, and none is closed while main holds it or its task is still  *)
(* to be handled. That a handled one is closed is not said: the comment of *)
(* handle_client (line 128) does, the function does nothing.               *)
FdsOwned == /\ Unhandled \cup MainHolds \subseteq fds
            /\ fds \subseteq InPool \cup MainHolds
            /\ conn \notin InPool
            /\ conn # NoClient <=> main \in {"setup", "submit"}

(* Back pressure: the connections that are accepted and not yet handled    *)
(* are at most those that fit the pool and the one main holds, however     *)
(* fast clients connect (line 216 blocks the loop of main).                *)
BackPressure == Cardinality(fds \ done) <= MaxTasks + workers + 1

(* Every connection is eventually handled, closed by main, or gone, unless *)
(* no worker could be created (line 62) or the process runs out of         *)
(* descriptors. An interrupted select and an accept without a connection   *)
(* do not keep main from the next one.                                     *)
EventuallyHandled ==
  \A c \in Clients :
    (c \in pending /\ workers > 0) ~> (c \in done \cup gone \/ Cardinality(fds) = MaxFds)
=============================================================================
