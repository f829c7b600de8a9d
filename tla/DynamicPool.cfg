\* Two threads submit. A worker that could not be created leaves the pool below
\* its maximum, so that a full ring leads to a resize as well as to a wait.
\* The program really stops: a caller that adds a worker waits for itself, and
\* once no task is left the workers sleep forever.
SPECIFICATION FairSpec
CHECK_DEADLOCK FALSE
CONSTANTS
  w1 = w1
  w2 = w2
  w3 = w3
  c1 = c1
  c2 = c2
  t1 = t1
  t2 = t2
  t3 = t3
  t4 = t4
  Workers = {w1, w2}
  Callers = {c1, c2}
  Main = c1
  Tasks = {t1, t2, t3, t4}
  Capacity = 2
  InitialThreads = 2
  MaxSpurious = 1
  NoTask = NoTask
  NoThread = NoThread
INVARIANTS TypeOK MonitorInv NoLostWakeup
PROPERTIES ImplementsQueue TasksServed SubmitReturns
