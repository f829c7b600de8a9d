\* Two threads submit while one of them may destroy the pool. The program
\* really stops when a caller waits for room and nobody makes any: no worker
\* could be created, or the pool was shut down.
SPECIFICATION FairSpec
CHECK_DEADLOCK FALSE
CONSTANTS
  w1 = w1
  w2 = w2
  c1 = c1
  c2 = c2
  t1 = t1
  t2 = t2
  t3 = t3
  t4 = t4
  Workers = {w1, w2}
  Callers = {c1, c2}
  Main = c1
  Tasks = {t1, t2, t3, t4}
  Capacity = 2
  MaxSpurious = 1
  NoTask = NoTask
  NoThread = NoThread
INVARIANTS TypeOK MonitorInv TaskConservation WakeupsKept
PROPERTIES NoUseAfterFree ImplementsQueue TasksServed SubmitReturns DestroyReturns
