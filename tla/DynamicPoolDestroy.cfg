\* The use main() of pthreads6.c makes of the pool: one caller, a ring that
\* never fills, and a call to destroy.
\* The program really stops: a caller that adds a worker waits for itself, and
\* once no task is left the workers sleep forever.
SPECIFICATION FairSpec
CHECK_DEADLOCK FALSE
CONSTANTS
  w1 = w1
  w2 = w2
  w3 = w3
  c1 = c1
  c2 = c2
  t1 = t1
  t2 = t2
  t3 = t3
  t4 = t4
  Workers = {w1, w2}
  Callers = {c1}
  Main = c1
  Tasks = {t1, t2}
  Capacity = 3
  InitialThreads = 1
  MaxSpurious = 0
  NoTask = NoTask
  NoThread = NoThread
PROPERTIES DestroyReturns
