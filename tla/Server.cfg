\* Five connections, a kernel queue of two, a pool of one thread with room for
\* one task, and descriptors for four connections.
\* The program really stops when it has no worker and the pool is full.
SPECIFICATION FairSpec
CHECK_DEADLOCK FALSE
CONSTANTS
  c1 = c1
  c2 = c2
  c3 = c3
  c4 = c4
  c5 = c5
  Clients = {c1, c2, c3, c4, c5}
  MaxPending = 2
  MaxTasks = 1
  PoolSize = 1
  MaxFds = 4
  NoClient = NoClient
INVARIANTS TypeOK FdsOwned BackPressure
PROPERTIES EventuallyHandled
