\* The program really stops when a thread could not be created and another one
\* waits at the barrier.
SPECIFICATION FairSpec
CHECK_DEADLOCK FALSE
CONSTANT NumThreads = 4
INVARIANTS TypeOK Rendezvous
PROPERTIES EndsUnlessStuck
