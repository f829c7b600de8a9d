\* The program as it is, with NUM_THREADS = 3.
SPECIFICATION Spec
CHECK_DEADLOCK FALSE
CONSTANT NumThreads = 3
INVARIANTS SerialThreadActs
