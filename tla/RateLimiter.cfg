\* max_requests and num_threads as in main().
SPECIFICATION FairSpec
CONSTANTS
  Threads = {1, 2, 3, 4, 5}
  MaxRequests = 3
INVARIANTS TypeOK PermitsConserved
PROPERTIES EveryThreadEnds
