\* All five programs, three events and at most three waiting for the loop.
\* A program stops for ever when its loop waits and no event comes.
SPECIFICATION FairSpec
CHECK_DEADLOCK FALSE
CONSTANTS
  Programs = {"demo2", "demo3", "demo4", "demo5", "miniserver"}
  MaxEvents = 3
  MaxQueue = 3
INVARIANTS TypeOK ReleasedOnce ShutdownFirst
PROPERTIES LoopEnds HangupHeard
