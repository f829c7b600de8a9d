\* All four programs. A program stops for ever when a thread or main waits for
\* something that was never initialised.
SPECIFICATION FourFairSpec
CHECK_DEADLOCK FALSE
INVARIANTS FourTypeOK ReleasedLast SuccessMeansDone
PROPERTIES ProgramEnds
