\* A NUMA node (no sentinel behind the last batch) with one worker slot that
\* dies at will: the slot is freed only when nothing is left to run.
SPECIFICATION FairSpec
CONSTANTS
  w1 = w1
  w2 = w2
  Workers = {w1}
  NBatches = 3
  NTail = 0
  AdaptiveTail = FALSE
  Numa = TRUE
  FallowOn = FALSE
  RingSize = 8
  MaxAhead = 4
  BacklogHigh = 10
  HoldBack = 4
  RetryLimit = 3
  HaltCount = 0
  MaxDeaths = 3
  MayAbort = FALSE
INVARIANTS CompleteExit
PROPERTIES RetriesServed
