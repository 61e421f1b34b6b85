\* One worker slot that dies at will: retries, poison with a halt limit, the
\* tail, a ring that is lapped when nobody is registered.
SPECIFICATION FairSpec
CONSTANTS
  w1 = w1
  w2 = w2
  Workers = {w1}
  NBatches = 3
  NTail = 1
  AdaptiveTail = TRUE
  Numa = FALSE
  FallowOn = TRUE
  RingSize = 3
  MaxAhead = 1
  BacklogHigh = 10
  HoldBack = 4
  RetryLimit = 2
  HaltCount = 1
  MaxDeaths = 2
  MayAbort = FALSE
INVARIANTS CompleteExit
PROPERTIES RetriesServed
