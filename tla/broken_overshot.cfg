\* An overshot ticket is dropped although its batch was published.
SPECIFICATION Spec
CONSTANTS
  w1 = w1
  w2 = w2
  Workers = {w1, w2}
  NBatches = 2
  NTail = 0
  AdaptiveTail = FALSE
  Numa = FALSE
  FallowOn = FALSE
  RingSize = 4
  MaxAhead = 1
  BacklogHigh = 10
  HoldBack = 4
  RetryLimit = 3
  HaltCount = 0
  MaxDeaths = 0
  MayAbort = FALSE
INVARIANTS OvershotNamesNothing
