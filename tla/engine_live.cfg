\* Two workers, one death, an alarm at any time: everything comes to a stop.
SPECIFICATION FairSpec
CONSTANTS
  w1 = w1
  w2 = w2
  Workers = {w1, w2}
  NBatches = 1
  NTail = 0
  AdaptiveTail = FALSE
  Numa = FALSE
  FallowOn = FALSE
  RingSize = 4
  MaxAhead = 1
  BacklogHigh = 10
  HoldBack = 4
  RetryLimit = 2
  HaltCount = 0
  MaxDeaths = 1
  MayAbort = TRUE
PROPERTIES Termination
