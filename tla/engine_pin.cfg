\* The ring is lapped under the reclaimer's window; a batch may be retried.
SPECIFICATION Spec
CONSTANTS
  w1 = w1
  w2 = w2
  Workers = {w1, w2}
  NBatches = 5
  NTail = 0
  AdaptiveTail = FALSE
  Numa = FALSE
  FallowOn = TRUE
  RingSize = 4
  MaxAhead = 1
  BacklogHigh = 10
  HoldBack = 4
  RetryLimit = 1
  HaltCount = 0
  MaxDeaths = 1
  MayAbort = FALSE
SYMMETRY Symmetry
INVARIANTS SlotsPinned
