\* Two workers, two deaths, no reclaimer: the ring is not lapped.
SPECIFICATION Spec
CONSTANTS
  w1 = w1
  w2 = w2
  Workers = {w1, w2}
  NBatches = 2
  NTail = 0
  AdaptiveTail = FALSE
  Numa = FALSE
  FallowOn = FALSE
  RingSize = 4
  MaxAhead = 1
  BacklogHigh = 10
  HoldBack = 4
  RetryLimit = 1
  HaltCount = 0
  MaxDeaths = 2
  MayAbort = FALSE
SYMMETRY Symmetry
INVARIANTS TypeOK TicketExclusive TicketComplete CountersCover
  ClaimedSlotIntact RecordsCurrent PoisonCountedOnce
PROPERTIES ImplementsLedger
