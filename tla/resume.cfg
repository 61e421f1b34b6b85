SPECIFICATION Spec
CONSTANTS
  N = 4
  Delims = {0, 2}
  Pauses = {2}
  Buffer = 4
  Modes = {"ordered", "buffered", "realtime"}
  Sizes <- OrderedAdapts
  EarlyFlush = {"realtime"}
  Limits <- OrderedLimits
  InFlight = 2
  JaggedCap = 8
  MaxRuns = 2
  MaxFaults = 2
INVARIANTS TypeOK CheckpointExact CompleteOutput OrderedPrefix ScanCovers
PROPERTIES ImplementsDelivery
