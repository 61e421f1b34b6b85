SPECIFICATION Spec
CONSTANTS
  N = 4
  Delims = {0, 1, 2}
  Pauses = {}
  Buffer = 4
  Modes = {"buffered"}
  Sizes <- Adaptive
  EarlyFlush = {}
  Limits <- NoLimit
  InFlight = 2
  JaggedCap = 8
  MaxRuns = 2
  MaxFaults = 1
INVARIANT ResumeLosesNothing
