\* Kills and payload failures under every on_error policy.
SPECIFICATION Spec
CONSTANTS
  w1 = w1
  w2 = w2
  Workers = {w1, w2}
  Setups <- BothSetups
  RetryLimit = 2
  EmptyBatches = {1}
  Policies = {"retry", "skip", "fail-fast"}
  SignalCap = 1
  RespawnCap = 1
INVARIANTS TypeOK DrainBehindCommit OneOutcome CompleteResults CountExact PoisonExact
PROPERTIES CommittedKept Termination
