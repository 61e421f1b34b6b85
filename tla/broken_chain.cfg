SPECIFICATION Spec
CONSTANTS
  NumNodes = 2
  N = 8
  Delims = {0, 2, 4, 6}
  ChunkSize = 2
  KeepFor = 3
  QueueLimit = 4
  MetaSize = 16
  StealAt = 3
  BatchLines = 1
  Modes <- Limited
INVARIANT StuckQueueDrained
CHECK_DEADLOCK FALSE
