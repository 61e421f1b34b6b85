SPECIFICATION FairSpec
CONSTANTS
  NumNodes = 2
  N = 14
  Delims = {0, 4, 5, 6, 10, 11}
  ChunkSize = 2
  KeepFor = 2
  QueueLimit = 2
  MetaSize = 4
  StealAt = 2
  BatchLines = 2
  Modes <- EveryMode
INVARIANTS TypeOK UnindexedFresh ChainFresh ClosedOnce NothingTwice NoneOrphaned MajorsClosed BatchesExact
PROPERTIES FrontEnds
CHECK_DEADLOCK FALSE
