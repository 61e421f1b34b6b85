SPECIFICATION FairSpec
CONSTANTS
  Fields = {horizon, jagged}
  Readers = {scanner, dump}
  MaxPublish = 2
  StoresHeld = TRUE
  horizon = horizon
  bytes = bytes
  jagged = jagged
  scanner = scanner
  dump = dump
INVARIANT SnapshotIsPublication
PROPERTY SnapshotIsCurrent
PROPERTY SnapshotEnds
CHECK_DEADLOCK FALSE
