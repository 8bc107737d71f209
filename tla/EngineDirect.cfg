CONSTANTS
  Capacity = 2
  CanEvict = TRUE
  MaxPush = 3
  HeaderSize = 1
  MaxBatchSize = 5
  MaxItemSize = 2
  MarshalResults = {0, 2}
  MaxCount = 3
  HasSink = TRUE
  HasCompressor = TRUE
  FlushTimeout = 0
  ShutdownTimeouts = {0, 1}
  DeltaEncoding = TRUE
  KeyframeInterval = 2
  FailsAfterWrite = FALSE
  AsyncInner = TRUE
  ProducersHalt = TRUE
  CallsStats = TRUE
  SeqSpace = 2
SPECIFICATION Spec
INVARIANTS CountersAgree ChainIntact SnapshotStable NoneAbandoned SafeToClose CountsOnce DepthWithinCap
\* the system stops once it has shut down
CHECK_DEADLOCK FALSE
