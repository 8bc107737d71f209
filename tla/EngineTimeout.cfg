CONSTANTS
  Capacity = 2
  CanEvict = FALSE
  MaxPush = 3
  HeaderSize = 1
  MaxBatchSize = 6
  MaxItemSize = 2
  MarshalResults <- MarshalLengths
  MaxCount = 2
  HasSink = TRUE
  HasCompressor = FALSE
  FlushTimeout = 1
  ShutdownTimeouts = {0, 1}
  DeltaEncoding = FALSE
  KeyframeInterval = 0
  FailsAfterWrite = TRUE
  AsyncInner = FALSE
  ProducersHalt = FALSE
  CallsStats = FALSE
  SeqSpace = 2
SPECIFICATION FairSpec
INVARIANTS TypeOK OneFlushAtATime SnapshotStable DeliveredInOrder CountersAgree
PROPERTIES StopsAfterCancel KeepsDraining
\* the system stops once it has shut down
CHECK_DEADLOCK FALSE
