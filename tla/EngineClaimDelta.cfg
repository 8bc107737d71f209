CONSTANTS
  Capacity = 2
  CanEvict = FALSE
  MaxPush = 3
  HeaderSize = 1
  MaxBatchSize = 5
  MaxItemSize = 2
  MarshalResults = {2}
  MaxCount = 3
  HasSink = TRUE
  HasCompressor = FALSE
  FlushTimeout = 1
  ShutdownTimeouts = {0}
  DeltaEncoding = TRUE
  KeyframeInterval = 3
  FailsAfterWrite = FALSE
  AsyncInner = FALSE
  ProducersHalt = TRUE
  CallsStats = FALSE
  SeqSpace = 2
SPECIFICATION Spec
INVARIANTS ChainIntact
\* the system stops once it has shut down
CHECK_DEADLOCK FALSE
