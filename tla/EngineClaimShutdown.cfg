CONSTANTS
  Capacity = 2
  CanEvict = FALSE
  MaxPush = 2
  HeaderSize = 1
  MaxBatchSize = 3
  MaxItemSize = 2
  MarshalResults = {2}
  MaxCount = 3
  HasSink = TRUE
  HasCompressor = FALSE
  FlushTimeout = 0
  ShutdownTimeouts = {0}
  DeltaEncoding = FALSE
  KeyframeInterval = 0
  FailsAfterWrite = FALSE
  AsyncInner = FALSE
  ProducersHalt = TRUE
  CallsStats = FALSE
  SeqSpace = 2
SPECIFICATION Spec
INVARIANTS NoneAbandoned
\* the system stops once it has shut down
CHECK_DEADLOCK FALSE
