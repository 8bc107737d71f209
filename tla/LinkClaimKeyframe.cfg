CONSTANTS
  ByteBits = 4
  WordSize = 2
  Unroll = 2
  Crc <- ScaledCrc
  MaxPayload = 5
  HasDeadline = FALSE
  DeltaModes = {TRUE}
  KeyframeInterval = 3
  MaxBatchSize = 6
  SeqSpace = 4
  Bodies <- TwoBytes
  MaxFrames = 3
  MaxRejoins = 0
SPECIFICATION Spec
INVARIANT DeltaFramesFallThrough
\* the stream ends after MaxFrames frames
CHECK_DEADLOCK FALSE
