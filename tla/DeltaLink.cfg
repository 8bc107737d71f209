CONSTANTS
  ByteBits = 4
  WordSize = 2
  Unroll = 2
  Crc <- ScaledCrc
  MaxPayload = 5
  HasDeadline = TRUE
  DeltaModes = {TRUE, FALSE}
  KeyframeInterval = 3
  MaxBatchSize = 6
  SeqSpace = 4
  Bodies <- ShortAndLong
  MaxFrames = 5
  MaxRejoins = 1
SPECIFICATION Spec
CONSTRAINT OwnedStream
INVARIANTS FramesKeptApart Reconstructed DesyncDetected BaselineIsLastFrame
\* the stream ends after MaxFrames frames
CHECK_DEADLOCK FALSE
