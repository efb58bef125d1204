CONSTANTS
  MaxFrames = 26
  ChunkSizes = {0}
  HalfRates = {25}
  Ratios <- HalfRatio
  Tracks = {0, 100}
SPECIFICATION PlaybackSpec
INVARIANTS VaryingCountsPlay
CHECK_DEADLOCK FALSE
