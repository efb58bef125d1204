CONSTANTS
  MaxFrames = 8
  ChunkSizes = {0, 1, 2, 3}
  HalfRates = {1, 3, 5, 25}
  Ratios <- RatioSet
  Tracks = {0, 11, 50}
SPECIFICATION PlaybackSpec
INVARIANTS
  Partition SoundHasTwoChunks NoDrift UniformUnlessSlipped
  SlicesTile AdpcmStartsAnywhere
  FullChunksPlay SoundNeverSkips HeardAtCut
PROPERTIES PlaybackEnds
CHECK_DEADLOCK FALSE
