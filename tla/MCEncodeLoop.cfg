CONSTANTS
  LevelCount = 3
  Sizes = {0, 1, 2}
  TargetMin = 1
  TargetMax = 1
  Pictures = {p, q}
  RateTarget = TRUE
  DataOnly = FALSE
  ChunkSizes = {0, 2, 4}
  MaxFrames = 3
SPECIFICATION EncodeSpec
INVARIANTS KeysFollow SeekEqualsPlay CacheIsFresh FrozenTail
PROPERTIES Ends
CHECK_DEADLOCK FALSE
