CONSTANTS
  MAX_DISTANCE = 60
  ChecksumLimit = 40
  MainLen = 38
  StreamLen = 16
  SourceCapacity = 14
  Damaged = 99
  Torn = 98
  Marker = 100
  PalettePrefix = 12
  PictureLen = 50
  FrameTicks = 2
  SampleTicks = 1
  Movies <- IotaMovies
  OptionSets <- WavOptions
SPECIFICATION Spec
INVARIANTS WavTellsChannels
CHECK_DEADLOCK FALSE
