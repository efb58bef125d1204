CONSTANTS
  Width = 8
  Height = 8
  LumaLevels = 64
  Source <- SourcePicture
  Previous <- PreviousPicture
  Temporal <- TemporalVectors
  MaxCopies = 2
SPECIFICATION Spec
INVARIANTS NeverRefused DecoderAgrees
CHECK_DEADLOCK FALSE
