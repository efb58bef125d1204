CONSTANTS
  LevelCount = 8
  Sizes = {0, 1, 2}
  TargetMin = 1
  TargetMax = 1
SPECIFICATION FairSpec
INVARIANTS SameRow
PROPERTIES LinearImplements BothSettle
