CONSTANTS
  LevelCount = 29
  Sizes = {0, 1, 2}
  TargetMin = 1
  TargetMax = 1
SPECIFICATION Spec
INVARIANTS BracketInv NoWastedProbe LogarithmicRetries
PROPERTIES ImplementsSearch
