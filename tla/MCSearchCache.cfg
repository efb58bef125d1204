CONSTANTS
  LevelCount = 3
  Candidates = 3
  MaxError = 2
SPECIFICATION Spec
INVARIANTS CacheAnswersAll AnswerIsBest
