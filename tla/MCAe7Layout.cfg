CONSTANTS
  Base = 10
  HeaderText = 260
  Sprites <- SpriteSizes
  KeySizes = {0, 9, 4490}
  Movies <- MovieSet
  Masks = {1, 2047}
  HeaderRounds = 8
  CatalogueRounds = 64
  LineGuess = 30
SPECIFICATION Spec
INVARIANTS HeaderSettles ParserAccepts NoOverrun
CHECK_DEADLOCK FALSE
