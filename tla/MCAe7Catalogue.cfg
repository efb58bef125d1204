CONSTANTS
  Base = 10
  HeaderText = 260
  Sprites = {0, 80}
  KeySizes = {0, 9, 4490}
  Movies <- ManyTracks
  Masks = {1, 2047}
  HeaderRounds = 8
  CatalogueRounds = 64
  LineGuess = 30
SPECIFICATION Spec
INVARIANTS CatalogueFits
CHECK_DEADLOCK FALSE
