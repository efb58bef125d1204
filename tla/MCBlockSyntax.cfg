CONSTANTS
  Types = {7, 17, 19, 204, 205}
  BlockLimit = 4
  Offered <- Offers
SPECIFICATION Spec
INVARIANTS ReadsBack FramingCatches CostModel ChromaSettles
CHECK_DEADLOCK FALSE
