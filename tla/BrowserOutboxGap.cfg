SPECIFICATION Spec
CONSTANTS
  None = None
  Keys = {"k1"}
  Pages = {"p1"}
  Capacity = 1
  MaxSequence = 3
INVARIANT
  GapEventsCoverLoss
