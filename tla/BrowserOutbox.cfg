SPECIFICATION FairSpec
CONSTANTS
  None = None
  Keys = {"k1"}
  Pages = {"p1"}
  Capacity = 2
  MaxSequence = 4
INVARIANTS
  TypeOK
  NoSilentLoss
  LastPageIsNewest
PROPERTIES
  ImplementsDelivery
  GapReported
