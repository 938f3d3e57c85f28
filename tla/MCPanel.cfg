CONSTANTS
  Models <- TwoModels
  Agents = {1, 2}
  Screens <- Terminals
  PieceRows = 2
  PrivacyRows = 7
  MaxPieces = 2
  MaxThreads = 2
  MaxKeys = 3
  None = "none"

SPECIFICATION Spec
INVARIANTS NothingHangs OfferHolds Restored
CHECK_DEADLOCK FALSE
