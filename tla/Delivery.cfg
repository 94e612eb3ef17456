SPECIFICATION FairSpec
CONSTANTS
  Msg = {"photo", "film"}
  Pieces <- MCPieces
  Fits <- MCFits
  MaxToken = 2
  MaxOwnToken = 2
  SealNamesSender = FALSE
CHECK_DEADLOCK FALSE
INVARIANTS Conserved WithinLimits
PROPERTIES Arrives
