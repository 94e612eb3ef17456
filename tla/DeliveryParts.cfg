SPECIFICATION Spec
CONSTANTS
  Msg = {"photo"}
  Pieces <- MCPieces
  Fits <- MCFits
  MaxToken = 2
  MaxOwnToken = 1
  SealNamesSender = TRUE
CHECK_DEADLOCK FALSE
INVARIANTS DeadTokenDoesNotSwallow
