\* As Bluetooth; a peer that was closed opens after all.
SPECIFICATION Spec
CHECK_DEADLOCK FALSE
CONSTANTS
  Node = {"anna", "bert"}
  Rank <- MCRank
  MaxPeers <- MCMaxPeers
  MaxBid <- MCMaxBid
  MaxRecords = 2
  MaxTroubles = 1
PROPERTIES ClosedStaysClosed
