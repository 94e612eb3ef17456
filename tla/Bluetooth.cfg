\* A peripheral and a central, and one thing that goes against them.
SPECIFICATION FairSpec
CHECK_DEADLOCK FALSE
CONSTANTS
  Node = {"anna", "bert"}
  Rank <- MCRank
  MaxPeers <- MCMaxPeers
  MaxBid <- MCMaxBid
  MaxRecords = 2
  MaxTroubles = 1
INVARIANTS NothingKeptForNobody NobodyWaitsForEver InStep
PROPERTIES ChannelIsReached
