\* As DirectChannel.
SPECIFICATION FairSpec
CHECK_DEADLOCK FALSE
CONSTANTS
  Client = {"anna", "bert"}
  MaxConns <- MCMaxConns
  MaxPeers <- MCMaxPeers
  Rank <- MCRank
PROPERTIES FallenChannelIsTriedAgain
