\* As DirectChannel, but the client comes back with a lesser token.
SPECIFICATION Spec
CHECK_DEADLOCK FALSE
CONSTANTS
  Client = {"anna", "bert"}
  MaxConns <- MCMaxConns
  MaxPeers <- MCMaxPeers
  Rank <- MCRankFalls
INVARIANT OffersNeverCross
