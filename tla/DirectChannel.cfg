\* One client that stays and one that comes back with a greater token.
SPECIFICATION FairSpec
CHECK_DEADLOCK FALSE
CONSTANTS
  Client = {"anna", "bert"}
  MaxConns <- MCMaxConns
  MaxPeers <- MCMaxPeers
  Rank <- MCRank
INVARIANTS NothingLeftOpen CandidatesNotStranded OffersDoNotCross
PROPERTIES DirectIsReached
