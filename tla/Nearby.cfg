\* An announcer in two networks, a responder of another make, one search.
SPECIFICATION FairSpec
CONSTANTS
  Announcer = {"a1"}
  Foreign = {"f1"}
  Searcher = "me"
  Network = {"lan", "docker"}
  Nets <- MCNets
  Says <- MCSays
  Wanted = {"card", "invite"}
  MaxAsks = 2
  MaxLost = 1
  Beacon = {"invite"}
CHECK_DEADLOCK FALSE
INVARIANTS OwnAddress SearchFinds
PROPERTIES SearchesEnd
