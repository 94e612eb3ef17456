SPECIFICATION FairSpec
CONSTANTS
  Client = {"anna", "bert"}
  Pubkey = {"anna", "annas work", "bert"}
  Profiles <- MCProfiles
  Nobody = "nobody"
  MaxConns <- MCMaxConns
CHECK_DEADLOCK FALSE
INVARIANTS OneGreetingSuffices
PROPERTIES TokenKeepsOwner GreetingsDieOut
