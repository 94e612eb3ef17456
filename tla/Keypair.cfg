SPECIFICATION Spec
CONSTANTS
  Realm = {tab1, tab2}
  Call = {c1, c2}
  MaxPairs = 3
  MaxFaults = 1
INVARIANTS OneIdentity RemembersWhatIsKept
