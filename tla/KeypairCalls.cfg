SPECIFICATION Spec
CONSTANTS
  Realm = {tab1}
  Call = {c1, c2}
  MaxPairs = 3
  MaxFaults = 0
INVARIANT SameKeyBetweenCalls
