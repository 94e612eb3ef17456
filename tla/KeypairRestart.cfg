SPECIFICATION Spec
CONSTANTS
  Realm = {tab1, tab2}
  Call = {c1}
  MaxPairs = 3
  MaxFaults = 0
INVARIANT SurvivesARestart
