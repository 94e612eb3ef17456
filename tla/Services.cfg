\* One identity that announces here and elsewhere, two callers, two runs.
SPECIFICATION FairSpec
CONSTANTS
  Identity = {"bert"}
  Mine = {"bert"}
  MaxCalls = 2
  MaxKey = 2
  Run = {r1, r2}
  NoRun = NoRun
CHECK_DEADLOCK FALSE
INVARIANTS ForgetTakesEffect WaitersHaveLookup InOrder RenewalGoesOn
PROPERTIES ComesBackOn
