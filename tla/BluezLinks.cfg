SPECIFICATION FairSpec
CONSTANTS
  Seeker = {s1, s2}
  Looker = {d1}
  Nobody = Nobody
INVARIANTS TypeOK KeptIsUp LookingCutsNoChannel
PROPERTY EverybodyHasATurn
