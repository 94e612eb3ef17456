SPECIFICATION Spec
CONSTANTS
  Seeker = {s1, s2}
  Looker = {d1}
  Nobody = Nobody
INVARIANT ChannelHears
