SPECIFICATION Spec
CONSTANTS
  Socket = {s1, s2, s3}
  NoSocket = NoSocket
  Timer = {t1, t2}
  NoTimer = NoTimer
  Limits = {1, 2}
  EnableHeartbeat = TRUE
  HasConnectTimeout = TRUE
SYMMETRY Symmetry
INVARIANTS ConnectYieldsToken
