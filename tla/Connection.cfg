SPECIFICATION FairSpec
CONSTANTS
  Socket = {s1, s2}
  NoSocket = NoSocket
  Timer = {t1, t2}
  NoTimer = NoTimer
  Limits = {1, 2}
  EnableHeartbeat = TRUE
  HasConnectTimeout = TRUE
INVARIANTS NoOrphanSocket SingleRetry ReleasedIsFinal HeartbeatWatches
PROPERTIES NoSilentGiveUp RetriesFollowALoss OutageEnds HalfOpenIsNoticed
