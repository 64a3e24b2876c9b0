SPECIFICATION Spec
CONSTANTS
  s1 = s1
  s2 = s2
  a1 = a1
  h1 = h1
  h2 = h2
  NoSession = NoSession
  Sessions <- MCSessions
  Artifacts <- MCArtifacts
  Shards <- MCShards
  MaxSessions = 2
  ChannelCap = 1
SYMMETRY MCSymmetry
CHECK_DEADLOCK FALSE
INVARIANTS MapsAgree OnlineHasHandler StuckOnlyByDeadSocket
