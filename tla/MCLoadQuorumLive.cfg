SPECIFICATION FairSpec
CONSTANTS
  p1 = p1  p2 = p2  p3 = p3
  Default = Default  None = None  Pending = Pending
  NoVote = NoVote  UnknownDoc = UnknownDoc  Forged = Forged
  Peers = {p1, p2, p3}
  MaxConnections = 2
  Connections <- AnyConnections
  Configs <- SinglePeerConfig
  MaxState = 2
PROPERTY ProbeRoundEnds
CHECK_DEADLOCK FALSE
