SPECIFICATION Spec
CONSTANTS
  p1 = p1  p2 = p2  p3 = p3
  Default = Default  None = None  Pending = Pending
  NoVote = NoVote  UnknownDoc = UnknownDoc  Forged = Forged
  Peers = {p1, p2, p3}
  MaxConnections = 3
  Connections <- AnyConnections
  Configs <- AnyConfig
  MaxState = 2
SYMMETRY PeerSymmetry
INVARIANTS
  
  NewDocumentUncontested
  WinnerUnique
  BlameIsExact
CHECK_DEADLOCK FALSE
