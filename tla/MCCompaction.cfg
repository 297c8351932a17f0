SPECIFICATION Spec
CONSTANTS
  Cids = {1, 2, 3}
  MaxRecentTips = 2
  MaxCrossLinks = 1
  Calls = {x1, x2}
  Foreign = {9}
  MaxAcl = 1
  Signing = TRUE
  PeerCompacts = TRUE
  SnapshotInterval = 2
  MinChanges = 2
  KeepRecentNodes = 2
  x1 = x1
  x2 = x2
  None = None
SYMMETRY CallSymmetry
 
INVARIANT SnapshotCoversBoundary
CHECK_DEADLOCK FALSE
