SPECIFICATION FairSpec
CONSTANTS
  Cids = {1, 2, 3, 4}
  MaxRecentTips = 2
  MaxCrossLinks = 1
  Calls = {x1, x2}
  Foreign = {}
  MaxAcl = 2
  Signing = FALSE
  PeerCompacts = FALSE
  SnapshotInterval = 2
  MinChanges = 2
  KeepRecentNodes = 1
  x1 = x1
  x2 = x2
  None = None
 
 
PROPERTY CompactionEnds
CHECK_DEADLOCK FALSE
