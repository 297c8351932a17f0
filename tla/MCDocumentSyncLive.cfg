SPECIFICATION FairSpec
CONSTANTS
  r1 = r1  r2 = r2  r3 = r3
  g = g  c1 = c1  c2 = c2  c3 = c3  c4 = c4  c5 = c5
  s1 = s1  s2 = s2  null = null
  Replicas = {r1, r2}
  Cids = {g, c1, c2}
  Genesis = g
  Slots = {s1}
  None = null
  MaxRecentTips = 2
  MaxCrossLinks = 1
PROPERTIES PublishedReachesAll
CHECK_DEADLOCK FALSE
